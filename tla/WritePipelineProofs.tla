------------------------- MODULE WritePipelineProofs -------------------------
(***************************************************************************)
(* Proofs about module WritePipeline, for any sets of users and writes,    *)
(* any length of the pipeline and any number of faults; at the end, that   *)
(* it implements WriteQueue: every step of the client, the backend and the *)
(* network is a step of the queues the app takes its writes to be in, or   *)
(* changes nothing there.                                                  *)
(***************************************************************************)
EXTENDS WritePipeline, SequenceTheorems, FiniteSetTheorems, TLAPS

Batch == [id : Nat, write : Writes]
Calls == [out : Seq(Messages), in : Seq(Messages),
          status : Statuses \cup {"none"}, failed : {"no", "next", "now"}]

\* Ids grow along a queue, from 1.
Sorted(queue) ==
    /\ \A i \in DOMAIN queue : queue[i].id > 0
    /\ \A i, j \in DOMAIN queue : i < j => queue[i].id < queue[j].id

\* The next id is new in every queue, so no completion waits under it.
IdsInOrder ==
    \A u \in Users : /\ Sorted(mutations[u])
                     /\ \A i \in DOMAIN mutations[u] : mutations[u][i].id < nextId

Front(pipe, queue) ==
    /\ Len(pipe) <= MaxPending
    /\ Len(pipe) <= Len(queue)
    /\ \A i \in 1 .. Len(pipe) : pipe[i] = queue[i]

\* As much of the queue as there is room for.
Full(pipe, queue) == Len(pipe) = MaxPending \/ Len(pipe) = Len(queue)

\* What a call carries, message by message: all of exp while it lives, and
\* answers to the first of it afterwards.
Matches(c, exp) ==
    c.status # "none" =>
        /\ Len(c.in) <= Len(exp)
        /\ \A i \in 1 .. Len(c.in) : c.in[i] = exp[i]
        /\ c.status = "live" =>
              /\ Len(c.in) + Len(c.out) = Len(exp)
              /\ \A i \in 1 .. Len(c.out) : c.out[i] = exp[Len(c.in) + i]
Expected(shaken, pipe) == IF shaken THEN Contents(pipe) ELSE <<Handshake>>

\* An answer is to a write that was applied; a refused call has left the
\* refused write behind those that were answered.
AnswersAreTrue(c, shaken, pipe, applied, refused) ==
    /\ \A i \in 1 .. Len(c.in) : c.in[i] \in applied \cup {Handshake}
    /\ c.status = "permanent" =>
          IF shaken THEN /\ Len(c.in) < Len(pipe)
                         /\ pipe[Len(c.in) + 1].write \in refused
          ELSE c.in = <<>>

\* The stream, its tokens and its timer; a stream that has not shaken hands
\* was started because there was something to send.
InStep(pipe, state, shaken, timer, c, count, asked) ==
    /\ c.status # "none" <=> state = "Open"
    /\ c.status = "none" => c = NoCall
    /\ count \in asked <=> state = "Starting"
    /\ shaken => state = "Open"
    /\ timer /\ state = "Open" => shaken /\ pipe = <<>>
    /\ state \in {"Starting", "Backoff"} => pipe # <<>>
    /\ state = "Open" /\ ~ shaken => pipe # <<>>

\* The queues on disk and the completions.
Queued ==
    /\ user \in Users
    /\ mutations \in [Users -> Seq(Batch)]
    /\ nextId \in Nat /\ nextId > 0
    /\ callbacks \subseteq [user : Users, id : Nat, write : Writes]
    /\ author \in [Writes -> Users \cup {NoOne}]
    /\ IdsInOrder
    /\ CallbacksMatch
    /\ NothingIsLost

\* The pipeline and the stream.
Streaming ==
    /\ pipeline \in Seq(Batch)
    /\ stream \in States
    /\ handshake \in BOOLEAN /\ idle \in BOOLEAN
    /\ closes \in Nat /\ tokens \subseteq 0 .. closes
    /\ call \in Calls
    /\ Front(pipeline, mutations[user])
    /\ Matches(call, Expected(handshake, pipeline))
    /\ AnswersAreTrue(call, handshake, pipeline, committed, rejected)
    /\ InStep(pipeline, stream, handshake, idle, call, closes, tokens)
    /\ idle => stream = "Open"
    /\ pipeline # <<>> => Started

Inv == Queued /\ Streaming

-----------------------------------------------------------------------------
(* Queues and the pipeline.                                                *)

\* The writes of some batches, in their order.
LEMMA ContentsType ==
    ASSUME NEW pipe \in Seq(Batch)
    PROVE  /\ Contents(pipe) \in Seq(Writes)
           /\ Len(Contents(pipe)) = Len(pipe)
           /\ \A i \in 1 .. Len(pipe) : Contents(pipe)[i] = pipe[i].write
  <1>1. pipe \in [1 .. Len(pipe) -> Batch] /\ Len(pipe) \in Nat /\ DOMAIN pipe = 1 .. Len(pipe)
    OBVIOUS
  <1>2. Contents(pipe) = [i \in 1 .. Len(pipe) |-> pipe[i].write]
    BY <1>1 DEF Contents
  <1>3. \A i \in 1 .. Len(pipe) : pipe[i].write \in Writes
    BY <1>1 DEF Batch
  <1>4. Contents(pipe) \in [1 .. Len(pipe) -> Writes]
    BY <1>2, <1>3
  <1> QED BY <1>1, <1>2, <1>4

\* A batch has an id and a write.
LEMMA BatchType ==
    ASSUME NEW queue \in Seq(Batch), NEW i \in 1 .. Len(queue)
    PROVE  queue[i] \in Batch /\ queue[i].id \in Nat /\ queue[i].write \in Writes
  <1>1. queue[i] \in Batch
    OBVIOUS
  <1> QED BY <1>1 DEF Batch

\* FillWritePipeline: what is at the front of the queue stays, and as much
\* as there is room for follows.
LEMMA FilledIsFront ==
    ASSUME PipelineConstants, NEW pipe \in Seq(Batch), NEW queue \in Seq(Batch),
           Sorted(queue), Front(pipe, queue)
    PROVE  LET filled == Filled(pipe, queue)
           IN  /\ filled \in Seq(Batch)
               /\ Front(filled, queue)
               /\ Len(pipe) <= Len(filled)
               /\ \A i \in 1 .. Len(pipe) : filled[i] = pipe[i]
               /\ filled = <<>> <=> queue = <<>>
               /\ Full(filled, queue)
  <1> DEFINE last == IF pipe = <<>> THEN 0 ELSE pipe[Len(pipe)].id
             Behind(k) == /\ \A j \in 1 .. k : queue[j].id <= last
                          /\ \A j \in k + 1 .. Len(queue) : queue[j].id > last
             n == Len(pipe)
             m == Len(queue)
             room == MaxPending - n
             top == IF m - n < room THEN m ELSE n + room
  <1>1. n \in Nat /\ m \in Nat /\ n <= m /\ n <= MaxPending /\ MaxPending \in Nat \ {0}
    BY DEF Front, PipelineConstants
  <1>2. \A i \in 1 .. m : queue[i].id \in Nat /\ queue[i].id > 0
    BY BatchType DEF Sorted
  <1>3. \A i, j \in 1 .. m : i < j => queue[i].id < queue[j].id
    BY DEF Sorted
  <1>4. last = IF n = 0 THEN 0 ELSE queue[n].id
    BY <1>1 DEF Front
  <1>5. Behind(n)
    <2>1. ASSUME NEW j \in 1 .. n PROVE queue[j].id <= last
      <3>1. j = n \/ (j < n /\ queue[j].id < queue[n].id)
        BY <1>1, <1>3
      <3> QED BY <1>1, <1>2, <1>4, <3>1
    <2>2. ASSUME NEW j \in n + 1 .. m PROVE queue[j].id > last
      <3>1. CASE n = 0
        BY <1>1, <1>2, <1>4, <3>1
      <3>2. CASE n # 0
        <4>1. queue[n].id < queue[j].id
          BY <1>1, <1>3, <3>2
        <4> QED BY <1>1, <1>2, <1>4, <3>2, <4>1
      <3> QED BY <3>1, <3>2
    <2> QED BY <2>1, <2>2
  <1>6. ASSUME NEW k \in 0 .. m, Behind(k) PROVE k = n
    <2>1. CASE k < n
      <3>1. n \in k + 1 .. m /\ queue[n].id > last /\ queue[n].id \in Nat
        BY <1>1, <1>2, <1>6, <2>1
      <3> QED BY <1>1, <1>4, <2>1, <3>1
    <2>2. CASE k > n
      <3>1. queue[k].id <= last /\ queue[k].id > last
        BY <1>1, <1>5, <1>6, <2>2
      <3>2. queue[k].id \in Nat /\ last \in Nat
        BY <1>1, <1>2, <1>4, <2>2
      <3> QED BY <3>1, <3>2
    <2> QED BY <1>1, <2>1, <2>2
  <1>7. (CHOOSE k \in 0 .. m : Behind(k)) = n
    <2>1. n \in 0 .. m
      BY <1>1
    <2> HIDE DEF Behind, n, m
    <2> QED BY <1>5, <1>6, <2>1
  <1>8. Filled(pipe, queue) = pipe \o SubSeq(queue, n + 1, top)
    <2>1. Filled(pipe, queue) =
            LET k == CHOOSE k \in 0 .. m : Behind(k)
            IN  pipe \o SubSeq(queue, k + 1, IF m - k < room THEN m ELSE k + room)
      BY DEF Filled
    <2> HIDE DEF Behind
    <2> QED BY <1>7, <2>1
  <1>9. /\ top \in Nat /\ n <= top /\ top <= m /\ top <= MaxPending /\ (top = 0 <=> m = 0)
        /\ top = MaxPending \/ top = m
    BY <1>1
  <1> DEFINE rest == SubSeq(queue, n + 1, top)
             filled == pipe \o rest
  <1> HIDE DEF last, room, top, Behind
  <1>10. /\ rest \in Seq(Batch) /\ Len(rest) = top - n
         /\ \A i \in 1 .. top - n : rest[i] = queue[n + i]
    <2>1. \A i \in n + 1 .. top : queue[i] \in Batch
      BY <1>1, <1>9, BatchType
    <2> QED BY <1>1, <1>9, <2>1, SubSeqProperties
  <1> HIDE DEF rest
  <1>11. /\ filled \in Seq(Batch) /\ Len(filled) = top
         /\ \A i \in 1 .. n : filled[i] = pipe[i]
         /\ \A i \in 1 .. top - n : filled[n + i] = rest[i]
    BY <1>1, <1>9, <1>10
  <1>12. \A i \in 1 .. top : filled[i] = queue[i]
    <2> SUFFICES ASSUME NEW i \in 1 .. top PROVE filled[i] = queue[i]
      OBVIOUS
    <2>1. CASE i \in 1 .. n
      BY <1>11, <2>1 DEF Front
    <2>2. CASE i \notin 1 .. n
      <3>1. i - n \in 1 .. top - n /\ i = n + (i - n)
        BY <1>1, <1>9, <2>2
      <3> QED BY <1>10, <1>11, <3>1
    <2> QED BY <2>1, <2>2
  <1> HIDE DEF filled
  <1>13. Front(filled, queue)
    BY <1>9, <1>11, <1>12 DEF Front
  <1>14. filled = <<>> <=> queue = <<>>
    BY <1>9, <1>11
  <1>15. Full(filled, queue)
    BY <1>9, <1>11 DEF Full
  <1> QED BY <1>8, <1>9, <1>11, <1>13, <1>14, <1>15 DEF filled, rest

\* What a fill does to the call: new batches are written if it can take them.
Extended(c, pipe, filled, shaken) ==
    IF shaken
    THEN [c EXCEPT !.out = @ \o Contents(SubSeq(filled, Len(pipe) + 1, Len(filled)))]
    ELSE c

LEMMA FillCall ==
    ASSUME NEW pipe \in Seq(Batch), NEW filled \in Seq(Batch), NEW shaken \in BOOLEAN,
           NEW c \in Calls, shaken => c.status # "none",
           Len(pipe) <= Len(filled), \A i \in 1 .. Len(pipe) : filled[i] = pipe[i],
           Matches(c, Expected(shaken, pipe))
    PROVE  LET after == Extended(c, pipe, filled, shaken)
           IN  /\ after \in Calls
               /\ after.in = c.in /\ after.status = c.status
               /\ Matches(after, Expected(shaken, filled))
  <1> DEFINE after  == Extended(c, pipe, filled, shaken)
             added == SubSeq(filled, Len(pipe) + 1, Len(filled))
             more  == Contents(added)
             n     == Len(pipe)
             m     == Len(filled)
  <1>1. n \in Nat /\ m \in Nat /\ n <= m
    OBVIOUS
  <1>2. /\ added \in Seq(Batch) /\ Len(added) = m - n
        /\ \A i \in 1 .. m - n : added[i] = filled[n + i]
    <2>1. \A i \in n + 1 .. m : filled[i] \in Batch
      BY <1>1, BatchType
    <2> QED BY <1>1, <2>1, SubSeqProperties
  <1> HIDE DEF added
  <1>3. /\ more \in Seq(Writes) /\ Len(more) = m - n
        /\ \A i \in 1 .. m - n : more[i] = filled[n + i].write
    BY <1>2, ContentsType
  <1> HIDE DEF more
  <1>4. /\ Len(Contents(pipe)) = n /\ Len(Contents(filled)) = m
        /\ \A i \in 1 .. n : Contents(pipe)[i] = filled[i].write
        /\ \A i \in 1 .. m : Contents(filled)[i] = filled[i].write
    BY ContentsType
  <1>5. c.out \in Seq(Messages) /\ c.in \in Seq(Messages)
    BY DEF Calls
  <1>6. CASE ~ shaken
    <2>1. after = c
      BY <1>6 DEF Extended
    <2> QED BY <1>6, <2>1 DEF Expected
  <1>7. CASE shaken
    <2>1. after = [c EXCEPT !.out = c.out \o more]
      BY <1>7 DEF Extended, more, added
    <2> HIDE DEF after
    <2>2. more \in Seq(Messages)
      BY <1>1, <1>3 DEF Messages
    <2>3. c.out \o more \in Seq(Messages)
      BY <1>5, <2>2
    <2>4. /\ after \in Calls /\ after.out = c.out \o more
          /\ after.in = c.in /\ after.status = c.status
      BY <2>1, <2>3 DEF Calls
    <2> DEFINE ins == c.in
               outs == c.out
               done == after.out
               exp == Contents(pipe)
               goal == Contents(filled)
    <2>5. /\ ins \in Seq(Messages) /\ outs \in Seq(Messages)
          /\ Len(exp) = n /\ Len(goal) = m
          /\ \A i \in 1 .. n : exp[i] = filled[i].write
          /\ \A i \in 1 .. m : goal[i] = filled[i].write
          /\ done = outs \o more
      BY <1>4, <1>5, <2>4
    <2>6. /\ Len(ins) <= Len(exp)
          /\ \A i \in 1 .. Len(ins) : ins[i] = exp[i]
          /\ c.status = "live" =>
                /\ Len(ins) + Len(outs) = Len(exp)
                /\ \A i \in 1 .. Len(outs) : outs[i] = exp[Len(ins) + i]
      BY <1>7 DEF Matches, Expected
    <2> HIDE DEF ins, outs, done, exp, goal
    <2>7. Len(ins) <= m /\ \A i \in 1 .. Len(ins) : ins[i] = goal[i]
      BY <1>1, <2>5, <2>6
    <2>8. ASSUME c.status = "live"
          PROVE  /\ Len(ins) + Len(done) = m
                 /\ \A i \in 1 .. Len(done) : done[i] = goal[Len(ins) + i]
      <3>0. Len(ins) \in Nat /\ Len(outs) \in Nat /\ Len(ins) + Len(outs) = n
        BY <2>5, <2>6, <2>8
      <3>1. /\ Len(done) = Len(outs) + (m - n)
            /\ \A i \in 1 .. Len(outs) : done[i] = outs[i]
            /\ \A i \in 1 .. m - n : done[Len(outs) + i] = more[i]
        <4>1. /\ Len(done) = Len(outs) + Len(more)
              /\ \A i \in 1 .. Len(outs) + Len(more) :
                    done[i] = IF i <= Len(outs) THEN outs[i] ELSE more[i - Len(outs)]
          BY <2>2, <2>5, ConcatProperties
        <4>2. ASSUME NEW i \in 1 .. m - n
              PROVE  done[Len(outs) + i] = more[i]
          <5>1. /\ Len(outs) + i \in 1 .. Len(outs) + Len(more)
                /\ ~ (Len(outs) + i <= Len(outs)) /\ (Len(outs) + i) - Len(outs) = i
            BY <1>1, <1>3, <3>0
          <5> QED BY <4>1, <5>1
        <4>3. ASSUME NEW i \in 1 .. Len(outs)
              PROVE  done[i] = outs[i]
          <5>1. i \in 1 .. Len(outs) + Len(more) /\ i <= Len(outs)
            BY <1>1, <1>3, <3>0
          <5> QED BY <4>1, <5>1
        <4> QED BY <1>3, <4>1, <4>2, <4>3
      <3>2. ASSUME NEW i \in 1 .. Len(done)
            PROVE  done[i] = goal[Len(ins) + i]
        <4>1. CASE i \in 1 .. Len(outs)
          <5>1. Len(ins) + i \in 1 .. n
            BY <1>1, <3>0, <4>1
          <5> QED BY <1>1, <2>5, <2>6, <2>8, <3>1, <4>1, <5>1
        <4>2. CASE i \notin 1 .. Len(outs)
          <5>1. i - Len(outs) \in 1 .. m - n /\ i = Len(outs) + (i - Len(outs))
            BY <1>1, <3>0, <3>1, <4>2
          <5>2. done[i] = filled[n + (i - Len(outs))].write
            BY <1>3, <3>1, <5>1
          <5>3. n + (i - Len(outs)) = Len(ins) + i /\ Len(ins) + i \in 1 .. m
            <6>1. i \in Nat /\ i - Len(outs) <= m - n /\ i - Len(outs) >= 1
              BY <1>1, <3>0, <5>1
            <6> QED BY <1>1, <3>0, <6>1
          <5> QED BY <2>5, <5>2, <5>3
        <4> QED BY <4>1, <4>2
      <3>3. Len(ins) + Len(done) = m
        <4> HIDE DEF n, m
        <4>1. Len(done) = Len(outs) + (m - n)
          BY <3>1
        <4> QED BY <1>1, <3>0, <4>1
      <3> QED BY <3>2, <3>3
    <2>9. Matches(after, Expected(shaken, filled))
      BY <1>7, <2>4, <2>5, <2>7, <2>8 DEF Matches, Expected, ins, done, goal
    <2> QED BY <2>4, <2>9 DEF after
  <1> QED BY <1>6, <1>7

\* FillWritePipeline and all that follows from it, from any state of the
\* stream in which it is called.
LEMMA FillStep ==
    ASSUME PipelineConstants, NEW pipe \in Seq(Batch), NEW queue \in Seq(Batch),
           NEW state \in States, NEW shaken \in BOOLEAN, NEW c \in Calls,
           NEW count \in Nat, NEW asked \in SUBSET (0 .. count), idle \in BOOLEAN,
           Sorted(queue), Front(pipe, queue),
           Matches(c, Expected(shaken, pipe)),
           AnswersAreTrue(c, shaken, pipe, committed, rejected),
           InStep(pipe, state, shaken, idle, c, count, asked),
           Fill(pipe, queue, state, shaken, c, count, asked),
           queue = mutations'[user'], shaken = handshake', count = closes',
           UNCHANGED backend
    PROVE  Streaming'
  <1> DEFINE filled == Filled(pipe, queue)
             added  == SubSeq(filled, Len(pipe) + 1, Len(filled))
  <1>1. /\ pipeline' = filled
        /\ call' = IF state = "Open" /\ shaken
                   THEN [c EXCEPT !.out = @ \o Contents(added)] ELSE c
        /\ idle' = (state = "Open" /\ (filled = <<>> \/ (idle /\ (added = <<>> \/ ~ shaken))))
        /\ StartIfNeeded(filled, state, count, asked)
    BY DEF Fill
  <1>2. /\ filled \in Seq(Batch)
        /\ Front(filled, queue)
        /\ Len(pipe) <= Len(filled)
        /\ \A i \in 1 .. Len(pipe) : filled[i] = pipe[i]
        /\ filled = <<>> <=> queue = <<>>
    BY FilledIsFront
  <1> HIDE DEF filled
  <1>3. /\ c.status # "none" <=> state = "Open"
        /\ c.status = "none" => c = NoCall
        /\ count \in asked <=> state = "Starting"
        /\ shaken => state = "Open"
        /\ idle /\ state = "Open" => shaken /\ pipe = <<>>
        /\ state \in {"Starting", "Backoff"} => pipe # <<>>
        /\ state = "Open" /\ ~ shaken => pipe # <<>>
    BY DEF InStep
  <1>4. /\ call' \in Calls /\ call'.in = c.in /\ call'.status = c.status
        /\ Matches(call', Expected(shaken, filled))
    <2>1. call' = Extended(c, pipe, filled, shaken)
      BY <1>1, <1>3 DEF Extended
    <2> QED BY <1>2, <1>3, <2>1, FillCall
  <1>5. pipe # <<>> => filled # <<>>
    BY <1>2
  <1>6. /\ stream' = CASE filled # <<>> /\ state = "Initial" -> "Starting"
                       [] filled # <<>> /\ state = "Error"   -> "Backoff"
                       [] OTHER                              -> state
        /\ tokens' = IF filled # <<>> /\ state = "Initial" THEN asked \cup {count} ELSE asked
    BY <1>1 DEF StartIfNeeded
  <1>7. stream' \in States /\ tokens' \subseteq 0 .. count /\ (stream' = "Open" <=> state = "Open")
    BY <1>6 DEF States
  <1>8. idle' => stream' = "Open" /\ shaken /\ filled = <<>>
    <2>1. ASSUME idle', filled # <<>> PROVE FALSE
      <3>1. state = "Open" /\ idle /\ (added = <<>> \/ ~ shaken)
        BY <1>1, <2>1
      <3>2. shaken /\ pipe = <<>>
        BY <1>3, <3>1
      <3>3. added = filled
        BY <1>2, <3>2
      <3> QED BY <2>1, <3>1, <3>2, <3>3
    <2>2. idle' => state = "Open"
      BY <1>1
    <2> QED BY <1>3, <1>5, <1>7, <2>1, <2>2
  <1>9. InStep(filled, stream', shaken, idle', call', count, tokens')
    <2>1. call'.status # "none" <=> stream' = "Open"
      BY <1>3, <1>4, <1>7
    <2>2. count \in tokens' <=> stream' = "Starting"
      BY <1>3, <1>6
    <2>3. stream' \in {"Starting", "Backoff"} => filled # <<>>
      BY <1>3, <1>5, <1>6
    <2>4. stream' = "Open" /\ ~ shaken => filled # <<>>
      BY <1>3, <1>5, <1>7
    <2>5. call'.status = "none" => call' = NoCall
      BY <1>1, <1>3, <1>4
    <2> QED BY <1>3, <1>7, <1>8, <2>1, <2>2, <2>3, <2>4, <2>5 DEF InStep
  <1>10. filled # <<>> => Started'
    BY <1>6 DEF Started, States
  <1>11. idle' \in BOOLEAN
    BY <1>1
  <1>12. AnswersAreTrue(call', shaken, filled, committed, rejected)
    <2>1. Len(c.in) \in Nat /\ Len(pipe) \in Nat /\ Len(filled) \in Nat
      BY <1>2 DEF Calls
    <2>2. ASSUME c.status = "permanent", shaken
          PROVE  Len(c.in) < Len(filled) /\ filled[Len(c.in) + 1].write \in rejected
      <3>1. Len(c.in) < Len(pipe) /\ pipe[Len(c.in) + 1].write \in rejected
        BY <2>2 DEF AnswersAreTrue
      <3>2. Len(c.in) + 1 \in 1 .. Len(pipe)
        BY <2>1, <3>1
      <3> QED BY <1>2, <2>1, <3>1, <3>2
    <2> QED BY <1>4, <2>2 DEF AnswersAreTrue
  <1>13. /\ Front(pipeline', (mutations[user])')
         /\ Matches(call', Expected(handshake', pipeline'))
         /\ AnswersAreTrue(call', handshake', pipeline', committed', rejected')
         /\ InStep(pipeline', stream', handshake', idle', call', closes', tokens')
    BY <1>1, <1>2, <1>4, <1>9, <1>12 DEF backend
  <1>14. /\ pipeline' \in Seq(Batch) /\ call' \in Calls
         /\ stream' \in States /\ tokens' \subseteq 0 .. closes'
         /\ idle' \in BOOLEAN /\ handshake' \in BOOLEAN /\ closes' \in Nat
         /\ idle' => stream' = "Open"
         /\ pipeline' # <<>> => Started'
    BY <1>1, <1>2, <1>4, <1>7, <1>8, <1>10, <1>11
  <1> QED BY <1>13, <1>14 DEF Streaming

\* A call that is over carries nothing that matters.
LEMMA NoCallType ==
    ASSUME NEW exp, NEW pipe, NEW applied, NEW refused
    PROVE  /\ NoCall \in Calls /\ NoCall.status = "none"
           /\ Matches(NoCall, exp)
           /\ AnswersAreTrue(NoCall, FALSE, pipe, applied, refused)
  <1>1. NoCall.in = <<>> /\ NoCall.out = <<>> /\ NoCall.status = "none" /\ NoCall.failed = "no"
    BY DEF NoCall
  <1>2. NoCall \in Calls
    BY DEF NoCall, Calls
  <1> QED BY <1>1, <1>2 DEF Matches, AnswersAreTrue

\* Stream::Start after the stream has ended, when the pipeline stays.
LEMMA StartStep ==
    ASSUME Streaming, NEW state \in {"Initial", "Error"}, NEW count \in Nat,
           NEW asked \in SUBSET (0 .. count), count \notin asked,
           StartIfNeeded(pipeline, state, count, asked),
           call' = NoCall, handshake' = FALSE, idle' = FALSE, closes' = count,
           UNCHANGED <<pipeline, mutations, user, backend>>
    PROVE  Streaming'
  <1>1. /\ stream' = CASE pipeline # <<>> /\ state = "Initial" -> "Starting"
                       [] pipeline # <<>> /\ state = "Error"   -> "Backoff"
                       [] OTHER                                -> state
        /\ tokens' = IF pipeline # <<>> /\ state = "Initial" THEN asked \cup {count} ELSE asked
    BY DEF StartIfNeeded
  <1>2. /\ call' \in Calls /\ call'.status = "none"
        /\ Matches(call', Expected(handshake', pipeline'))
        /\ AnswersAreTrue(call', handshake', pipeline', committed', rejected')
    BY NoCallType
  <1>3. stream' \in States /\ tokens' \subseteq 0 .. count /\ stream' # "Open"
    BY <1>1 DEF States
  <1>4. InStep(pipeline', stream', handshake', idle', call', closes', tokens')
    <2>1. closes' \in tokens' <=> stream' = "Starting"
      BY <1>1
    <2>2. stream' \in {"Starting", "Backoff"} => pipeline' # <<>>
      BY <1>1
    <2> QED BY <1>2, <1>3, <2>1, <2>2 DEF InStep
  <1>5. pipeline' # <<>> => Started'
    BY <1>1 DEF Started
  <1>6. Front(pipeline', (mutations[user])') /\ pipeline' \in Seq(Batch)
    BY DEF Streaming
  <1>7. closes' \in Nat /\ handshake' \in BOOLEAN /\ idle' \in BOOLEAN /\ ~ idle'
    OBVIOUS
  <1> QED BY <1>2, <1>3, <1>4, <1>5, <1>6, <1>7 DEF Streaming

\* Only what is under way on the call changes, and what the backend knows.
LEMMA TransportStep ==
    ASSUME Inv, UNCHANGED Client, call.status # "none", call'.status # "none",
           call' \in Calls, Matches(call', Expected(handshake, pipeline)),
           AnswersAreTrue(call', handshake, pipeline, committed', rejected'),
           committed \subseteq committed', rejected \subseteq rejected'
    PROVE  Inv'
  <1>1. UNCHANGED <<local, pipeline, stream, handshake, idle, closes, tokens>>
    BY DEF Client
  <1>2. Queued'
    <2>1. NothingIsLost'
      BY <1>1 DEF Inv, Queued, NothingIsLost, Decided, local
    <2> QED BY <1>1, <2>1 DEF Inv, Queued, IdsInOrder, CallbacksMatch, local
  <1>3. InStep(pipeline', stream', handshake', idle', call', closes', tokens')
    BY <1>1 DEF Inv, Streaming, InStep
  <1>4. Streaming'
    BY <1>1, <1>3 DEF Inv, Streaming, Started, local
  <1> QED BY <1>2, <1>4 DEF Inv

\* What does not touch the queues leaves them in order.
LEMMA QueuedSame ==
    ASSUME Queued, UNCHANGED <<local, backend>>
    PROVE  Queued'
  BY DEF Queued, IdsInOrder, CallbacksMatch, NothingIsLost, Decided, local, backend

-----------------------------------------------------------------------------
(* An answer settles the first batch.                                      *)

\* What is left of a queue without its first batch.
LEMMA TailType ==
    ASSUME NEW S, NEW queue \in Seq(S), queue # <<>>
    PROVE  /\ Tail(queue) \in Seq(S)
           /\ Len(queue) \in Nat /\ Len(queue) > 0
           /\ Len(Tail(queue)) = Len(queue) - 1
           /\ \A i \in 1 .. Len(queue) - 1 : Tail(queue)[i] = queue[i + 1]
           /\ Head(queue) = queue[1] /\ queue[1] \in S
  OBVIOUS

LEMMA WithoutHead ==
    ASSUME NEW queue \in Seq(Batch), queue # <<>>, Sorted(queue)
    PROVE  Without(queue, queue[1].id) = Tail(queue)
  <1>1. Len(queue) \in Nat /\ Len(queue) > 0 /\ DOMAIN queue = 1 .. Len(queue)
    BY TailType
  <1>2. ASSUME NEW k \in DOMAIN queue, queue[k].id = queue[1].id
        PROVE  k = 1
    <2>1. k # 1 => queue[1].id < queue[k].id
      BY <1>1 DEF Sorted
    <2>2. queue[1].id \in Nat
      BY <1>1, BatchType
    <2> QED BY <1>2, <2>1, <2>2
  <1>3. (CHOOSE k \in DOMAIN queue : queue[k].id = queue[1].id) = 1
    BY <1>1, <1>2
  <1>4. Without(queue, queue[1].id) = SubSeq(queue, 1, 0) \o SubSeq(queue, 2, Len(queue))
    <2> DEFINE k == CHOOSE k \in DOMAIN queue : queue[k].id = queue[1].id
    <2>1. Without(queue, queue[1].id) = SubSeq(queue, 1, k - 1) \o SubSeq(queue, k + 1, Len(queue))
      BY DEF Without
    <2>2. k = 1
      BY <1>3
    <2> HIDE DEF k
    <2>3. k - 1 = 0 /\ k + 1 = 2
      BY <2>2
    <2> QED BY <2>1, <2>3
  <1>5. SubSeq(queue, 1, 0) = <<>> /\ SubSeq(queue, 2, Len(queue)) = Tail(queue)
    BY <1>1
  <1>6. Tail(queue) \in Seq(Batch)
    BY TailType
  <1> QED BY <1>4, <1>5, <1>6

\* What NotifyUser and RemoveMutationBatch do for the first batch.
LEMMA SettledQueue ==
    ASSUME Inv, pipeline # <<>>, NEW answer, Settle(Head(pipeline), answer)
    PROVE  LET queue == mutations[user]
               first == queue[1]
               mine  == {cb \in callbacks : cb.user = user /\ cb.id = first.id}
           IN  /\ Head(pipeline) = first
               /\ user \in Users /\ queue \in Seq(Batch) /\ Sorted(queue) /\ queue # <<>>
               /\ callbacks' = callbacks \ mine
               /\ mutations' = [mutations EXCEPT ![user] = Tail(queue)]
               /\ outcome' = [w \in Writes |-> IF \E cb \in mine : cb.write = w THEN answer
                                               ELSE outcome[w]]
               /\ UNCHANGED <<user, nextId, author>>
  <1> DEFINE queue == mutations[user]
             first == queue[1]
  <1>1. /\ user \in Users /\ queue \in Seq(Batch) /\ Sorted(queue)
        /\ pipeline \in Seq(Batch) /\ Front(pipeline, queue)
    BY DEF Inv, Queued, Streaming, IdsInOrder
  <1>2. /\ Len(pipeline) \in Nat /\ Len(pipeline) > 0 /\ Len(pipeline) <= Len(queue)
        /\ Head(pipeline) = pipeline[1]
    BY <1>1, TailType DEF Front
  <1>3. queue # <<>>
    BY <1>1, <1>2
  <1>4. Head(pipeline) = first
    BY <1>1, <1>2 DEF Front
  <1>5. Without(queue, first.id) = Tail(queue)
    BY <1>1, <1>3, WithoutHead
  <1> QED BY <1>1, <1>3, <1>4, <1>5 DEF Settle

\* NotifyUser and RemoveMutationBatch for the first batch, once the backend
\* has decided it: the queues stay in order, and what is left of the
\* pipeline is in front of what is left of the queue.
LEMMA SettleStep ==
    ASSUME PipelineConstants, Inv, pipeline # <<>>, Decided(Head(pipeline).write),
           NEW answer, Settle(Head(pipeline), answer), UNCHANGED backend
    PROVE  /\ Queued'
           /\ Tail(pipeline) \in Seq(Batch)
           /\ mutations'[user'] \in Seq(Batch) /\ Sorted(mutations'[user'])
           /\ Front(Tail(pipeline), mutations'[user'])
  <1> DEFINE queue == mutations[user]
             first == queue[1]
             mine  == {cb \in callbacks : cb.user = user /\ cb.id = first.id}
  <1>1. /\ user \in Users /\ queue \in Seq(Batch) /\ Sorted(queue)
        /\ pipeline \in Seq(Batch) /\ Front(pipeline, queue)
    BY DEF Inv, Queued, Streaming, IdsInOrder
  <1>2. /\ Len(pipeline) \in Nat /\ Len(pipeline) > 0 /\ Len(pipeline) <= Len(queue)
        /\ Head(pipeline) = pipeline[1]
    BY <1>1, TailType DEF Front
  <1>3. queue # <<>> /\ Len(queue) \in Nat /\ Len(queue) > 0 /\ DOMAIN queue = 1 .. Len(queue)
    BY <1>1, <1>2
  <1>4. /\ Head(pipeline) = first
        /\ callbacks' = callbacks \ mine
        /\ mutations' = [mutations EXCEPT ![user] = Tail(queue)]
        /\ UNCHANGED <<user, nextId, author>>
    BY SettledQueue
  <1>5. /\ Tail(queue) \in Seq(Batch) /\ Len(Tail(queue)) = Len(queue) - 1
        /\ \A i \in 1 .. Len(queue) - 1 : Tail(queue)[i] = queue[i + 1]
    BY <1>1, <1>3, TailType
  <1> DEFINE rest == Tail(queue)
  <1>6. /\ mutations' \in [Users -> Seq(Batch)]
        /\ mutations'[user] = rest
        /\ \A u \in Users \ {user} : mutations'[u] = mutations[u]
    BY <1>1, <1>4, <1>5 DEF Inv, Queued
  <1>7. DOMAIN rest = 1 .. Len(queue) - 1
    BY <1>3, <1>5
  <1> HIDE DEF rest, first, mine
  <1>8. \A i \in DOMAIN rest : i + 1 \in DOMAIN queue /\ rest[i] = queue[i + 1]
    BY <1>3, <1>5, <1>7 DEF rest
  <1>9. Sorted(rest)
    <2>1. ASSUME NEW i \in DOMAIN rest
          PROVE  rest[i].id > 0
      BY <1>1, <1>8 DEF Sorted
    <2>2. ASSUME NEW i \in DOMAIN rest, NEW j \in DOMAIN rest, i < j
          PROVE  rest[i].id < rest[j].id
      <3>1. i + 1 \in DOMAIN queue /\ j + 1 \in DOMAIN queue /\ i + 1 < j + 1
        BY <1>7, <1>8, <2>2
      <3>2. queue[i + 1].id < queue[j + 1].id
        BY <1>1, <3>1 DEF Sorted
      <3> QED BY <1>8, <3>2
    <2> QED BY <2>1, <2>2 DEF Sorted
  <1>10. IdsInOrder'
    <2>1. ASSUME NEW u \in Users
          PROVE  /\ Sorted(mutations'[u])
                 /\ \A i \in DOMAIN mutations'[u] : mutations'[u][i].id < nextId'
      <3>1. /\ Sorted(mutations[u])
            /\ \A i \in DOMAIN mutations[u] : mutations[u][i].id < nextId
        BY DEF Inv, Queued, IdsInOrder
      <3>2. CASE u = user
        BY <1>4, <1>6, <1>8, <1>9, <3>1, <3>2, ZenonT(60)
      <3>3. CASE u # user
        BY <1>4, <1>6, <3>1, <3>3
      <3> QED BY <3>2, <3>3
    <2> QED BY <2>1 DEF IdsInOrder
  <1>11. ASSUME NEW k \in DOMAIN queue, k # 1
         PROVE  k - 1 \in DOMAIN rest /\ rest[k - 1] = queue[k]
    <2>1. k - 1 \in 1 .. Len(queue) - 1 /\ (k - 1) + 1 = k
      BY <1>3, <1>11
    <2> QED BY <1>7, <1>8, <2>1
  <1>12. CallbacksMatch'
    <2> SUFFICES ASSUME NEW cb \in callbacks'
                 PROVE  \E k \in DOMAIN mutations'[cb.user] :
                            mutations'[cb.user][k] = [id |-> cb.id, write |-> cb.write]
      BY DEF CallbacksMatch
    <2>1. cb \in callbacks /\ cb \notin mine /\ cb.user \in Users
      BY <1>4 DEF Inv, Queued
    <2>2. PICK k \in DOMAIN mutations[cb.user] :
              mutations[cb.user][k] = [id |-> cb.id, write |-> cb.write]
      BY <2>1 DEF Inv, Queued, CallbacksMatch
    <2>3. CASE cb.user # user
      BY <1>6, <2>1, <2>2, <2>3
    <2>4. CASE cb.user = user
      <3>1. cb.id # first.id
        BY <2>1, <2>4 DEF mine
      <3>2. k # 1
        BY <2>2, <2>4, <3>1 DEF first
      <3> QED BY <1>6, <1>11, <2>2, <2>4, <3>2
    <2> QED BY <2>3, <2>4
  <1>13. NothingIsLost'
    <2> SUFFICES ASSUME NEW w \in Writes, author[w] # NoOne, ~ Decided(w)
                 PROVE  \E k \in DOMAIN mutations'[author[w]] :
                            mutations'[author[w]][k].write = w
      BY <1>4 DEF NothingIsLost, Decided, backend
    <2>1. author[w] \in Users
      BY DEF Inv, Queued
    <2>2. PICK k \in DOMAIN mutations[author[w]] : mutations[author[w]][k].write = w
      BY DEF Inv, Queued, NothingIsLost
    <2>3. CASE author[w] # user
      BY <1>6, <2>1, <2>2, <2>3
    <2>4. CASE author[w] = user
      <3>1. k # 1
        BY <1>4, <2>2, <2>4 DEF first
      <3> QED BY <1>6, <1>11, <2>2, <2>4, <3>1
    <2> QED BY <2>3, <2>4
  <1>14. Queued'
    <2>1. callbacks' \subseteq [user : Users, id : Nat, write : Writes]
      BY <1>4 DEF Inv, Queued
    <2>2. /\ user' \in Users /\ nextId' \in Nat /\ nextId' > 0
          /\ author' \in [Writes -> Users \cup {NoOne}]
      BY <1>4 DEF Inv, Queued
    <2> QED BY <1>6, <1>10, <1>12, <1>13, <2>1, <2>2 DEF Queued
  <1>15. Tail(pipeline) \in Seq(Batch) /\ Front(Tail(pipeline), rest)
    <2>1. /\ Tail(pipeline) \in Seq(Batch) /\ Len(Tail(pipeline)) = Len(pipeline) - 1
          /\ \A i \in 1 .. Len(pipeline) - 1 : Tail(pipeline)[i] = pipeline[i + 1]
      BY <1>1, TailType
    <2>2. Len(pipeline) <= MaxPending /\ MaxPending \in Nat
      BY <1>1 DEF Front, PipelineConstants
    <2>3. Len(Tail(pipeline)) <= MaxPending /\ Len(Tail(pipeline)) <= Len(rest)
      BY <1>2, <1>3, <1>5, <2>1, <2>2 DEF rest
    <2>4. ASSUME NEW i \in 1 .. Len(Tail(pipeline))
          PROVE  Tail(pipeline)[i] = rest[i]
      <3>1. i \in 1 .. Len(pipeline) - 1 /\ i + 1 \in 1 .. Len(pipeline) /\ i \in DOMAIN rest
        BY <1>2, <1>3, <1>7, <2>1
      <3>2. pipeline[i + 1] = queue[i + 1]
        BY <1>1, <3>1 DEF Front
      <3> QED BY <1>8, <2>1, <3>1, <3>2
    <2> QED BY <2>1, <2>3, <2>4 DEF Front
  <1> QED BY <1>4, <1>5, <1>6, <1>9, <1>14, <1>15 DEF rest

-----------------------------------------------------------------------------
(* The steps of the client.                                                *)

\* What Streaming says of the stream, for the steps below.
LEMMA StreamFacts ==
    ASSUME Streaming
    PROVE  /\ call \in Calls /\ pipeline \in Seq(Batch) /\ stream \in States
           /\ handshake \in BOOLEAN /\ idle \in BOOLEAN
           /\ closes \in Nat /\ closes + 1 \in Nat
           /\ tokens \in SUBSET (0 .. closes) /\ tokens \in SUBSET (0 .. closes + 1)
           /\ closes + 1 \notin tokens
           /\ call.status # "none" <=> stream = "Open"
           /\ call.status = "none" => call = NoCall
           /\ closes \in tokens <=> stream = "Starting"
           /\ handshake => stream = "Open"
           /\ idle => stream = "Open" /\ handshake /\ pipeline = <<>>
           /\ stream \in {"Starting", "Backoff"} => pipeline # <<>>
           /\ stream = "Open" /\ ~ handshake => pipeline # <<>>
  <1>1. closes \in Nat /\ tokens \subseteq 0 .. closes
    BY DEF Streaming
  <1>2. closes + 1 \in Nat /\ tokens \subseteq 0 .. closes + 1 /\ closes + 1 \notin tokens
    BY <1>1
  <1> QED BY <1>1, <1>2 DEF Streaming, InStep

\* A stream that is not open has no call.
LEMMA NotOpen ==
    ASSUME NEW pipe \in Seq(Batch), NEW state \in States, state # "Open",
           NEW count \in Nat, NEW asked \in SUBSET (0 .. count),
           count \in asked <=> state = "Starting", pipe = <<>> => state \in {"Initial", "Error"},
           NEW timer
    PROVE  InStep(pipe, state, FALSE, timer, NoCall, count, asked)
  BY NoCallType DEF InStep

\* An answer that is read after the handshake belongs to the first batch,
\* and the backend has applied that.
LEMMA FirstAnswer ==
    ASSUME PipelineConstants, Streaming, handshake, call.in # <<>>
    PROVE  /\ pipeline # <<>>
           /\ call.in[1] = Head(pipeline).write
           /\ Head(pipeline).write \in committed
  <1>1. /\ call \in Calls /\ pipeline \in Seq(Batch) /\ call.status # "none"
        /\ Matches(call, Contents(pipeline))
        /\ AnswersAreTrue(call, TRUE, pipeline, committed, rejected)
    BY StreamFacts DEF Streaming, Expected
  <1>2. call.in \in Seq(Messages) /\ Len(call.in) \in Nat /\ Len(call.in) > 0
    BY <1>1 DEF Calls
  <1>3. /\ Len(Contents(pipeline)) = Len(pipeline)
        /\ \A i \in 1 .. Len(pipeline) : Contents(pipeline)[i] = pipeline[i].write
    BY <1>1, ContentsType
  <1>4. Len(call.in) <= Len(pipeline) /\ call.in[1] = Contents(pipeline)[1]
    BY <1>1, <1>2, <1>3 DEF Matches
  <1>5. pipeline # <<>> /\ Len(pipeline) \in Nat /\ Len(pipeline) > 0 /\ Head(pipeline) = pipeline[1]
    BY <1>1, <1>2, <1>4
  <1>6. call.in[1] = pipeline[1].write /\ pipeline[1].write \in Writes
    BY <1>1, <1>3, <1>4, <1>5, BatchType
  <1>7. call.in[1] \in committed \cup {Handshake}
    BY <1>1, <1>2 DEF AnswersAreTrue
  <1> QED BY <1>5, <1>6, <1>7 DEF PipelineConstants

\* WriteMutations: the new id is in no queue, so no completion waits under it.
LEMMA NewCallback ==
    ASSUME Inv, NEW w \in Writes, WriteMutations(w)
    PROVE  callbacks' = callbacks \cup {[user |-> user, id |-> nextId, write |-> w]}
  <1>1. ASSUME NEW cb \in callbacks, cb.user = user, cb.id = nextId
        PROVE  FALSE
    <2>1. PICK k \in DOMAIN mutations[user] :
              mutations[user][k] = [id |-> nextId, write |-> cb.write]
      BY <1>1 DEF Inv, Queued, CallbacksMatch
    <2>2. mutations[user][k].id < nextId /\ nextId \in Nat
      BY DEF Inv, Queued, IdsInOrder
    <2> QED BY <2>1, <2>2
  <1> QED BY <1>1 DEF WriteMutations

LEMMA WriteStep ==
    ASSUME PipelineConstants, Inv, NEW w \in Writes, WriteMutations(w)
    PROVE  Inv'
  <1> DEFINE queue == mutations[user]
             batch == [id |-> nextId, write |-> w]
             more  == Append(queue, batch)
             new   == [user |-> user, id |-> nextId, write |-> w]
  <1>1. /\ author[w] = NoOne
        /\ author' = [author EXCEPT ![w] = user]
        /\ mutations' = [mutations EXCEPT ![user] = more]
        /\ nextId' = nextId + 1
        /\ callbacks' = callbacks \/ callbacks' = callbacks \cup {new}
        /\ Fill(pipeline, mutations'[user], stream, handshake, call, closes, tokens)
        /\ UNCHANGED <<user, handshake, closes, outcome, backend>>
    BY DEF WriteMutations
  <1>2. callbacks' = callbacks \cup {new}
    BY NewCallback
  <1>3. /\ user \in Users /\ queue \in Seq(Batch) /\ Sorted(queue) /\ nextId \in Nat /\ nextId > 0
        /\ \A i \in DOMAIN queue : queue[i].id < nextId
        /\ mutations \in [Users -> Seq(Batch)]
    BY DEF Inv, Queued, IdsInOrder
  <1>4. /\ Len(queue) \in Nat /\ DOMAIN queue = 1 .. Len(queue)
        /\ \A i \in 1 .. Len(queue) : queue[i].id \in Nat
    BY <1>3, BatchType
  <1>5. batch \in Batch
    BY <1>3 DEF Batch
  <1>6. /\ more \in Seq(Batch) /\ Len(more) = Len(queue) + 1
        /\ DOMAIN more = 1 .. Len(queue) + 1
        /\ \A i \in 1 .. Len(queue) : more[i] = queue[i]
        /\ more[Len(queue) + 1] = batch
    BY <1>3, <1>4, <1>5
  <1>7. /\ mutations' \in [Users -> Seq(Batch)]
        /\ mutations'[user] = more
        /\ \A u \in Users \ {user} : mutations'[u] = mutations[u]
    BY <1>1, <1>3, <1>6
  <1> HIDE DEF more
  <1>8. \A i \in DOMAIN more : \/ i \in DOMAIN queue /\ more[i] = queue[i]
                               \/ i = Len(queue) + 1 /\ more[i].id = nextId
    BY <1>4, <1>6
  <1> HIDE DEF queue
  <1>9. Sorted(more) /\ \A i \in DOMAIN more : more[i].id < nextId + 1
    <2>1. ASSUME NEW i \in DOMAIN more
          PROVE  more[i].id > 0 /\ more[i].id < nextId + 1
      BY <1>3, <1>4, <1>8 DEF Sorted
    <2>2. ASSUME NEW i \in DOMAIN more, NEW j \in DOMAIN more, i < j
          PROVE  more[i].id < more[j].id
      <3>1. i \in DOMAIN queue /\ more[i] = queue[i]
        BY <1>4, <1>6, <1>8, <2>2
      <3>2. CASE j \in DOMAIN queue /\ more[j] = queue[j]
        BY <1>3, <2>2, <3>1, <3>2 DEF Sorted
      <3>3. CASE more[j].id = nextId
        BY <1>3, <3>1, <3>3
      <3> QED BY <1>8, <3>2, <3>3
    <2> QED BY <2>1, <2>2 DEF Sorted
  <1>10. IdsInOrder'
    <2>1. ASSUME NEW u \in Users \ {user}
          PROVE  /\ Sorted(mutations[u])
                 /\ \A i \in DOMAIN mutations[u] : mutations[u][i].id < nextId + 1
      <3>1. /\ Sorted(mutations[u])
            /\ \A i \in DOMAIN mutations[u] : mutations[u][i].id < nextId
        BY DEF Inv, Queued, IdsInOrder
      <3>2. \A i \in DOMAIN mutations[u] : mutations[u][i].id \in Nat
        <4>1. mutations[u] \in Seq(Batch)
          BY <1>3
        <4> QED BY <4>1, BatchType
      <3> QED BY <1>3, <3>1, <3>2
    <2> QED BY <1>1, <1>7, <1>9, <2>1 DEF IdsInOrder
  <1>11. CallbacksMatch'
    <2> SUFFICES ASSUME NEW cb \in callbacks'
                 PROVE  \E k \in DOMAIN mutations'[cb.user] :
                            mutations'[cb.user][k] = [id |-> cb.id, write |-> cb.write]
      BY DEF CallbacksMatch
    <2>1. CASE cb = new
      <3>1. Len(queue) + 1 \in DOMAIN more
        BY <1>4, <1>6
      <3> QED BY <1>6, <1>7, <2>1, <3>1
    <2>2. CASE cb \in callbacks
      <3>1. cb.user \in Users
        BY <2>2 DEF Inv, Queued
      <3>2. PICK k \in DOMAIN mutations[cb.user] :
                mutations[cb.user][k] = [id |-> cb.id, write |-> cb.write]
        BY <2>2 DEF Inv, Queued, CallbacksMatch
      <3>3. CASE cb.user # user
        BY <1>7, <3>1, <3>2, <3>3
      <3>4. CASE cb.user = user
        <4>1. k \in DOMAIN more /\ more[k] = queue[k]
          BY <1>4, <1>6, <3>2, <3>4 DEF queue
        <4> QED BY <1>7, <3>2, <3>4, <4>1 DEF queue
      <3> QED BY <3>3, <3>4
    <2> QED BY <1>2, <2>1, <2>2
  <1>12. NothingIsLost'
    <2> SUFFICES ASSUME NEW v \in Writes, author'[v] # NoOne, ~ Decided(v)
                 PROVE  \E k \in DOMAIN mutations'[author'[v]] :
                            mutations'[author'[v]][k].write = v
      BY <1>1 DEF NothingIsLost, Decided, backend
    <2>1. CASE v = w
      <3>1. author'[v] = user
        BY <1>1, <2>1 DEF Inv, Queued
      <3>2. Len(queue) + 1 \in DOMAIN more /\ more[Len(queue) + 1].write = w
        BY <1>4, <1>6
      <3> QED BY <1>7, <2>1, <3>1, <3>2
    <2>2. CASE v # w
      <3>1. author'[v] = author[v] /\ author[v] \in Users
        BY <1>1, <2>2 DEF Inv, Queued
      <3>2. PICK k \in DOMAIN mutations[author[v]] : mutations[author[v]][k].write = v
        BY <3>1 DEF Inv, Queued, NothingIsLost
      <3>3. CASE author[v] # user
        BY <1>7, <3>1, <3>2, <3>3
      <3>4. CASE author[v] = user
        <4>1. k \in DOMAIN more /\ more[k] = queue[k]
          BY <1>4, <1>6, <3>2, <3>4 DEF queue
        <4> QED BY <1>7, <3>1, <3>2, <3>4, <4>1 DEF queue
      <3> QED BY <3>3, <3>4
    <2> QED BY <2>1, <2>2
  <1>13. Queued'
    <2>1. callbacks' \subseteq [user : Users, id : Nat, write : Writes]
      BY <1>2, <1>3 DEF Inv, Queued
    <2>2. /\ user' \in Users /\ nextId' \in Nat /\ nextId' > 0
          /\ author' \in [Writes -> Users \cup {NoOne}]
      BY <1>1, <1>3 DEF Inv, Queued
    <2> QED BY <1>7, <1>10, <1>11, <1>12, <2>1, <2>2 DEF Queued
  <1>14. Streaming'
    <2>1. Front(pipeline, more)
      <3>1. Front(pipeline, queue) /\ pipeline \in Seq(Batch)
        BY DEF Inv, Streaming, queue
      <3>2. Len(pipeline) \in Nat
        BY <3>1
      <3> QED BY <1>4, <1>6, <3>1, <3>2 DEF Front
    <2>2. /\ Matches(call, Expected(handshake, pipeline))
          /\ AnswersAreTrue(call, handshake, pipeline, committed, rejected)
          /\ InStep(pipeline, stream, handshake, idle, call, closes, tokens)
      BY DEF Inv, Streaming
    <2>3. /\ Fill(pipeline, more, stream, handshake, call, closes, tokens)
          /\ more = mutations'[user'] /\ handshake = handshake' /\ closes = closes'
      BY <1>1, <1>7
    <2> QED BY <1>1, <1>6, <1>9, <2>1, <2>2, <2>3, StreamFacts, FillStep DEF Inv
  <1> QED BY <1>13, <1>14 DEF Inv

\* The backoff and the tokens.
LEMMA BackoffStep ==
    ASSUME Inv, BackoffElapsed
    PROVE  Inv'
  <1>1. /\ StartIfNeeded(pipeline, "Initial", closes, tokens) /\ stream = "Backoff"
        /\ UNCHANGED <<local, backend, pipeline, handshake, idle, closes, call>>
    BY DEF BackoffElapsed
  <1>2. Queued'
    BY <1>1, QueuedSame DEF Inv
  <1>3. Streaming /\ UNCHANGED <<pipeline, mutations, user, backend>>
    BY <1>1 DEF Inv, local
  <1>4. call' = NoCall /\ handshake' = FALSE /\ idle' = FALSE /\ closes \notin tokens
    BY <1>1, <1>3, StreamFacts
  <1>5. closes \in Nat /\ tokens \in SUBSET (0 .. closes) /\ closes' = closes
    BY <1>1, <1>3, StreamFacts
  <1>6. Streaming'
    BY <1>1, <1>3, <1>4, <1>5, StartStep
  <1> QED BY <1>2, <1>6 DEF Inv

LEMMA TokenStaleStep ==
    ASSUME Inv, NEW c \in tokens, TokenStale(c)
    PROVE  Inv'
  <1>1. /\ c # closes /\ tokens' = tokens \ {c}
        /\ UNCHANGED <<local, backend, pipeline, stream, handshake, idle, closes, call>>
    BY DEF TokenStale
  <1>2. Queued'
    BY <1>1, QueuedSame DEF Inv
  <1>3. InStep(pipeline', stream', handshake', idle', call', closes', tokens')
    BY <1>1 DEF Inv, Streaming, InStep
  <1>4. Streaming'
    BY <1>1, <1>3 DEF Inv, Streaming, Started, local, backend
  <1> QED BY <1>2, <1>4 DEF Inv

\* A new call carries the handshake and nothing else.
LEMMA NewCallType ==
    ASSUME NEW pipe, NEW applied, NEW refused
    PROVE  /\ NewCall \in Calls /\ NewCall.status = "live"
           /\ Matches(NewCall, Expected(FALSE, pipe))
           /\ AnswersAreTrue(NewCall, FALSE, pipe, applied, refused)
  <1>1. /\ NewCall.in = <<>> /\ NewCall.out = <<Handshake>>
        /\ NewCall.status = "live" /\ NewCall.failed = "no"
    BY DEF NewCall, NoCall
  <1>2. NewCall \in Calls
    <2>1. NoCall \in Calls /\ <<Handshake>> \in Seq(Messages) /\ "live" \in Statuses \cup {"none"}
      <3>1. Handshake \in Messages
        BY DEF Messages
      <3>2. <<Handshake>> \in Seq(Messages)
        BY <3>1
      <3> QED BY <3>2, NoCallType DEF Statuses
    <2>2. ASSUME NEW c \in Calls, NEW out \in Seq(Messages), NEW status \in Statuses \cup {"none"}
          PROVE  [c EXCEPT !.out = out, !.status = status] \in Calls
      BY DEF Calls
    <2> QED BY <2>1, <2>2 DEF NewCall
  <1>3. Matches(NewCall, <<Handshake>>)
    <2> DEFINE exp == <<Handshake>>
    <2>1. Len(NewCall.in) = 0 /\ Len(NewCall.out) = 1 /\ Len(exp) = 1 /\ NewCall.out = exp
      BY <1>1
    <2> HIDE DEF exp
    <2>2. Matches(NewCall, exp)
      BY <1>1, <2>1 DEF Matches
    <2> QED BY <2>2 DEF exp
  <1>4. AnswersAreTrue(NewCall, FALSE, pipe, applied, refused)
    BY <1>1 DEF AnswersAreTrue
  <1> QED BY <1>1, <1>2, <1>3, <1>4 DEF Expected

\* Writing changes what is to be sent, nothing else.
LEMMA WrittenType ==
    ASSUME NEW c \in Calls, NEW more \in Seq(Messages)
    PROVE  LET after == [c EXCEPT !.out = more]
           IN  after \in Calls /\ after.out = more /\ after.in = c.in /\ after.status = c.status
  BY DEF Calls

\* Reading takes the first answer and leaves the rest of the call.
LEMMA ReadType ==
    ASSUME call \in Calls, call.in # <<>>
    PROVE  /\ Read \in Calls /\ Read.in = Tail(call.in)
           /\ Read.status = call.status /\ Read.out = call.out
  <1> DEFINE failed == IF call.failed = "next" THEN "now" ELSE call.failed
  <1>1. call = [out |-> call.out, in |-> call.in, status |-> call.status, failed |-> call.failed]
    BY DEF Calls
  <1>2. Read = [call EXCEPT !.in = Tail(call.in), !.failed = failed]
    BY <1>1 DEF Read
  <1>3. Read = [out |-> call.out, in |-> Tail(call.in), status |-> call.status, failed |-> failed]
    BY <1>1, <1>2
  <1>4. /\ call.out \in Seq(Messages) /\ call.status \in Statuses \cup {"none"}
        /\ failed \in {"no", "next", "now"} /\ call.in \in Seq(Messages)
    BY DEF Calls
  <1>5. Tail(call.in) \in Seq(Messages)
    BY <1>4
  <1> HIDE DEF failed
  <1> QED BY <1>3, <1>4, <1>5 DEF Calls

LEMMA TokenReadyStep ==
    ASSUME Inv, NEW c \in tokens, TokenReady(c)
    PROVE  Inv'
  <1>1. /\ c = closes /\ tokens' = tokens \ {closes} /\ stream' = "Open" /\ call' = NewCall
        /\ UNCHANGED <<local, backend, pipeline, handshake, idle, closes>>
    BY DEF TokenReady
  <1>2. Queued'
    BY <1>1, QueuedSame DEF Inv
  <1>3. stream = "Starting" /\ handshake = FALSE /\ idle = FALSE /\ pipeline # <<>>
    BY <1>1, StreamFacts DEF Inv
  <1>4. /\ call' \in Calls /\ call'.status = "live"
        /\ Matches(call', Expected(handshake', pipeline'))
        /\ AnswersAreTrue(call', handshake', pipeline', committed', rejected')
    BY <1>1, <1>3, NewCallType
  <1>5. InStep(pipeline', stream', handshake', idle', call', closes', tokens')
    BY <1>1, <1>3, <1>4 DEF InStep
  <1>6. Streaming'
    BY <1>1, <1>3, <1>4, <1>5 DEF Inv, Streaming, Started, States, local
  <1> QED BY <1>2, <1>6 DEF Inv

LEMMA TokenFailedStep ==
    ASSUME Inv, NEW c \in tokens, TokenFailed(c)
    PROVE  Inv'
  <1>1. /\ c = closes /\ closes' = closes + 1
        /\ StartIfNeeded(pipeline, "Error", closes + 1, tokens \ {c})
        /\ UNCHANGED <<local, backend, pipeline, handshake, idle, call>>
    BY DEF TokenFailed
  <1>2. Queued'
    BY <1>1, QueuedSame DEF Inv
  <1>3. Streaming /\ UNCHANGED <<pipeline, mutations, user, backend>>
    BY <1>1 DEF Inv, local
  <1>4. call' = NoCall /\ handshake' = FALSE /\ idle' = FALSE
    BY <1>1, <1>3, StreamFacts
  <1>5. /\ closes + 1 \in Nat /\ tokens \ {c} \in SUBSET (0 .. closes + 1)
        /\ closes + 1 \notin tokens \ {c}
    BY <1>3, StreamFacts
  <1>6. Streaming'
    BY <1>1, <1>3, <1>4, <1>5, StartStep
  <1> QED BY <1>2, <1>6 DEF Inv

\* The first answer: the whole pipeline is written.
LEMMA HandshakeStep ==
    ASSUME PipelineConstants, Inv, OnHandshakeComplete
    PROVE  Inv'
  <1> DEFINE writes == Contents(pipeline)
  <1>1. /\ call.in # <<>> /\ ~ handshake /\ handshake' = TRUE
        /\ call' = [Read EXCEPT !.out = @ \o writes]
        /\ idle' = (idle /\ pipeline = <<>>)
        /\ UNCHANGED <<local, backend, pipeline, stream, closes, tokens>>
    BY DEF OnHandshakeComplete, CanRead
  <1>2. Queued'
    BY <1>1, QueuedSame DEF Inv
  <1>3. /\ call \in Calls /\ pipeline \in Seq(Batch) /\ stream = "Open"
        /\ call.status # "none" /\ ~ idle /\ closes \notin tokens
    <2>1. call.status # "none"
      BY <1>1, StreamFacts, NoCallType DEF Inv, NoCall
    <2> QED BY <1>1, <2>1, StreamFacts DEF Inv
  <1>4. /\ call.in \in Seq(Messages) /\ call.out \in Seq(Messages)
        /\ Len(call.in) \in Nat /\ Len(call.out) \in Nat /\ Len(call.in) > 0
    BY <1>1, <1>3 DEF Calls
  <1>5. /\ Matches(call, <<Handshake>>)
        /\ AnswersAreTrue(call, FALSE, pipeline, committed, rejected)
    BY <1>1, <1>3 DEF Inv, Streaming, Expected
  <1>6. /\ Len(call.in) = 1 /\ call.status # "permanent"
        /\ call.status = "live" => Len(call.out) = 0
    <2> DEFINE exp == <<Handshake>>
    <2>1. Len(exp) = 1
      OBVIOUS
    <2>2. Matches(call, exp)
      BY <1>5
    <2> HIDE DEF exp
    <2>3. Len(call.in) <= Len(exp) /\ (call.status = "live" => Len(call.in) + Len(call.out) = Len(exp))
      BY <1>3, <2>2 DEF Matches
    <2>4. Len(call.in) = 1 /\ (call.status = "live" => Len(call.out) = 0)
      <3> DEFINE n == Len(call.in)
                 m == Len(call.out)
      <3>1. n \in Nat /\ m \in Nat /\ n > 0 /\ n <= 1 /\ (call.status = "live" => n + m = 1)
        BY <1>4, <2>1, <2>3
      <3> HIDE DEF n, m
      <3>2. n = 1 /\ (call.status = "live" => m = 0)
        BY <3>1
      <3> QED BY <3>2 DEF n, m
    <2>5. call.status # "permanent"
      BY <1>1, <1>5 DEF AnswersAreTrue
    <2> QED BY <2>4, <2>5
  <1>7. writes \in Seq(Writes) /\ writes \in Seq(Messages) /\ Len(writes) \in Nat
    <2>1. writes \in Seq(Writes)
      BY <1>3, ContentsType
    <2> QED BY <2>1 DEF Messages
  <1> HIDE DEF writes
  <1>8. /\ call'.in = Tail(call.in) /\ call'.status = call.status
        /\ call'.out = call.out \o writes /\ call' \in Calls
    <2>1. call.out \o writes \in Seq(Messages)
      BY <1>4, <1>7
    <2>2. /\ Read \in Calls /\ Read.in = Tail(call.in)
          /\ Read.status = call.status /\ Read.out = call.out
      BY <1>1, <1>3, ReadType
    <2>3. call' = [Read EXCEPT !.out = call.out \o writes]
      BY <1>1, <2>2
    <2> QED BY <2>1, <2>2, <2>3, WrittenType
  <1>9. call'.in = <<>> /\ Len(call'.in) = 0
    <2>1. Tail(call.in) \in Seq(Messages) /\ Len(Tail(call.in)) = Len(call.in) - 1
      BY <1>1, <1>4, TailType
    <2>2. Len(Tail(call.in)) = 0
      BY <1>6, <2>1
    <2>3. \A s \in Seq(Messages) : Len(s) = 0 => s = <<>>
      OBVIOUS
    <2>4. Tail(call.in) = <<>>
      BY <2>1, <2>2, <2>3
    <2> QED BY <1>8, <2>2, <2>4
  <1>10. call.status = "live" => call'.out = writes
    <2> SUFFICES ASSUME call.status = "live" PROVE call'.out = writes
      OBVIOUS
    <2>1. call.out = <<>>
      BY <1>4, <1>6
    <2>2. <<>> \o writes = writes
      BY <1>7
    <2>3. call'.out = <<>> \o writes
      BY <1>8, <2>1
    <2> QED BY <2>2, <2>3
  <1>11. Matches(call', writes)
    <2>1. call'.status = "live" => call'.out = writes
      BY <1>8, <1>10
    <2>2. \A i \in 1 .. Len(writes) : writes[i] = writes[0 + i]
      BY <1>7
    <2>3. Len(call'.in) <= Len(writes) /\ 0 + Len(writes) = Len(writes)
      BY <1>7, <1>9
    <2> QED BY <1>9, <2>1, <2>2, <2>3 DEF Matches
  <1>12. AnswersAreTrue(call', TRUE, pipeline, committed, rejected)
    BY <1>6, <1>8, <1>9 DEF AnswersAreTrue
  <1>13. InStep(pipeline', stream', handshake', idle', call', closes', tokens')
    BY <1>1, <1>3, <1>8 DEF InStep
  <1>14. Streaming'
    BY <1>1, <1>3, <1>8, <1>11, <1>12, <1>13
       DEF Inv, Streaming, Started, Expected, writes, local, backend
  <1> QED BY <1>2, <1>14 DEF Inv

\* A later answer: the first batch is settled, the pipeline moves up.
LEMMA ResultStep ==
    ASSUME PipelineConstants, Inv, OnMutationResult
    PROVE  Inv'
  <1>1. /\ call.in # <<>> /\ handshake
        /\ Settle(Head(pipeline), "ok")
        /\ Fill(Tail(pipeline), mutations'[user], stream, handshake, Read, closes, tokens)
        /\ UNCHANGED <<backend, handshake, closes>>
    BY DEF OnMutationResult, CanRead
  <1>2. pipeline # <<>> /\ Head(pipeline).write \in committed
    BY <1>1, FirstAnswer DEF Inv
  <1>3. /\ Queued' /\ Tail(pipeline) \in Seq(Batch)
        /\ mutations'[user'] \in Seq(Batch) /\ Sorted(mutations'[user'])
        /\ Front(Tail(pipeline), mutations'[user'])
    BY <1>1, <1>2, SettleStep DEF Decided
  <1>4. /\ call \in Calls /\ pipeline \in Seq(Batch) /\ stream = "Open" /\ stream \in States
        /\ call.status # "none" /\ ~ idle /\ idle \in BOOLEAN /\ handshake = TRUE
        /\ closes \in Nat /\ tokens \in SUBSET (0 .. closes) /\ closes \notin tokens
    BY <1>1, <1>2, StreamFacts DEF Inv
  <1>5. /\ call.in \in Seq(Messages) /\ call.out \in Seq(Messages)
        /\ Len(call.in) \in Nat /\ Len(call.out) \in Nat /\ Len(call.in) > 0
    BY <1>1, <1>4 DEF Calls
  <1>6. /\ Tail(call.in) \in Seq(Messages) /\ Len(Tail(call.in)) = Len(call.in) - 1
        /\ \A i \in 1 .. Len(call.in) - 1 : Tail(call.in)[i] = call.in[i + 1]
    BY <1>1, <1>5, TailType
  <1>7. /\ Tail(pipeline) \in Seq(Batch) /\ Len(Tail(pipeline)) = Len(pipeline) - 1
        /\ \A i \in 1 .. Len(pipeline) - 1 : Tail(pipeline)[i] = pipeline[i + 1]
        /\ Len(pipeline) \in Nat /\ Len(pipeline) > 0
    BY <1>2, <1>4, TailType
  <1>8. /\ Read.in = Tail(call.in) /\ Read.status = call.status /\ Read.out = call.out
        /\ Read \in Calls
    BY <1>1, <1>4, ReadType
  <1>9. Matches(Read, Contents(Tail(pipeline)))
    <2> DEFINE exp  == Contents(pipeline)
               goal == Contents(Tail(pipeline))
               ins  == call.in
               outs == call.out
    <2>1. /\ Len(exp) = Len(pipeline) /\ Len(goal) = Len(pipeline) - 1
          /\ \A i \in 1 .. Len(pipeline) : exp[i] = pipeline[i].write
          /\ \A i \in 1 .. Len(pipeline) - 1 : goal[i] = pipeline[i + 1].write
      <3>1. /\ Len(exp) = Len(pipeline)
            /\ \A i \in 1 .. Len(pipeline) : exp[i] = pipeline[i].write
        BY <1>4, ContentsType
      <3>2. /\ Len(goal) = Len(Tail(pipeline))
            /\ \A i \in 1 .. Len(Tail(pipeline)) : goal[i] = Tail(pipeline)[i].write
        BY <1>7, ContentsType
      <3> HIDE DEF exp, goal
      <3> QED BY <1>7, <3>1, <3>2
    <2>2. \A i \in 1 .. Len(pipeline) - 1 : goal[i] = exp[i + 1]
      BY <1>7, <2>1
    <2>3. Matches(call, exp)
      BY <1>4 DEF Inv, Streaming, Expected
    <2>4. /\ Len(ins) <= Len(pipeline)
          /\ \A i \in 1 .. Len(ins) : ins[i] = exp[i]
          /\ call.status = "live" =>
                /\ Len(ins) + Len(outs) = Len(pipeline)
                /\ \A i \in 1 .. Len(outs) : outs[i] = exp[Len(ins) + i]
      BY <1>4, <2>1, <2>3 DEF Matches
    <2> DEFINE n == Len(ins)
               m == Len(outs)
               size == Len(pipeline)
               rest == Tail(ins)
    <2>5. /\ n \in Nat /\ m \in Nat /\ size \in Nat /\ n > 0 /\ size > 0 /\ n <= size
          /\ Len(rest) = n - 1 /\ \A i \in 1 .. n - 1 : rest[i] = ins[i + 1]
      BY <1>5, <1>6, <1>7, <2>4
    <2> HIDE DEF exp, goal, n, m, size, rest
    <2>6. ASSUME NEW i \in 1 .. n - 1
          PROVE  rest[i] = goal[i]
      <3>1. i + 1 \in 1 .. n /\ i \in 1 .. size - 1
        BY <2>5
      <3> QED BY <2>2, <2>4, <2>5, <3>1 DEF n, size
    <2>7. ASSUME call.status = "live"
          PROVE  /\ (n - 1) + m = size - 1
                 /\ \A i \in 1 .. m : outs[i] = goal[(n - 1) + i]
      <3>1. n + m = size
        BY <2>4, <2>7 DEF n, m, size
      <3>2. (n - 1) + m = size - 1
        BY <2>5, <3>1
      <3>3. ASSUME NEW i \in 1 .. m
            PROVE  outs[i] = goal[(n - 1) + i]
        <4>1. (n - 1) + i \in 1 .. size - 1 /\ ((n - 1) + i) + 1 = n + i
          BY <2>5, <3>1
        <4>2. outs[i] = exp[n + i]
          BY <2>4, <2>7 DEF n, m
        <4> QED BY <2>2, <4>1, <4>2 DEF size
      <3> QED BY <3>2, <3>3
    <2>8. Len(goal) = size - 1 /\ n - 1 <= size - 1
      BY <2>1, <2>5 DEF size
    <2> QED BY <1>8, <2>5, <2>6, <2>7, <2>8 DEF Matches, goal, rest, m
  <1>10. AnswersAreTrue(Read, TRUE, Tail(pipeline), committed, rejected)
    <2>1. AnswersAreTrue(call, TRUE, pipeline, committed, rejected)
      BY <1>4 DEF Inv, Streaming
    <2>2. ASSUME NEW i \in 1 .. Len(call.in) - 1
          PROVE  Tail(call.in)[i] \in committed \cup {Handshake}
      <3>1. i + 1 \in 1 .. Len(call.in)
        BY <1>5
      <3> QED BY <1>6, <2>1, <3>1 DEF AnswersAreTrue
    <2>3. ASSUME call.status = "permanent"
          PROVE  /\ Len(call.in) - 1 < Len(pipeline) - 1
                 /\ Tail(pipeline)[(Len(call.in) - 1) + 1].write \in rejected
      <3>1. Len(call.in) < Len(pipeline) /\ pipeline[Len(call.in) + 1].write \in rejected
        BY <2>1, <2>3 DEF AnswersAreTrue
      <3>2. (Len(call.in) - 1) + 1 = Len(call.in) /\ Len(call.in) \in 1 .. Len(pipeline) - 1
        BY <1>5, <1>7, <3>1
      <3> QED BY <1>5, <1>7, <3>1, <3>2
    <2> QED BY <1>6, <1>7, <1>8, <2>2, <2>3 DEF AnswersAreTrue
  <1>11. InStep(Tail(pipeline), stream, handshake, idle, Read, closes, tokens)
    BY <1>4, <1>8 DEF InStep
  <1>12. user' = user
    BY <1>1 DEF Settle
  <1>13. Streaming'
    BY <1>1, <1>3, <1>4, <1>8, <1>9, <1>10, <1>11, <1>12, FillStep DEF Expected
  <1> QED BY <1>3, <1>13 DEF Inv

\* When a call is over with a permanent error, the first batch was refused
\* or, if its answer was never read, applied.
LEMMA FirstDecided ==
    ASSUME PipelineConstants, Streaming, handshake, call.status = "permanent", pipeline # <<>>
    PROVE  Decided(Head(pipeline).write)
  <1>1. CASE call.in # <<>>
    BY <1>1, FirstAnswer DEF Decided
  <1>2. CASE call.in = <<>>
    <2>1. pipeline[Len(call.in) + 1].write \in rejected
      BY DEF Streaming, AnswersAreTrue
    <2>2. pipeline \in Seq(Batch)
      BY DEF Streaming
    <2>3. Len(call.in) + 1 = 1 /\ Head(pipeline) = pipeline[1]
      BY <1>2, <2>2, TailType
    <2> QED BY <2>1, <2>3 DEF Decided
  <1> QED BY <1>1, <1>2

\* The end of a call: a permanent error after the handshake settles the first batch.
LEMMA FinishStep ==
    ASSUME PipelineConstants, Inv, OnStreamFinish
    PROVE  Inv'
  <1>1. call.status \in {"transient", "permanent"} /\ Finish(call.status)
    BY DEF OnStreamFinish, Ended
  <1>2. UNCHANGED backend /\ closes' = closes + 1 /\ handshake' = FALSE
    BY <1>1 DEF Finish
  <1>3. /\ Streaming /\ pipeline \in Seq(Batch) /\ call \in Calls /\ stream = "Open"
        /\ closes + 1 \in Nat /\ tokens \in SUBSET (0 .. closes + 1)
        /\ closes + 1 \notin tokens /\ idle \in BOOLEAN
    BY <1>1, StreamFacts DEF Inv
  <1>4. CASE handshake /\ call.status = "permanent" /\ pipeline # <<>>
    <2>1. /\ Settle(Head(pipeline), "error")
          /\ Fill(Tail(pipeline), mutations'[user], "Initial", FALSE, NoCall, closes + 1, tokens)
      BY <1>1, <1>4 DEF Finish
    <2>2. Decided(Head(pipeline).write)
      BY <1>3, <1>4, FirstDecided
    <2>3. /\ Queued' /\ Tail(pipeline) \in Seq(Batch)
          /\ mutations'[user'] \in Seq(Batch) /\ Sorted(mutations'[user'])
          /\ Front(Tail(pipeline), mutations'[user'])
      BY <1>2, <1>4, <2>1, <2>2, SettleStep
    <2>4. /\ NoCall \in Calls /\ Matches(NoCall, Expected(FALSE, Tail(pipeline)))
          /\ AnswersAreTrue(NoCall, FALSE, Tail(pipeline), committed, rejected)
      BY NoCallType
    <2>5. InStep(Tail(pipeline), "Initial", FALSE, idle, NoCall, closes + 1, tokens)
      BY <1>3, <2>3, NotOpen DEF States
    <2>6. user' = user /\ "Initial" \in States
      BY <2>1 DEF Settle, States
    <2>7. Streaming'
      BY <1>2, <1>3, <2>1, <2>3, <2>4, <2>5, <2>6, FillStep
    <2> QED BY <2>3, <2>7 DEF Inv
  <1>5. CASE ~ (handshake /\ call.status = "permanent" /\ pipeline # <<>>)
    <2>1. /\ pipeline' = pipeline /\ call' = NoCall /\ idle' = FALSE
          /\ StartIfNeeded(pipeline, "Error", closes + 1, tokens)
          /\ UNCHANGED local
      BY <1>1, <1>5 DEF Finish
    <2>2. Queued'
      BY <1>2, <2>1, QueuedSame DEF Inv
    <2>3. UNCHANGED <<pipeline, mutations, user, backend>>
      BY <1>2, <2>1 DEF local
    <2>4. Streaming'
      BY <1>2, <1>3, <2>1, <2>3, StartStep
    <2> QED BY <2>2, <2>4 DEF Inv
  <1> QED BY <1>4, <1>5

LEMMA IdleStep ==
    ASSUME Inv, IdleTimeout
    PROVE  Inv'
  <1>1. /\ closes' = closes + 1 /\ handshake' = FALSE /\ idle' = FALSE /\ call' = NoCall
        /\ StartIfNeeded(pipeline, "Initial", closes + 1, tokens)
        /\ UNCHANGED <<local, backend, pipeline>>
    BY DEF IdleTimeout
  <1>2. Queued'
    BY <1>1, QueuedSame DEF Inv
  <1>3. /\ Streaming /\ UNCHANGED <<pipeline, mutations, user, backend>>
    BY <1>1 DEF Inv, local
  <1>4. /\ closes + 1 \in Nat /\ tokens \in SUBSET (0 .. closes + 1)
        /\ closes + 1 \notin tokens
    BY <1>3, StreamFacts
  <1>5. Streaming'
    BY <1>1, <1>3, <1>4, StartStep
  <1> QED BY <1>2, <1>5 DEF Inv

\* An empty pipeline in a stream that is not open is filled from the front.
LEMMA RefillStep ==
    ASSUME PipelineConstants, NEW queue \in Seq(Batch), Sorted(queue),
           NEW state \in {"Initial", "Error"}, NEW count \in Nat,
           NEW asked \in SUBSET (0 .. count), count \notin asked, idle \in BOOLEAN,
           Fill(<<>>, queue, state, FALSE, NoCall, count, asked),
           queue = mutations'[user'], handshake' = FALSE, closes' = count,
           UNCHANGED backend
    PROVE  Streaming'
  <1> DEFINE none == <<>>
  <1>1. none \in Seq(Batch) /\ Len(none) = 0
    OBVIOUS
  <1>2. state \in States /\ state # "Open" /\ state # "Starting"
    BY DEF States
  <1> HIDE DEF none
  <1>3. Front(none, queue)
    <2>1. Len(queue) \in Nat /\ MaxPending \in Nat
      BY DEF PipelineConstants
    <2> QED BY <1>1, <2>1 DEF Front
  <1>4. /\ NoCall \in Calls /\ Matches(NoCall, Expected(FALSE, none))
        /\ AnswersAreTrue(NoCall, FALSE, none, committed, rejected)
    BY NoCallType
  <1>5. InStep(none, state, FALSE, idle, NoCall, count, asked)
    BY <1>1, <1>2, NotOpen
  <1>6. Fill(none, queue, state, FALSE, NoCall, count, asked)
    BY DEF none
  <1> QED BY <1>1, <1>2, <1>3, <1>4, <1>5, <1>6, FillStep

\* The next id is past all that are on disk, whoever they belong to.
LEMMA NextIdStep ==
    ASSUME Queued, user' \in Users, nextId' \in Nat \ {0},
           \/ nextId' = nextId
           \/ IsNextId(nextId', mutations),
           callbacks' \subseteq callbacks, UNCHANGED <<mutations, author, backend>>
    PROVE  Queued'
  <1>1. IdsInOrder'
    <2> SUFFICES ASSUME NEW u \in Users, NEW i \in DOMAIN mutations[u]
                 PROVE  mutations[u][i].id < nextId'
      BY DEF Queued, IdsInOrder
    <2>1. CASE nextId' = nextId
      BY <2>1 DEF Queued, IdsInOrder
    <2>2. CASE IsNextId(nextId', mutations)
      BY <2>2 DEF IsNextId, Ids
    <2> QED BY <2>1, <2>2
  <1>2. CallbacksMatch' /\ NothingIsLost'
    BY DEF Queued, CallbacksMatch, NothingIsLost, Decided, backend
  <1>3. nextId' \in Nat /\ nextId' > 0 /\ callbacks' \subseteq [user : Users, id : Nat, write : Writes]
    BY DEF Queued
  <1> QED BY <1>1, <1>2, <1>3 DEF Queued

\* Another user or another token: the stream stops and starts again.
LEMMA CredentialStep ==
    ASSUME PipelineConstants, Inv, NEW u \in Users, HandleCredentialChange(u)
    PROVE  Inv'
  <1> DEFINE count == IF Started THEN closes + 1 ELSE closes
             state == IF Started THEN "Initial" ELSE stream
  <1>1. /\ user' = u /\ closes' = count /\ handshake' = FALSE
        /\ Fill(<<>>, mutations[u], state, FALSE, NoCall, count, tokens)
        /\ UNCHANGED <<mutations, callbacks, author, outcome, backend>>
    BY DEF HandleCredentialChange
  <1>2. /\ nextId' \in 1 .. Cardinality(Writes) + 1
        /\ nextId' = nextId \/ IsNextId(nextId', mutations)
    BY DEF HandleCredentialChange
  <1>3. nextId' \in Nat \ {0}
    BY <1>2, FS_CardinalityType DEF PipelineConstants
  <1>4. Queued'
    BY <1>1, <1>2, <1>3, NextIdStep DEF Inv
  <1>5. /\ state \in {"Initial", "Error"} /\ count \in Nat
        /\ tokens \in SUBSET (0 .. count) /\ count \notin tokens /\ idle \in BOOLEAN
    BY StreamFacts DEF Inv, Started, States
  <1>6. mutations[u] \in Seq(Batch) /\ Sorted(mutations[u]) /\ mutations[u] = mutations'[user']
    BY <1>1 DEF Inv, Queued, IdsInOrder
  <1> HIDE DEF count, state
  <1>7. Streaming'
    BY <1>1, <1>5, <1>6, RefillStep
  <1> QED BY <1>4, <1>7 DEF Inv

LEMMA RelaunchStep ==
    ASSUME PipelineConstants, Inv, Relaunch
    PROVE  Inv'
  <1>1. /\ callbacks' = {} /\ closes' = 0 /\ handshake' = FALSE
        /\ Fill(<<>>, mutations[user], "Initial", FALSE, NoCall, 0, {})
        /\ UNCHANGED <<user, mutations, author, outcome, backend>>
    BY DEF Relaunch
  <1>2. nextId' \in 1 .. Cardinality(Writes) + 1 /\ IsNextId(nextId', mutations)
    BY DEF Relaunch
  <1>3. nextId' \in Nat \ {0}
    BY <1>2, FS_CardinalityType DEF PipelineConstants
  <1>4. user' \in Users
    BY <1>1 DEF Inv, Queued
  <1>5. Queued'
    BY <1>1, <1>2, <1>3, <1>4, NextIdStep DEF Inv
  <1>6. /\ mutations[user] \in Seq(Batch) /\ Sorted(mutations[user])
        /\ mutations[user] = mutations'[user']
    BY <1>1 DEF Inv, Queued, IdsInOrder
  <1>7. idle \in BOOLEAN /\ {} \in SUBSET (0 .. 0) /\ 0 \in Nat /\ 0 \notin {}
    BY StreamFacts DEF Inv
  <1>8. Streaming'
    BY <1>1, <1>6, <1>7, RefillStep
  <1> QED BY <1>5, <1>8 DEF Inv

-----------------------------------------------------------------------------
(* The steps of the backend and of the network.                            *)

\* What a live call carries.
LEMMA LiveFacts ==
    ASSUME Streaming, call.status = "live", call.out # <<>>
    PROVE  LET exp == Expected(handshake, pipeline)
           IN  /\ call.in \in Seq(Messages) /\ call.out \in Seq(Messages)
               /\ Len(call.in) \in Nat /\ Len(call.out) \in Nat /\ Len(call.out) > 0
               /\ Len(call.in) + Len(call.out) = Len(exp)
               /\ Head(call.out) = call.out[1] /\ call.out[1] \in Messages
               /\ call.out[1] = exp[Len(call.in) + 1]
               /\ Tail(call.out) \in Seq(Messages) /\ Len(Tail(call.out)) = Len(call.out) - 1
               /\ \A i \in 1 .. Len(call.out) - 1 : Tail(call.out)[i] = call.out[i + 1]
  <1>1. /\ call.in \in Seq(Messages) /\ call.out \in Seq(Messages)
        /\ Matches(call, Expected(handshake, pipeline))
    BY DEF Streaming, Calls
  <1>2. /\ Len(call.in) \in Nat /\ Len(call.out) \in Nat /\ Len(call.out) > 0
        /\ Head(call.out) = call.out[1] /\ call.out[1] \in Messages
        /\ Tail(call.out) \in Seq(Messages) /\ Len(Tail(call.out)) = Len(call.out) - 1
        /\ \A i \in 1 .. Len(call.out) - 1 : Tail(call.out)[i] = call.out[i + 1]
    BY <1>1, TailType
  <1> DEFINE exp == Expected(handshake, pipeline)
  <1> HIDE DEF exp
  <1>3. /\ Len(call.in) + Len(call.out) = Len(exp)
        /\ \A i \in 1 .. Len(call.out) : call.out[i] = exp[Len(call.in) + i]
    BY <1>1 DEF Matches, exp
  <1>4. call.out[1] = exp[Len(call.in) + 1]
    <2>1. 1 \in 1 .. Len(call.out)
      BY <1>2
    <2> QED BY <1>3, <2>1
  <1> QED BY <1>1, <1>2, <1>3, <1>4 DEF exp

\* The backend reads the handshake only before it has answered it, and a
\* write only after that.
LEMMA ReadsInPhase ==
    ASSUME PipelineConstants, Streaming, NEW message, Reads(message)
    PROVE  /\ handshake => message = pipeline[Len(call.in) + 1].write
                           /\ Len(call.in) < Len(pipeline) /\ message \in Writes
           /\ ~ handshake => message = Handshake /\ call.in = <<>>
  <1>1. call.status = "live" /\ call.out # <<>> /\ Head(call.out) = message
    BY DEF Reads
  <1> DEFINE exp == Expected(handshake, pipeline)
             n == Len(call.in)
             m == Len(call.out)
  <1>2. n \in Nat /\ m \in Nat /\ m > 0 /\ n + m = Len(exp) /\ message = exp[n + 1]
    BY <1>1, LiveFacts
  <1>3. CASE handshake
    <2>1. pipeline \in Seq(Batch) /\ exp = Contents(pipeline)
      BY <1>3 DEF Streaming, Expected
    <2>2. Len(exp) = Len(pipeline) /\ \A i \in 1 .. Len(pipeline) : exp[i] = pipeline[i].write
      BY <2>1, ContentsType
    <2> HIDE DEF exp, n, m
    <2>3. n + 1 \in 1 .. Len(pipeline) /\ n < Len(pipeline)
      BY <1>2, <2>2
    <2>4. pipeline[n + 1].write \in Writes
      BY <2>1, <2>3, BatchType
    <2> QED BY <1>2, <1>3, <2>2, <2>3, <2>4 DEF n
  <1>4. CASE ~ handshake
    <2>1. exp = <<Handshake>>
      BY <1>4 DEF Expected
    <2>2. Len(exp) = 1 /\ exp[1] = Handshake
      BY <2>1
    <2> HIDE DEF exp, n, m
    <2>3. n = 0
      BY <1>2, <2>2
    <2>4. n + 1 = 1
      BY <2>3
    <2>5. call.in \in Seq(Messages)
      BY DEF Streaming, Calls
    <2>6. \A s \in Seq(Messages) : Len(s) = 0 => s = <<>>
      OBVIOUS
    <2> QED BY <1>2, <1>4, <2>2, <2>3, <2>4, <2>5, <2>6 DEF n
  <1> QED BY <1>3, <1>4

\* An answer moves the first message from one direction to the other.
LEMMA AnswerMoves ==
    ASSUME Streaming, NEW message, Reads(message), Answers(message),
           UNCHANGED <<handshake, pipeline>>, committed \subseteq committed',
           message \in committed' \cup {Handshake}
    PROVE  /\ call' \in Calls /\ call.status # "none" /\ call'.status # "none"
           /\ Matches(call', Expected(handshake, pipeline))
           /\ AnswersAreTrue(call', handshake, pipeline, committed', rejected')
  <1>1. call.status = "live" /\ call.out # <<>> /\ Head(call.out) = message /\ call \in Calls
    BY DEF Reads, Streaming
  <1> DEFINE exp  == Expected(handshake, pipeline)
             ins  == call.in
             outs == call.out
             more == Append(ins, message)
             rest == Tail(outs)
             n    == Len(ins)
             m    == Len(outs)
  <1>2. /\ ins \in Seq(Messages) /\ outs \in Seq(Messages) /\ n \in Nat /\ m \in Nat /\ m > 0
        /\ n + m = Len(exp) /\ message = outs[1] /\ message \in Messages /\ message = exp[n + 1]
        /\ rest \in Seq(Messages) /\ Len(rest) = m - 1
        /\ \A i \in 1 .. m - 1 : rest[i] = outs[i + 1]
    BY <1>1, LiveFacts
  <1>3. /\ \A i \in 1 .. n : ins[i] = exp[i]
        /\ \A i \in 1 .. m : outs[i] = exp[n + i]
    BY <1>1 DEF Streaming, Matches
  <1>4. /\ more \in Seq(Messages) /\ Len(more) = n + 1 /\ more[n + 1] = message
        /\ \A i \in 1 .. n : more[i] = ins[i]
    <2>1. ins \in Seq(Messages) /\ message \in Messages
      BY <1>2
    <2> HIDE DEF ins
    <2> QED BY <2>1, AppendProperties
  <1>5. /\ call' \in Calls /\ call'.status = "live" /\ call'.in = more /\ call'.out = rest
    <2>1. call' = [call EXCEPT !.out = rest, !.in = more]
      BY <1>1 DEF Answers, Calls
    <2>2. more \in Seq(Messages) /\ rest \in Seq(Messages)
      BY <1>2, <1>4
    <2> HIDE DEF more, rest
    <2>3. call'.status = call.status /\ call'.in = more /\ call'.out = rest
      BY <1>1, <2>1 DEF Calls
    <2>4. call' \in Calls
      BY <1>1, <2>1, <2>2 DEF Calls
    <2> QED BY <1>1, <2>3, <2>4
  <1> HIDE DEF exp, ins, outs, more, rest, n, m
  <1>6. \A i \in 1 .. n + 1 : more[i] = exp[i]
    BY <1>2, <1>3, <1>4
  <1>7. \A i \in 1 .. m - 1 : rest[i] = exp[(n + 1) + i]
    <2> SUFFICES ASSUME NEW i \in 1 .. m - 1 PROVE rest[i] = exp[(n + 1) + i]
      OBVIOUS
    <2>1. i + 1 \in 1 .. m /\ n + (i + 1) = (n + 1) + i
      BY <1>2
    <2> QED BY <1>2, <1>3, <2>1
  <1>8. n + 1 <= Len(exp) /\ (n + 1) + (m - 1) = Len(exp)
    <2>1. n \in Nat /\ m \in Nat /\ m > 0 /\ n + m = Len(exp)
      BY <1>2
    <2> QED BY <2>1
  <1>9. Matches(call', exp)
    BY <1>2, <1>4, <1>5, <1>6, <1>7, <1>8 DEF Matches
  <1>10. \A i \in 1 .. n + 1 : more[i] \in committed' \cup {Handshake}
    <2>1. \A i \in 1 .. n : ins[i] \in committed \cup {Handshake}
      BY DEF Streaming, AnswersAreTrue, ins, n
    <2>2. more[n + 1] \in committed' \cup {Handshake}
      BY <1>4
    <2>3. \A i \in 1 .. n : more[i] \in committed' \cup {Handshake}
      BY <1>4, <2>1
    <2>4. n \in Nat
      BY <1>2
    <2>5. \A i \in 1 .. n + 1 : i \in 1 .. n \/ i = n + 1
      BY <2>4
    <2> QED BY <2>2, <2>3, <2>5
  <1>11. AnswersAreTrue(call', handshake, pipeline, committed', rejected')
    BY <1>4, <1>5, <1>10 DEF AnswersAreTrue
  <1> QED BY <1>1, <1>5, <1>9, <1>11 DEF exp

LEMMA AnswerHandshakeStep ==
    ASSUME Inv, AnswerHandshake
    PROVE  Inv'
  <1>1. /\ Reads(Handshake) /\ Answers(Handshake) /\ UNCHANGED <<Client, backend>>
    BY DEF AnswerHandshake
  <1>2. UNCHANGED <<handshake, pipeline, committed, rejected>>
    BY <1>1 DEF Client, backend
  <1>3. /\ call' \in Calls /\ call.status # "none" /\ call'.status # "none"
        /\ Matches(call', Expected(handshake, pipeline))
        /\ AnswersAreTrue(call', handshake, pipeline, committed', rejected')
    BY <1>1, <1>2, AnswerMoves DEF Inv
  <1> QED BY <1>1, <1>2, <1>3, TransportStep

LEMMA CommitStep ==
    ASSUME Inv, NEW w \in Writes, Commit(w)
    PROVE  Inv'
  <1>1. /\ Reads(w) /\ Answers(w) /\ committed' = committed \cup {w}
        /\ UNCHANGED <<Client, rejected>>
    BY DEF Commit
  <1>2. UNCHANGED <<handshake, pipeline>>
    BY <1>1 DEF Client
  <1>3. /\ call' \in Calls /\ call.status # "none" /\ call'.status # "none"
        /\ Matches(call', Expected(handshake, pipeline))
        /\ AnswersAreTrue(call', handshake, pipeline, committed', rejected')
    BY <1>1, <1>2, AnswerMoves DEF Inv
  <1> QED BY <1>1, <1>3, TransportStep

\* A call that the backend ends, or the network, keeps the first of its answers.
LEMMA EndedMatches ==
    ASSUME call \in Calls, NEW exp, Matches(call, exp), call.status # "none",
           NEW k \in 0 .. Len(call.in), call' \in Calls,
           call'.status \in {"transient", "permanent"},
           Len(call'.in) = k, \A i \in 1 .. k : call'.in[i] = call.in[i]
    PROVE  Matches(call', exp)
  <1>1. Len(call.in) \in Nat /\ k \in Nat /\ k <= Len(call.in)
    BY DEF Calls
  <1>2. Len(call.in) <= Len(exp) /\ \A i \in 1 .. Len(call.in) : call.in[i] = exp[i]
    BY DEF Matches
  <1>3. \A i \in 1 .. k : call'.in[i] = exp[i]
    BY <1>1, <1>2
  <1>4. k <= Len(exp)
    BY <1>1, <1>2 DEF Matches
  <1> QED BY <1>3, <1>4 DEF Matches

\* Refusing a message ends the call and drops the message.
LEMMA RefusedType ==
    ASSUME call \in Calls, call.out # <<>>,
           call' = [call EXCEPT !.out = Tail(@), !.status = "permanent"]
    PROVE  call' \in Calls /\ call'.status = "permanent" /\ call'.in = call.in
  <1> DEFINE rest == Tail(call.out)
  <1>1. rest \in Seq(Messages) /\ "permanent" \in Statuses \cup {"none"}
    BY DEF Calls, Statuses
  <1>2. call' = [call EXCEPT !.out = rest, !.status = "permanent"]
    BY DEF Calls
  <1> HIDE DEF rest
  <1>3. call'.status = "permanent" /\ call'.in = call.in
    BY <1>2 DEF Calls
  <1>4. call' \in Calls
    BY <1>1, <1>2 DEF Calls
  <1> QED BY <1>3, <1>4

LEMMA RejectStep ==
    ASSUME PipelineConstants, Inv, NEW w \in Writes, Reject(w)
    PROVE  Inv'
  <1>1. /\ Reads(w) /\ call' = [call EXCEPT !.out = Tail(@), !.status = "permanent"]
        /\ rejected' = rejected \cup {w} /\ UNCHANGED <<Client, committed>>
    BY DEF Reject
  <1>2. /\ call.status = "live" /\ call.out # <<>> /\ call \in Calls
        /\ Matches(call, Expected(handshake, pipeline))
        /\ AnswersAreTrue(call, handshake, pipeline, committed, rejected)
    BY <1>1 DEF Reads, Inv, Streaming
  <1>3. call' \in Calls /\ call'.status = "permanent" /\ call'.in = call.in
    BY <1>1, <1>2, RefusedType
  <1>4. handshake /\ w = pipeline[Len(call.in) + 1].write /\ Len(call.in) < Len(pipeline)
    BY <1>1, ReadsInPhase DEF Inv, PipelineConstants
  <1>5. Len(call.in) \in 0 .. Len(call.in)
    BY <1>2 DEF Calls
  <1>6. Matches(call', Expected(handshake, pipeline))
    BY <1>2, <1>3, <1>5, EndedMatches
  <1>7. AnswersAreTrue(call', handshake, pipeline, committed', rejected')
    BY <1>1, <1>2, <1>3, <1>4 DEF AnswersAreTrue
  <1> QED BY <1>1, <1>2, <1>3, <1>6, <1>7, TransportStep

LEMMA RefuseHandshakeStep ==
    ASSUME PipelineConstants, Inv, RefuseHandshake
    PROVE  Inv'
  <1>1. /\ Reads(Handshake) /\ call' = [call EXCEPT !.out = Tail(@), !.status = "permanent"]
        /\ UNCHANGED <<Client, backend>>
    BY DEF RefuseHandshake
  <1>2. /\ call.status = "live" /\ call.out # <<>> /\ call \in Calls
        /\ Matches(call, Expected(handshake, pipeline))
        /\ AnswersAreTrue(call, handshake, pipeline, committed, rejected)
    BY <1>1 DEF Reads, Inv, Streaming
  <1>3. call' \in Calls /\ call'.status = "permanent" /\ call'.in = call.in
    BY <1>1, <1>2, RefusedType
  <1>4. ~ handshake /\ call.in = <<>>
    BY <1>1, ReadsInPhase DEF Inv, PipelineConstants
  <1>5. Len(call.in) \in 0 .. Len(call.in)
    BY <1>2 DEF Calls
  <1>6. Matches(call', Expected(handshake, pipeline))
    BY <1>2, <1>3, <1>5, EndedMatches
  <1>7. AnswersAreTrue(call', handshake, pipeline, committed', rejected')
    BY <1>1, <1>2, <1>3, <1>4 DEF AnswersAreTrue, backend
  <1> QED BY <1>1, <1>2, <1>3, <1>6, <1>7, TransportStep DEF backend

LEMMA BreakStep ==
    ASSUME Inv, Break
    PROVE  Inv'
  <1>1. call.status = "live" /\ UNCHANGED <<Client, backend>>
    BY DEF Break
  <1>2. PICK k \in 0 .. Len(call.in) :
            call' = [call EXCEPT !.in = SubSeq(@, 1, k), !.status = "transient"]
    BY DEF Break
  <1> DEFINE ins == SubSeq(call.in, 1, k)
  <1>3. /\ call \in Calls /\ call.in \in Seq(Messages) /\ Len(call.in) \in Nat
        /\ Matches(call, Expected(handshake, pipeline))
        /\ AnswersAreTrue(call, handshake, pipeline, committed, rejected)
    BY DEF Inv, Streaming, Calls
  <1>4. k \in Nat /\ k <= Len(call.in)
    BY <1>3
  <1>5. ins \in Seq(Messages) /\ Len(ins) = k /\ \A i \in 1 .. k : ins[i] = call.in[i]
    <2>1. \A i \in 1 .. k : call.in[i] \in Messages
      BY <1>3, <1>4
    <2> QED BY <1>3, <1>4, <2>1, SubSeqProperties
  <1>6. call' = [call EXCEPT !.in = ins, !.status = "transient"] /\ "transient" \in Statuses \cup {"none"}
    BY <1>2, <1>3 DEF Calls, Statuses
  <1> HIDE DEF ins
  <1>7. call'.in = ins /\ call'.status = "transient"
    BY <1>3, <1>6 DEF Calls
  <1>8. call' \in Calls
    BY <1>3, <1>5, <1>6 DEF Calls
  <1>9. Matches(call', Expected(handshake, pipeline))
    BY <1>1, <1>3, <1>5, <1>7, <1>8, EndedMatches
  <1>10. AnswersAreTrue(call', handshake, pipeline, committed', rejected')
    <2>1. \A i \in 1 .. k : call.in[i] \in committed \cup {Handshake}
      BY <1>3, <1>4 DEF AnswersAreTrue
    <2> QED BY <1>1, <1>5, <1>7, <2>1 DEF AnswersAreTrue, backend
  <1> QED BY <1>1, <1>7, <1>8, <1>9, <1>10, TransportStep DEF backend

LEMMA WriteFailsStep ==
    ASSUME Inv, WriteFails
    PROVE  Inv'
  <1> DEFINE failed == IF call.in = <<>> THEN "now" ELSE "next"
  <1>1. /\ call.status \in {"transient", "permanent"}
        /\ call' = [call EXCEPT !.failed = failed]
        /\ UNCHANGED <<Client, backend>>
    BY DEF WriteFails, Ended
  <1>2. /\ call \in Calls
        /\ Matches(call, Expected(handshake, pipeline))
        /\ AnswersAreTrue(call, handshake, pipeline, committed, rejected)
    BY DEF Inv, Streaming
  <1>3. failed \in {"no", "next", "now"}
    OBVIOUS
  <1> HIDE DEF failed
  <1>4. call' \in Calls /\ call'.status = call.status /\ call'.in = call.in /\ call'.out = call.out
    BY <1>1, <1>2, <1>3 DEF Calls
  <1>5. Matches(call', Expected(handshake, pipeline))
    BY <1>2, <1>4 DEF Matches
  <1>6. AnswersAreTrue(call', handshake, pipeline, committed', rejected')
    BY <1>1, <1>2, <1>4 DEF AnswersAreTrue, backend
  <1> QED BY <1>1, <1>4, <1>5, <1>6, TransportStep DEF backend

-----------------------------------------------------------------------------
(* The invariant and what it says.                                         *)

LEMMA InitInv ==
    ASSUME PipelineConstants, Init
    PROVE  Inv
  <1>1. <<>> \in Seq(Batch) /\ DOMAIN <<>> = {} /\ Len(<<>>) = 0
    OBVIOUS
  <1>2. mutations \in [Users -> Seq(Batch)] /\ \A u \in Users : mutations[u] = <<>>
    BY <1>1 DEF Init
  <1>3. Queued
    <2>1. IdsInOrder
      BY <1>1, <1>2 DEF IdsInOrder, Sorted
    <2>2. CallbacksMatch /\ NothingIsLost
      BY DEF Init, CallbacksMatch, NothingIsLost
    <2> QED BY <1>2, <2>1, <2>2 DEF Init, Queued
  <1>4. /\ call \in Calls /\ call = NoCall /\ call.status = "none"
        /\ Matches(call, Expected(handshake, pipeline))
        /\ AnswersAreTrue(call, handshake, pipeline, committed, rejected)
    BY NoCallType DEF Init
  <1>5. Front(pipeline, mutations[user])
    <2>1. pipeline = <<>> /\ mutations[user] = <<>> /\ MaxPending \in Nat
      BY <1>2 DEF Init, PipelineConstants
    <2>2. MaxPending >= 0
      BY <2>1
    <2> QED BY <1>1, <2>1, <2>2 DEF Front
  <1>6. InStep(pipeline, stream, handshake, idle, call, closes, tokens)
    BY <1>4 DEF Init, InStep
  <1>7. Streaming
    BY <1>1, <1>4, <1>5, <1>6 DEF Init, Streaming, States
  <1> QED BY <1>3, <1>7 DEF Inv

LEMMA NextInv ==
    ASSUME PipelineConstants, Inv, [Next]_vars
    PROVE  Inv'
  <1>1. CASE UNCHANGED vars
    <2>1. UNCHANGED <<local, backend, pipeline, stream, handshake, idle, closes, tokens, call>>
      BY <1>1 DEF vars, local, backend
    <2>2. Queued'
      BY <2>1, QueuedSame DEF Inv
    <2>3. InStep(pipeline', stream', handshake', idle', call', closes', tokens')
      BY <2>1 DEF Inv, Streaming
    <2>4. Streaming'
      BY <2>1, <2>3 DEF Inv, Streaming, Started, local, backend
    <2> QED BY <2>2, <2>4 DEF Inv
  <1>2. CASE Library
    <2>1. CASE BackoffElapsed
      BY <2>1, BackoffStep
    <2>2. CASE OnHandshakeComplete
      BY <2>2, HandshakeStep
    <2>3. CASE OnMutationResult
      BY <2>3, ResultStep
    <2>4. CASE OnStreamFinish
      BY <2>4, FinishStep
    <2>5. CASE \E c \in tokens : TokenStale(c) \/ TokenReady(c)
      BY <2>5, TokenStaleStep, TokenReadyStep
    <2> QED BY <1>2, <2>1, <2>2, <2>3, <2>4, <2>5 DEF Library
  <1>3. CASE Server
    BY <1>3, AnswerHandshakeStep, CommitStep DEF Server
  <1>4. CASE \E w \in Writes : WriteMutations(w) \/ Reject(w)
    BY <1>4, WriteStep, RejectStep
  <1>5. CASE \E c \in tokens : TokenFailed(c)
    BY <1>5, TokenFailedStep
  <1>6. CASE \E u \in Users : HandleCredentialChange(u)
    BY <1>6, CredentialStep
  <1>7. CASE IdleTimeout
    BY <1>7, IdleStep
  <1>8. CASE Relaunch
    BY <1>8, RelaunchStep
  <1>9. CASE RefuseHandshake
    BY <1>9, RefuseHandshakeStep
  <1>10. CASE Break
    BY <1>10, BreakStep
  <1>11. CASE WriteFails
    BY <1>11, WriteFailsStep
  <1> QED BY <1>1, <1>2, <1>3, <1>4, <1>5, <1>6, <1>7, <1>8, <1>9, <1>10, <1>11 DEF Next

LEMMA Invariance == Spec => []Inv
  <1>1. Init => Inv
    BY InitInv, PipelineConstants
  <1>2. Inv /\ [Next]_vars => Inv'
    BY NextInv, PipelineConstants
  <1> QED BY <1>1, <1>2, PTL DEF Spec

\* FillWritePipeline and the answers keep the pipeline the front of the queue
\* of the current user, within kMaxPendingWrites.
THEOREM FrontOfQueue == Spec => []PipelineIsFront
  <1>1. Inv => PipelineIsFront
    <2> SUFFICES ASSUME Inv PROVE PipelineIsFront
      OBVIOUS
    <2> DEFINE queue == mutations[user]
               n     == Len(pipeline)
               front == SubSeq(queue, 1, n)
    <2>1. /\ pipeline \in Seq(Batch) /\ queue \in Seq(Batch) /\ Front(pipeline, queue)
      BY DEF Inv, Queued, Streaming
    <2>2. n \in Nat /\ Len(queue) \in Nat /\ n <= MaxPending /\ n <= Len(queue)
      BY <2>1 DEF Front
    <2>3. front \in Seq(Batch) /\ Len(front) = n /\ \A i \in 1 .. n : front[i] = queue[i]
      <3>1. \A i \in 1 .. n : queue[i] \in Batch
        BY <2>1, <2>2, BatchType
      <3> QED BY <2>1, <2>2, <3>1, SubSeqProperties
    <2> HIDE DEF front
    <2>4. \A i \in 1 .. n : front[i] = pipeline[i]
      BY <2>1, <2>3 DEF Front
    <2>5. front = pipeline
      BY <2>1, <2>3, <2>4, SeqEqual
    <2> QED BY <2>2, <2>5 DEF PipelineIsFront, front
  <1> QED BY <1>1, Invariance, PTL

\* OnMutationResult takes the first batch for the one that was answered:
\* what a call carries, in order, is the pipeline.
THEOREM OrderedAnswers == Spec => []AnswersAreInOrder
  <1>1. Inv => AnswersAreInOrder
    <2> SUFFICES ASSUME Inv, handshake PROVE AnswersAreInOrder
      BY DEF AnswersAreInOrder
    <2> DEFINE exp   == Contents(pipeline)
               ins   == call.in
               outs  == call.out
               under == ins \o outs
               acked == SubSeq(exp, 1, Len(ins))
    <2>1. /\ pipeline \in Seq(Batch) /\ call \in Calls /\ call.status # "none"
          /\ Matches(call, exp)
      BY StreamFacts DEF Inv, Streaming, Expected
    <2>2. /\ exp \in Seq(Writes) /\ exp \in Seq(Messages) /\ Len(exp) = Len(pipeline)
          /\ Len(exp) \in Nat
      <3>1. exp \in Seq(Writes) /\ Len(exp) = Len(pipeline)
        BY <2>1, ContentsType
      <3> QED BY <3>1 DEF Messages
    <2>3. /\ ins \in Seq(Messages) /\ outs \in Seq(Messages)
          /\ Len(ins) \in Nat /\ Len(outs) \in Nat
      BY <2>1 DEF Calls
    <2>4. /\ Len(ins) <= Len(exp) /\ \A i \in 1 .. Len(ins) : ins[i] = exp[i]
          /\ call.status = "live" => /\ Len(ins) + Len(outs) = Len(exp)
                                     /\ \A i \in 1 .. Len(outs) : outs[i] = exp[Len(ins) + i]
      BY <2>1 DEF Matches
    <2> HIDE DEF exp, ins, outs
    <2>5. /\ acked \in Seq(Messages) /\ Len(acked) = Len(ins)
          /\ \A i \in 1 .. Len(ins) : acked[i] = exp[i]
      <3>1. \A i \in 1 .. Len(ins) : exp[i] \in Messages
        BY <2>2, <2>3, <2>4
      <3> QED BY <2>2, <2>3, <2>4, <3>1, SubSeqProperties
    <2>6. /\ under \in Seq(Messages) /\ Len(under) = Len(ins) + Len(outs)
          /\ \A i \in 1 .. Len(ins) + Len(outs) :
                under[i] = IF i <= Len(ins) THEN ins[i] ELSE outs[i - Len(ins)]
      BY <2>3, ConcatProperties
    <2> HIDE DEF under, acked
    <2>7. ins = acked
      BY <2>3, <2>4, <2>5, SeqEqual
    <2>8. ASSUME call.status = "live" PROVE under = exp
      <3>1. ASSUME NEW i \in 1 .. Len(ins) + Len(outs)
            PROVE  under[i] = exp[i]
        <4>1. CASE i <= Len(ins)
          BY <2>3, <2>4, <2>6, <4>1
        <4>2. CASE ~ (i <= Len(ins))
          <5>1. i - Len(ins) \in 1 .. Len(outs) /\ Len(ins) + (i - Len(ins)) = i
            BY <2>3, <4>2
          <5> QED BY <2>4, <2>6, <2>8, <4>2, <5>1
        <4> QED BY <4>1, <4>2
      <3> QED BY <2>2, <2>4, <2>6, <2>8, <3>1, SeqEqual
    <2> QED BY <2>2, <2>4, <2>7, <2>8 DEF AnswersAreInOrder, exp, ins, outs, under, acked
  <1> QED BY <1>1, Invariance, PTL

\* NotifyUser finds the completion of the write that was answered, never
\* that of another one, though ids are given out again.
THEOREM CompletionsMatch == Spec => []CallbacksMatch
  <1>1. Inv => CallbacksMatch
    BY DEF Inv, Queued
  <1> QED BY <1>1, Invariance, PTL

\* A batch leaves the queue on disk only when the backend has decided it.
THEOREM WritesSurvive == Spec => []NothingIsLost
  <1>1. Inv => NothingIsLost
    BY DEF Inv, Queued
  <1> QED BY <1>1, Invariance, PTL

\* The asserts of Stream and RemoteStore hold.
THEOREM StreamIsInStep == Spec => []StreamInStep
  <1>1. Inv => StreamInStep
    BY StreamFacts DEF Inv, Streaming, StreamInStep
  <1> QED BY <1>1, Invariance, PTL

-----------------------------------------------------------------------------
(* The refinement of WriteQueue.                                           *)

\* Who issued what is in the queues, and that it is there once; what has an
\* outcome or is decided has been issued.
Authored ==
    /\ outcome \in [Writes -> {"none", "ok", "error"}]
    /\ \A u \in Users : \A k \in DOMAIN mutations[u] : author[mutations[u][k].write] = u
    /\ \A u \in Users : \A j, k \in DOMAIN mutations[u] :
          mutations[u][j].write = mutations[u][k].write => j = k
    /\ \A w \in Writes : outcome[w] # "none" \/ Decided(w) => author[w] # NoOne

Waiting  == [u \in Users |-> Contents(mutations[u])]
Promised == {cb.write : cb \in callbacks}

-----------------------------------------------------------------------------
(* What the queues of batches are as queues of writes.                     *)

LEMMA ContentsOfTail ==
    ASSUME NEW queue \in Seq(Batch), queue # <<>>
    PROVE  /\ Contents(queue) # <<>>
           /\ Head(Contents(queue)) = queue[1].write
           /\ Tail(Contents(queue)) = Contents(Tail(queue))
  <1> DEFINE all  == Contents(queue)
             rest == Contents(Tail(queue))
  <1>1. /\ Tail(queue) \in Seq(Batch) /\ Len(queue) \in Nat /\ Len(queue) > 0
        /\ Len(Tail(queue)) = Len(queue) - 1
        /\ \A i \in 1 .. Len(queue) - 1 : Tail(queue)[i] = queue[i + 1]
    BY TailType
  <1>2. /\ all \in Seq(Writes) /\ Len(all) = Len(queue)
        /\ \A i \in 1 .. Len(queue) : all[i] = queue[i].write
    BY ContentsType
  <1>3. /\ rest \in Seq(Writes) /\ Len(rest) = Len(queue) - 1
        /\ \A i \in 1 .. Len(queue) - 1 : rest[i] = Tail(queue)[i].write
    BY <1>1, ContentsType
  <1> HIDE DEF all, rest
  <1>4. all # <<>>
    BY <1>1, <1>2
  <1>5. /\ Tail(all) \in Seq(Writes) /\ Len(Tail(all)) = Len(queue) - 1
        /\ \A i \in 1 .. Len(queue) - 1 : Tail(all)[i] = all[i + 1]
        /\ Head(all) = all[1]
    BY <1>2, <1>4, TailType
  <1>6. ASSUME NEW i \in 1 .. Len(queue) - 1
        PROVE  Tail(all)[i] = rest[i]
    <2>1. i + 1 \in 1 .. Len(queue)
      BY <1>1
    <2> QED BY <1>1, <1>2, <1>3, <1>5, <2>1
  <1>7. Tail(all) = rest
    BY <1>3, <1>5, <1>6, SeqEqual
  <1>8. Head(all) = queue[1].write
    BY <1>1, <1>2, <1>5
  <1> QED BY <1>4, <1>7, <1>8 DEF all, rest

LEMMA ContentsOfAppend ==
    ASSUME NEW queue \in Seq(Batch), NEW batch \in Batch
    PROVE  Contents(Append(queue, batch)) = Append(Contents(queue), batch.write)
  <1> DEFINE more  == Append(queue, batch)
             all   == Contents(more)
             old   == Contents(queue)
             grown == Append(old, batch.write)
  <1>1. /\ more \in Seq(Batch) /\ Len(queue) \in Nat /\ Len(more) = Len(queue) + 1
        /\ \A i \in 1 .. Len(queue) : more[i] = queue[i]
        /\ more[Len(queue) + 1] = batch
    BY AppendProperties
  <1> HIDE DEF more
  <1>2. /\ all \in Seq(Writes) /\ Len(all) = Len(queue) + 1
        /\ \A i \in 1 .. Len(queue) + 1 : all[i] = more[i].write
    BY <1>1, ContentsType
  <1>3. /\ old \in Seq(Writes) /\ Len(old) = Len(queue)
        /\ \A i \in 1 .. Len(queue) : old[i] = queue[i].write
    BY ContentsType
  <1>4. batch.write \in Writes
    BY DEF Batch
  <1> HIDE DEF all, old
  <1>5. /\ grown \in Seq(Writes) /\ Len(grown) = Len(queue) + 1
        /\ \A i \in 1 .. Len(queue) : grown[i] = old[i]
        /\ grown[Len(queue) + 1] = batch.write
    BY <1>3, <1>4, AppendProperties
  <1> HIDE DEF grown
  <1>6. ASSUME NEW i \in 1 .. Len(queue) + 1
        PROVE  all[i] = grown[i]
    <2>1. CASE i \in 1 .. Len(queue)
      BY <1>1, <1>2, <1>3, <1>5, <2>1
    <2>2. CASE i = Len(queue) + 1
      BY <1>1, <1>2, <1>5, <2>2
    <2> QED BY <1>1, <2>1, <2>2
  <1>7. all = grown
    BY <1>2, <1>5, <1>6, SeqEqual
  <1> QED BY <1>7 DEF all, grown, old, more

\* The queue of a user as the app sees it.
LEMMA WaitingType ==
    ASSUME Inv, NEW u \in Users
    PROVE  /\ mutations[u] \in Seq(Batch) /\ Waiting[u] = Contents(mutations[u])
           /\ Waiting[u] \in Seq(Writes) /\ Len(Waiting[u]) = Len(mutations[u])
           /\ \A k \in 1 .. Len(mutations[u]) : Waiting[u][k] = mutations[u][k].write
  <1>1. mutations[u] \in Seq(Batch)
    BY DEF Inv, Queued
  <1> QED BY <1>1, ContentsType DEF Waiting

-----------------------------------------------------------------------------
(* The steps.                                                              *)

\* A new write goes to the end of its author's queue.
LEMMA SubmitStep ==
    ASSUME Inv, Authored, NEW w \in Writes, WriteMutations(w)
    PROVE  Authored' /\ Queue!Submit(user, w)
  <1> DEFINE queue == mutations[user]
             batch == [id |-> nextId, write |-> w]
             more  == Append(queue, batch)
  <1>1. /\ author[w] = NoOne /\ author' = [author EXCEPT ![w] = user]
        /\ mutations' = [mutations EXCEPT ![user] = more]
        /\ UNCHANGED <<outcome, committed, rejected>>
    BY DEF WriteMutations, backend
  <1>2. callbacks' = callbacks \cup {[user |-> user, id |-> nextId, write |-> w]}
    BY NewCallback
  <1>3. /\ user \in Users /\ queue \in Seq(Batch) /\ batch \in Batch
        /\ mutations \in [Users -> Seq(Batch)] /\ author \in [Writes -> Users \cup {NoOne}]
    BY DEF Inv, Queued, Batch
  <1>4. NoOne \notin Users
    BY PipelineConstants DEF PipelineConstants
  <1>5. \A u \in Users : \A k \in DOMAIN mutations[u] :
            mutations[u][k].write # w /\ mutations[u][k].write \in Writes
    <2> SUFFICES ASSUME NEW u \in Users, NEW k \in DOMAIN mutations[u]
                 PROVE  mutations[u][k].write # w /\ mutations[u][k].write \in Writes
      OBVIOUS
    <2>1. mutations[u] \in Seq(Batch) /\ k \in 1 .. Len(mutations[u])
      BY <1>3
    <2> QED BY <1>1, <1>4, <2>1, BatchType DEF Authored
  <1>6. /\ Len(queue) \in Nat /\ DOMAIN queue = 1 .. Len(queue)
        /\ more \in Seq(Batch) /\ DOMAIN more = 1 .. Len(queue) + 1
        /\ \A k \in 1 .. Len(queue) : more[k] = queue[k]
        /\ more[Len(queue) + 1] = batch
    <2> HIDE DEF queue, batch
    <2> QED BY <1>3, AppendProperties
  <1>7. /\ mutations'[user] = more
        /\ \A u \in Users \ {user} : mutations'[u] = mutations[u]
    BY <1>1, <1>3
  <1> HIDE DEF more
  <1>8. \A k \in DOMAIN more : \/ k \in DOMAIN queue /\ more[k] = queue[k]
                               \/ k = Len(queue) + 1 /\ more[k].write = w
    BY <1>6
  <1>9. Authored'
    <2>1. ASSUME NEW u \in Users, NEW k \in DOMAIN mutations'[u]
          PROVE  author'[mutations'[u][k].write] = u
      <3>1. CASE u # user
        BY <1>1, <1>3, <1>5, <1>7, <3>1 DEF Authored
      <3>2. CASE u = user /\ k \in DOMAIN queue /\ more[k] = queue[k]
        BY <1>1, <1>3, <1>5, <1>7, <3>2 DEF Authored
      <3>3. CASE u = user /\ more[k].write = w
        BY <1>1, <1>3, <1>7, <3>3
      <3> QED BY <1>7, <1>8, <3>1, <3>2, <3>3
    <2>2. ASSUME NEW u \in Users, NEW j \in DOMAIN mutations'[u], NEW k \in DOMAIN mutations'[u],
                 mutations'[u][j].write = mutations'[u][k].write
          PROVE  j = k
      <3>1. CASE u # user
        BY <1>7, <2>2, <3>1 DEF Authored
      <3>2. CASE u = user
        <4>1. j \in DOMAIN more /\ k \in DOMAIN more /\ more[j].write = more[k].write
          BY <1>7, <2>2, <3>2
        <4>2. CASE j \in DOMAIN queue /\ more[j] = queue[j] /\ k \in DOMAIN queue /\ more[k] = queue[k]
          BY <1>3, <4>1, <4>2 DEF Authored
        <4>3. CASE j = Len(queue) + 1 /\ more[j].write = w
          BY <1>3, <1>5, <1>8, <4>1, <4>3
        <4>4. CASE k = Len(queue) + 1 /\ more[k].write = w
          BY <1>3, <1>5, <1>8, <4>1, <4>4
        <4> QED BY <1>8, <4>1, <4>2, <4>3, <4>4
      <3> QED BY <3>1, <3>2
    <2>3. ASSUME NEW v \in Writes, outcome[v] # "none" \/ Decided(v)
          PROVE  author'[v] # NoOne
      BY <1>1, <1>3, <1>4, <2>3 DEF Authored
    <2> QED BY <1>1, <2>1, <2>2, <2>3 DEF Authored, Decided
  <1>10. Waiting' = [Waiting EXCEPT ![user] = Append(Waiting[user], w)]
    <2>1. Contents(more) = Append(Contents(queue), w)
      BY <1>3, ContentsOfAppend DEF more
    <2>2. \A u \in Users : Waiting'[u] = Contents(mutations'[u]) /\ Waiting[u] = Contents(mutations[u])
      BY DEF Waiting
    <2>3. \A u \in Users : Waiting'[u] = IF u = user THEN Append(Waiting[user], w) ELSE Waiting[u]
      BY <1>3, <1>7, <2>1, <2>2
    <2> QED BY <1>3, <2>3 DEF Waiting
  <1>11. Promised' = Promised \cup {w}
    <2> DEFINE new == [user |-> user, id |-> nextId, write |-> w]
    <2>1. new.write = w
      OBVIOUS
    <2> HIDE DEF new
    <2>2. Promised' = {cb.write : cb \in callbacks \cup {new}}
      BY <1>2 DEF Promised, new
    <2> QED BY <2>1, <2>2 DEF Promised
  <1>12. /\ outcome[w] = "none" /\ ~ Decided(w)
         /\ \A u \in Users : \A k \in 1 .. Len(Waiting[u]) : Waiting[u][k] # w
    <2>1. ASSUME NEW u \in Users, NEW k \in 1 .. Len(Waiting[u])
          PROVE  Waiting[u][k] # w
      BY <1>5, WaitingType
    <2> QED BY <1>1, <2>1 DEF Authored
  <1> QED BY <1>1, <1>9, <1>10, <1>11, <1>12
          DEF Queue!Submit, Queue!Fresh, Queue!Decided, Decided, Waiting, Promised

\* An answer takes the first write of the queue away and runs its completion.
LEMMA SettleQueueStep ==
    ASSUME Inv, Authored, pipeline # <<>>, NEW answer \in {"ok", "error"},
           Decided(Head(pipeline).write),
           answer = "ok" => Head(pipeline).write \in committed,
           Settle(Head(pipeline), answer), UNCHANGED backend
    PROVE  Authored' /\ Queue!Settle(user, answer)
  <1> DEFINE queue == mutations[user]
             first == queue[1]
             mine  == {cb \in callbacks : cb.user = user /\ cb.id = first.id}
             rest  == Tail(queue)
             w     == first.write
  <1>1. /\ Head(pipeline) = first
        /\ user \in Users /\ queue \in Seq(Batch) /\ Sorted(queue) /\ queue # <<>>
        /\ callbacks' = callbacks \ mine
        /\ mutations' = [mutations EXCEPT ![user] = rest]
        /\ outcome' = [v \in Writes |-> IF \E cb \in mine : cb.write = v THEN answer ELSE outcome[v]]
        /\ UNCHANGED <<author, committed, rejected>>
    BY SettledQueue DEF backend
  <1>2. /\ rest \in Seq(Batch) /\ Len(rest) = Len(queue) - 1 /\ Len(queue) \in Nat /\ Len(queue) > 0
        /\ \A i \in 1 .. Len(queue) - 1 : rest[i] = queue[i + 1]
        /\ DOMAIN queue = 1 .. Len(queue)
    BY <1>1, TailType
  <1>3. 1 \in DOMAIN queue /\ w \in Writes /\ author[w] = user
    BY <1>1, <1>2, BatchType DEF Authored
  <1>4. mutations \in [Users -> Seq(Batch)]
    BY DEF Inv, Queued
  <1>5. /\ mutations'[user] = rest
        /\ \A u \in Users \ {user} : mutations'[u] = mutations[u]
    BY <1>1, <1>4
  <1>6. \A k \in DOMAIN rest : k + 1 \in DOMAIN queue /\ rest[k] = queue[k + 1] /\ k \in Nat
    <2>1. DOMAIN rest = 1 .. Len(queue) - 1
      BY <1>2
    <2> QED BY <1>2, <2>1
  <1> HIDE DEF rest, queue
  <1>7. \A cb \in callbacks : cb \in mine <=> cb.write = w
    <2> SUFFICES ASSUME NEW cb \in callbacks PROVE cb \in mine <=> cb.write = w
      OBVIOUS
    <2>1. cb.user \in Users
      BY DEF Inv, Queued
    <2>2. PICK k \in DOMAIN mutations[cb.user] :
              mutations[cb.user][k] = [id |-> cb.id, write |-> cb.write]
      BY DEF Inv, Queued, CallbacksMatch
    <2>3. mutations[cb.user][k].id = cb.id /\ mutations[cb.user][k].write = cb.write
      BY <2>2
    <2>4. ASSUME cb \in mine PROVE cb.write = w
      <3>1. k \in 1 .. Len(queue) /\ queue[k].id = queue[1].id
        BY <1>2, <2>2, <2>3, <2>4 DEF queue
      <3>2. queue[1].id \in Nat /\ (1 < k => queue[1].id < queue[k].id)
        BY <1>1, <1>2, <1>3, <3>1, BatchType DEF Sorted
      <3>3. k = 1
        BY <1>2, <3>1, <3>2
      <3> QED BY <2>3, <2>4, <3>3 DEF queue
    <2>5. ASSUME cb.write = w PROVE cb \in mine
      <3>1. cb.user = user
        BY <1>3, <2>1, <2>2, <2>3, <2>5 DEF Authored
      <3>2. k = 1
        BY <1>1, <1>3, <2>2, <2>3, <2>5, <3>1 DEF Authored, queue
      <3> QED BY <2>3, <3>1, <3>2 DEF queue
    <2> QED BY <2>4, <2>5
  <1>8. Promised' = Promised \ {w}
    BY <1>1, <1>7 DEF Promised
  <1>9. outcome' = IF w \in Promised THEN [outcome EXCEPT ![w] = answer] ELSE outcome
    <2>1. \A v \in Writes : (\E cb \in mine : cb.write = v) <=> v = w /\ w \in Promised
      BY <1>7 DEF Promised
    <2>2. \A v \in Writes : outcome'[v] = IF v = w /\ w \in Promised THEN answer ELSE outcome[v]
      BY <1>1, <2>1
    <2>3. outcome' = [v \in Writes |-> outcome'[v]] /\ outcome \in [Writes -> {"none", "ok", "error"}]
      BY <1>1 DEF Authored
    <2> QED BY <1>3, <2>2, <2>3
  <1>10. Waiting' = [Waiting EXCEPT ![user] = Tail(Waiting[user])]
    <2>1. Contents(rest) = Tail(Contents(queue))
      BY <1>1, ContentsOfTail DEF rest
    <2>2. \A u \in Users : Waiting'[u] = Contents(mutations'[u]) /\ Waiting[u] = Contents(mutations[u])
      BY DEF Waiting
    <2>3. \A u \in Users : Waiting'[u] = IF u = user THEN Tail(Waiting[user]) ELSE Waiting[u]
      BY <1>1, <1>5, <2>1, <2>2, ZenonT(60) DEF queue
    <2> QED BY <1>1, <2>3 DEF Waiting
  <1>11. Waiting[user] # <<>> /\ Head(Waiting[user]) = w
    BY <1>1, ContentsOfTail DEF Waiting, queue
  <1>12. Authored'
    <2>1. ASSUME NEW u \in Users, NEW k \in DOMAIN mutations'[u]
          PROVE  author'[mutations'[u][k].write] = u
      <3>1. CASE u # user
        BY <1>1, <1>5, <3>1 DEF Authored
      <3>2. CASE u = user
        <4>1. k + 1 \in DOMAIN mutations[user] /\ mutations'[u][k] = mutations[user][k + 1]
          BY <1>5, <1>6, <3>2 DEF queue
        <4> QED BY <1>1, <3>2, <4>1 DEF Authored
      <3> QED BY <3>1, <3>2
    <2>2. ASSUME NEW u \in Users, NEW j \in DOMAIN mutations'[u], NEW k \in DOMAIN mutations'[u],
                 mutations'[u][j].write = mutations'[u][k].write
          PROVE  j = k
      <3>1. CASE u # user
        BY <1>5, <2>2, <3>1 DEF Authored
      <3>2. CASE u = user
        <4>1. /\ j + 1 \in DOMAIN queue /\ k + 1 \in DOMAIN queue /\ j \in Nat /\ k \in Nat
              /\ queue[j + 1].write = queue[k + 1].write
          BY <1>5, <1>6, <2>2, <3>2
        <4>2. j + 1 = k + 1
          BY <1>1, <4>1 DEF Authored, queue
        <4> QED BY <4>1, <4>2
      <3> QED BY <3>1, <3>2
    <2>3. ASSUME NEW v \in Writes, outcome'[v] # "none" \/ Decided(v)
          PROVE  author[v] # NoOne
      <3>1. CASE v = w
        BY <1>1, <1>3, <3>1, PipelineConstants DEF PipelineConstants
      <3>2. CASE v # w
        <4>1. outcome'[v] = outcome[v]
          BY <1>9, <3>2 DEF Authored
        <4> QED BY <2>3, <4>1 DEF Authored
      <3> QED BY <3>1, <3>2
    <2>4. outcome' \in [Writes -> {"none", "ok", "error"}]
      BY <1>1 DEF Authored
    <2> QED BY <1>1, <2>1, <2>2, <2>3, <2>4 DEF Authored, Decided
  <1> QED BY <1>1, <1>8, <1>9, <1>10, <1>11, <1>12
          DEF Queue!Settle, Queue!Decided, Decided, Waiting, Promised

\* The backend decides a write that all of its queue is decided in front of.
LEMMA DecideStep ==
    ASSUME Inv, Authored, NEW w \in Writes, Reads(w), UNCHANGED local,
           \/ committed' = committed \cup {w} /\ UNCHANGED rejected
           \/ rejected' = rejected \cup {w} /\ UNCHANGED committed
    PROVE  /\ Authored'
           /\ \E k \in 1 .. Len(Waiting[user]) : Queue!Decide(user, k)
  <1> DEFINE n     == Len(call.in)
             queue == mutations[user]
  <1>1. /\ handshake /\ w = pipeline[n + 1].write /\ n < Len(pipeline)
    BY PipelineConstants, ReadsInPhase DEF Inv, PipelineConstants
  <1>2. /\ user \in Users /\ pipeline \in Seq(Batch) /\ call \in Calls /\ call.status = "live"
        /\ Front(pipeline, queue) /\ Matches(call, Contents(pipeline))
        /\ AnswersAreTrue(call, handshake, pipeline, committed, rejected)
    BY <1>1 DEF Inv, Queued, Streaming, Expected, Reads
  <1>3. /\ n \in Nat /\ Len(pipeline) \in Nat /\ Len(pipeline) <= Len(queue) /\ Len(queue) \in Nat
        /\ \A k \in 1 .. Len(pipeline) : pipeline[k] = queue[k]
        /\ \A k \in 1 .. n : call.in[k] = Contents(pipeline)[k]
        /\ \A k \in 1 .. n : call.in[k] \in committed \cup {Handshake}
    <2>1. n \in Nat /\ Len(pipeline) \in Nat /\ Len(queue) \in Nat
      BY <1>2, WaitingType DEF Calls
    <2> QED BY <1>2, <2>1 DEF Front, Matches, AnswersAreTrue
  <1>4. /\ Len(Waiting[user]) = Len(queue)
        /\ \A k \in 1 .. Len(queue) : Waiting[user][k] = queue[k].write
    BY <1>2, WaitingType
  <1> HIDE DEF n, queue
  <1>5. n + 1 \in 1 .. Len(Waiting[user]) /\ Waiting[user][n + 1] = w
    <2>1. n + 1 \in 1 .. Len(pipeline) /\ n + 1 \in 1 .. Len(queue)
      BY <1>1, <1>3
    <2> QED BY <1>1, <1>3, <1>4, <2>1
  <1>6. \A j \in 1 .. n : Decided(Waiting[user][j])
    <2> SUFFICES ASSUME NEW j \in 1 .. n PROVE Waiting[user][j] \in committed
      BY DEF Decided
    <2>1. j \in 1 .. Len(pipeline) /\ j \in 1 .. Len(queue)
      BY <1>1, <1>3
    <2>2. Contents(pipeline)[j] = pipeline[j].write /\ pipeline[j].write \in Writes
      BY <1>2, <2>1, ContentsType, BatchType
    <2>3. call.in[j] = Waiting[user][j]
      BY <1>3, <1>4, <2>1, <2>2
    <2> QED BY <1>3, <2>2, <2>3, PipelineConstants DEF PipelineConstants
  <1>7. author[w] # NoOne
    <2>1. n + 1 \in DOMAIN queue /\ queue[n + 1].write = w
      <3>1. queue \in Seq(Batch)
        BY <1>2, WaitingType DEF queue
      <3> QED BY <1>4, <1>5, <3>1
    <2> QED BY <1>2, <2>1, PipelineConstants DEF Authored, PipelineConstants, queue
  <1>8. Authored'
    <2>1. UNCHANGED <<mutations, author, outcome>>
      BY DEF local
    <2>2. ASSUME NEW v \in Writes, outcome[v] # "none" \/ Decided(v)'
          PROVE  author[v] # NoOne
      BY <1>7, <2>2 DEF Authored, Decided
    <2> QED BY <2>1, <2>2 DEF Authored
  <1>9. UNCHANGED <<Waiting, Promised, outcome>>
    BY DEF local, Waiting, Promised
  <1>10. Queue!Decide(user, n + 1)
    <2>1. \A j \in 1 .. (n + 1) - 1 : Decided(Waiting[user][j])
      BY <1>3, <1>6
    <2> QED BY <1>5, <1>9, <2>1 DEF Queue!Decide, Queue!Decided, Decided, Waiting, Promised
  <1> QED BY <1>5, <1>8, <1>10

\* Steps that the app does not see.
LEMMA UnseenStep ==
    ASSUME Authored, UNCHANGED <<mutations, callbacks, author, outcome, backend>>
    PROVE  Authored' /\ UNCHANGED Queue!vars
  <1>1. UNCHANGED <<committed, rejected>>
    BY DEF backend
  <1>2. Authored'
    BY <1>1 DEF Authored, Decided
  <1> QED BY <1>1, <1>2 DEF Queue!vars

LEMMA ForgetStep ==
    ASSUME Authored, Relaunch
    PROVE  Authored' /\ Queue!Forget
  <1>1. callbacks' = {} /\ UNCHANGED <<mutations, author, outcome, committed, rejected>>
    BY DEF Relaunch, backend
  <1>2. Authored'
    BY <1>1 DEF Authored, Decided
  <1> QED BY <1>1, <1>2 DEF Queue!Forget

-----------------------------------------------------------------------------
(* The implementation.                                                     *)

LEMMA InitImplements ==
    ASSUME Init
    PROVE  Authored /\ Queue!Init
  <1>1. Contents(<<>>) = <<>>
    BY DEF Contents
  <1>2. \A u \in Users : mutations[u] = <<>>
    BY DEF Init
  <1>3. [u \in Users |-> Contents(mutations[u])] = [u \in Users |-> <<>>]
    BY <1>1, <1>2
  <1>4. {cb.write : cb \in callbacks} = {}
    BY DEF Init
  <1>5. Authored
    BY <1>2 DEF Init, Authored, Decided
  <1> QED BY <1>3, <1>4, <1>5 DEF Init, Queue!Init

LEMMA StepImplements ==
    ASSUME Inv, Authored, [Next]_vars
    PROVE  Authored' /\ [Queue!Next]_(Queue!vars)
  <1>1. user \in Users
    BY DEF Inv, Queued
  <1>2. CASE UNCHANGED vars
    BY <1>2, UnseenStep DEF vars, backend
  <1>3. CASE BackoffElapsed
    BY <1>3, UnseenStep DEF BackoffElapsed, local
  <1>4. CASE OnHandshakeComplete
    BY <1>4, UnseenStep DEF OnHandshakeComplete, local
  <1>5. CASE OnMutationResult
    <2>1. /\ Settle(Head(pipeline), "ok") /\ UNCHANGED backend
          /\ pipeline # <<>> /\ Head(pipeline).write \in committed
      BY <1>5, PipelineConstants, FirstAnswer DEF OnMutationResult, CanRead, Inv
    <2>2. Authored' /\ Queue!Settle(user, "ok")
      BY <2>1, SettleQueueStep DEF Decided
    <2> QED BY <1>1, <2>2 DEF Queue!Next
  <1>6. CASE OnStreamFinish
    <2>1. Finish(call.status) /\ UNCHANGED backend
      BY <1>6 DEF OnStreamFinish, Finish
    <2>2. CASE handshake /\ call.status = "permanent" /\ pipeline # <<>>
      <3>1. Settle(Head(pipeline), "error") /\ Decided(Head(pipeline).write)
        BY <2>1, <2>2, PipelineConstants, FirstDecided DEF Finish, Inv
      <3>2. Authored' /\ Queue!Settle(user, "error")
        BY <2>1, <2>2, <3>1, SettleQueueStep
      <3> QED BY <1>1, <3>2 DEF Queue!Next
    <2>3. CASE ~ (handshake /\ call.status = "permanent" /\ pipeline # <<>>)
      BY <2>1, <2>3, UnseenStep DEF Finish, local
    <2> QED BY <2>2, <2>3
  <1>7. CASE \E c \in tokens : TokenStale(c) \/ TokenReady(c) \/ TokenFailed(c)
    BY <1>7, UnseenStep DEF TokenStale, TokenReady, TokenFailed, local
  <1>8. CASE AnswerHandshake \/ RefuseHandshake \/ Break \/ WriteFails
    BY <1>8, UnseenStep DEF AnswerHandshake, RefuseHandshake, Break, WriteFails, Client, local
  <1>9. ASSUME NEW w \in Writes, Commit(w) \/ Reject(w)
        PROVE  Authored' /\ Queue!Next
    <2>1. /\ Reads(w) /\ UNCHANGED local
          /\ \/ committed' = committed \cup {w} /\ UNCHANGED rejected
             \/ rejected' = rejected \cup {w} /\ UNCHANGED committed
      BY <1>9 DEF Commit, Reject, Client
    <2>2. Authored' /\ \E k \in 1 .. Len(Waiting[user]) : Queue!Decide(user, k)
      BY <2>1, DecideStep
    <2> QED BY <1>1, <2>2 DEF Queue!Next, Waiting
  <1>10. ASSUME NEW w \in Writes, WriteMutations(w)
         PROVE  Authored' /\ Queue!Next
    BY <1>1, <1>10, SubmitStep DEF Queue!Next
  <1>11. CASE \E u \in Users : HandleCredentialChange(u)
    BY <1>11, UnseenStep DEF HandleCredentialChange
  <1>12. CASE IdleTimeout
    BY <1>12, UnseenStep DEF IdleTimeout, local
  <1>13. CASE Relaunch
    BY <1>13, ForgetStep DEF Queue!Next
  <1> QED BY <1>2, <1>3, <1>4, <1>5, <1>6, <1>7, <1>8, <1>9, <1>10, <1>11, <1>12, <1>13
          DEF Next, Library, Server

\* Each user's writes are decided in the order of his queue and leave it one
\* by one, whatever happens to the streams that carry them.
THEOREM PipelineImplementsQueue == Spec => ImplementsQueue
  <1>1. Init => Authored /\ Queue!Init
    BY InitImplements
  <1>2. Inv /\ Authored /\ [Next]_vars => Authored' /\ [Queue!Next]_(Queue!vars)
    BY StepImplements
  <1> QED BY <1>1, <1>2, Invariance, PTL DEF Spec, ImplementsQueue, Queue!Spec

-----------------------------------------------------------------------------
(***************************************************************************)
(* Types.  Ids are given out again after a relaunch and after a change of  *)
(* user, never more of them than there are writes: the next one counts at  *)
(* most the writes that were issued.                                       *)
(***************************************************************************)
Issued == {w \in Writes : author[w] # NoOne}

Counted == nextId <= Cardinality(Issued) + 1

\* What no step of the client looks at.
Recorded ==
    /\ committed \subseteq Writes /\ rejected \subseteq Writes
    /\ faults \in 0 .. MaxFaults

LEMMA IssuedFinite ==
    ASSUME PipelineConstants
    PROVE  /\ IsFiniteSet(Issued)
           /\ Cardinality(Issued) \in Nat /\ Cardinality(Writes) \in Nat
           /\ Cardinality(Issued) <= Cardinality(Writes)
  <1>1. IsFiniteSet(Writes) /\ Issued \in SUBSET Writes
    BY DEF PipelineConstants, Issued
  <1> HIDE DEF Issued
  <1>2. IsFiniteSet(Issued) /\ Cardinality(Issued) <= Cardinality(Writes)
    BY <1>1, FS_Subset
  <1> QED BY <1>1, <1>2, FS_CardinalityType

\* An id that is found on disk was given before.
LEMMA NextIdFalls ==
    ASSUME Queued, NEW n \in Nat, IsNextId(n, mutations)
    PROVE  n <= nextId
  <1>1. nextId \in Nat /\ nextId > 0
    BY DEF Queued
  <1>2. CASE n = 1
    BY <1>1, <1>2
  <1>3. CASE \E u \in Users : n - 1 \in Ids(mutations[u])
    <2>1. \A u \in Users : \A id \in Ids(mutations[u]) : id < nextId
      BY DEF Ids, Queued, IdsInOrder
    <2>2. n - 1 < nextId
      BY <1>3, <2>1
    <2> QED BY <1>1, <2>2
  <1> QED BY <1>2, <1>3 DEF IsNextId

LEMMA CountedStep ==
    ASSUME PipelineConstants, Inv, Counted, [Next]_vars
    PROVE  Counted'
  <1>1. CASE UNCHANGED <<nextId, author>>
    BY <1>1 DEF Counted, Issued
  <1>2. ASSUME NEW w \in Writes, WriteMutations(w)
        PROVE  Counted'
    <2>1. author[w] = NoOne /\ author' = [author EXCEPT ![w] = user] /\ nextId' = nextId + 1
      BY <1>2 DEF WriteMutations
    <2>2. author \in [Writes -> Users \cup {NoOne}] /\ user \in Users /\ user # NoOne
          /\ nextId \in Nat
      BY DEF Inv, Queued, PipelineConstants
    <2>3. Issued' = Issued \cup {w} /\ w \notin Issued
      BY <2>1, <2>2 DEF Issued
    <2>4. Cardinality(Issued') = Cardinality(Issued) + 1 /\ Cardinality(Issued) \in Nat
      BY <2>3, IssuedFinite, FS_AddElement
    <2> QED BY <2>1, <2>2, <2>4 DEF Counted
  <1>3. CASE Relaunch \/ \E u \in Users : HandleCredentialChange(u)
    <2>1. /\ nextId' \in 1 .. Cardinality(Writes) + 1 /\ author' = author
          /\ nextId' = nextId \/ IsNextId(nextId', mutations)
      BY <1>3 DEF Relaunch, HandleCredentialChange
    <2>2. nextId' \in Nat
      BY <2>1, IssuedFinite
    <2>3. nextId' <= nextId /\ nextId \in Nat
      <3>1. nextId \in Nat
        BY DEF Inv, Queued
      <3>2. CASE nextId' = nextId
        BY <3>1, <3>2
      <3>3. CASE IsNextId(nextId', mutations)
        BY <2>2, <3>1, <3>3, NextIdFalls DEF Inv
      <3> QED BY <2>1, <3>1, <3>2, <3>3
    <2>4. Issued' = Issued /\ Cardinality(Issued) \in Nat
      BY <2>1, IssuedFinite DEF Issued
    <2> QED BY <2>2, <2>3, <2>4 DEF Counted
  <1>4. CASE OnMutationResult \/ OnStreamFinish
    BY <1>1, <1>4 DEF OnMutationResult, OnStreamFinish, Finish, Settle, local
  <1> QED BY <1>1, <1>2, <1>3, <1>4
          DEF Next, vars, local, Client, Library, Server, BackoffElapsed, OnHandshakeComplete,
              TokenStale, TokenReady, TokenFailed, IdleTimeout, AnswerHandshake, Commit, Reject,
              RefuseHandshake, Break, WriteFails

LEMMA RecordedStep ==
    ASSUME PipelineConstants, Recorded, [Next]_vars
    PROVE  Recorded'
  <1>1. committed' \subseteq Writes /\ rejected' \subseteq Writes
    BY DEF Recorded, Next, vars, backend, Client, Library, Server, BackoffElapsed,
           OnHandshakeComplete, OnMutationResult, OnStreamFinish, Finish, TokenStale, TokenReady,
           TokenFailed, WriteMutations, HandleCredentialChange, IdleTimeout, Relaunch,
           AnswerHandshake, Commit, Reject, RefuseHandshake, Break, WriteFails
  <1>2. faults' = faults \/ Fault
    BY DEF Next, vars, Library, Server, BackoffElapsed,
           OnHandshakeComplete, OnMutationResult, OnStreamFinish, TokenStale, TokenReady,
           TokenFailed, WriteMutations, HandleCredentialChange, IdleTimeout, Relaunch,
           AnswerHandshake, Commit, Reject, RefuseHandshake, Break, WriteFails
  <1>3. faults' \in 0 .. MaxFaults
    BY <1>2 DEF Recorded, Fault, PipelineConstants
  <1> QED BY <1>1, <1>3 DEF Recorded

\* Batches whose ids were counted.
LEMMA CountedBatches ==
    ASSUME PipelineConstants, Inv, Counted, NEW u \in Users
    PROVE  mutations[u] \in Seq(Batches)
  <1> DEFINE queue == mutations[u]
             N     == Cardinality(Writes)
  <1>1. /\ queue \in Seq(Batch) /\ Sorted(queue) /\ nextId \in Nat
        /\ \A i \in DOMAIN queue : queue[i].id < nextId
    BY DEF Inv, Queued, IdsInOrder
  <1>2. nextId <= N + 1 /\ N \in Nat
    BY <1>1, IssuedFinite DEF Counted
  <1>3. Len(queue) \in Nat /\ DOMAIN queue = 1 .. Len(queue)
    BY <1>1, LenProperties
  <1>4. queue = [i \in 1 .. Len(queue) |-> queue[i]]
    BY <1>1
  <1> HIDE DEF queue, N
  <1>5. ASSUME NEW i \in 1 .. Len(queue)
        PROVE  queue[i] \in Batches
    <2>1. queue[i] \in Batch /\ queue[i].id \in Nat
      BY <1>1, BatchType
    <2>2. queue[i].id > 0 /\ queue[i].id < nextId
      BY <1>1, <1>3 DEF Sorted
    <2>3. queue[i].id \in 1 .. N
      BY <1>1, <1>2, <2>1, <2>2
    <2> QED BY <2>1, <2>3 DEF Batch, Batches, N
  <1>6. queue \in [1 .. Len(queue) -> Batches]
    BY <1>4, <1>5
  <1> QED BY <1>3, <1>6 DEF queue

\* Every state is well typed, and no queue, completion or pipeline ever holds
\* an id beyond the number of writes.
THEOREM PipelineTyped == Spec => []TypeOK
  <1>1. Init => Counted /\ Recorded /\ Authored
    <2> SUFFICES ASSUME Init PROVE Counted /\ Recorded /\ Authored
      OBVIOUS
    <2>1. Counted
      BY IssuedFinite, PipelineConstants DEF Init, Counted
    <2>2. Recorded
      BY PipelineConstants DEF Init, Recorded, PipelineConstants
    <2> QED BY <2>1, <2>2, InitImplements
  <1>2. Inv /\ Counted /\ Recorded /\ Authored /\ [Next]_vars
          => Counted' /\ Recorded' /\ Authored'
    BY CountedStep, RecordedStep, StepImplements, PipelineConstants
  <1>3. Inv /\ Counted /\ Recorded /\ Authored => TypeOK
    <2> SUFFICES ASSUME Inv, Counted, Recorded, Authored PROVE TypeOK
      OBVIOUS
    <2> DEFINE N == Cardinality(Writes)
    <2>1. \A u \in Users : mutations[u] \in Seq(Batches)
      BY CountedBatches, PipelineConstants
    <2>2. user \in Users /\ mutations \in [Users -> Seq(Batches)]
      BY <2>1 DEF Inv, Queued
    <2>3. nextId \in 1 .. N + 1
      BY IssuedFinite, PipelineConstants DEF Counted, Inv, Queued
    <2>4. ASSUME NEW cb \in callbacks
          PROVE  cb \in [user : Users, id : 1 .. N, write : Writes]
      <3>1. cb \in [user : Users, id : Nat, write : Writes] /\ cb.user \in Users
        BY DEF Inv, Queued
      <3>2. PICK k \in DOMAIN mutations[cb.user] :
                mutations[cb.user][k] = [id |-> cb.id, write |-> cb.write]
        BY DEF Inv, Queued, CallbacksMatch
      <3>3. mutations[cb.user][k] \in Batches
        BY <2>1, <3>1, LenProperties, ElementOfSeq
      <3>4. cb.id \in 1 .. N
        BY <3>2, <3>3 DEF Batches
      <3> HIDE DEF N
      <3> QED BY <3>1, <3>4
    <2>5. pipeline \in Seq(Batches)
      <3>1. /\ pipeline \in Seq(Batch) /\ Front(pipeline, mutations[user])
            /\ mutations[user] \in Seq(Batches)
        BY <2>1 DEF Inv, Streaming, Queued
      <3>2. Len(pipeline) \in Nat /\ Len(mutations[user]) \in Nat
            /\ Len(pipeline) <= Len(mutations[user])
        BY <3>1 DEF Front
      <3>3. \A i \in 1 .. Len(pipeline) : pipeline[i] \in Batches
        <4> SUFFICES ASSUME NEW i \in 1 .. Len(pipeline) PROVE pipeline[i] \in Batches
          OBVIOUS
        <4>1. i \in 1 .. Len(mutations[user]) /\ pipeline[i] = mutations[user][i]
          BY <3>1, <3>2 DEF Front
        <4> QED BY <3>1, <4>1, ElementOfSeq
      <3>4. pipeline = [i \in 1 .. Len(pipeline) |-> pipeline[i]]
        BY <3>1
      <3>5. pipeline \in [1 .. Len(pipeline) -> Batches]
        BY <3>3, <3>4
      <3> QED BY <3>2, <3>5
    <2>6. /\ stream \in States /\ handshake \in BOOLEAN /\ idle \in BOOLEAN
          /\ closes \in Nat /\ tokens \subseteq Nat /\ call \in Calls
      BY DEF Inv, Streaming
    <2>7. author \in [Writes -> Users \cup {NoOne}] /\ outcome \in [Writes -> {"none", "ok", "error"}]
      BY DEF Inv, Queued, Authored
    <2> QED BY <2>2, <2>3, <2>4, <2>5, <2>6, <2>7 DEF TypeOK, Recorded, Calls
  <1> QED BY <1>1, <1>2, <1>3, Invariance, PTL DEF Spec

-----------------------------------------------------------------------------
(***************************************************************************)
(* What QueueDrains rests on: nothing that waits is forgotten.             *)
(***************************************************************************)

\* The pipeline is refilled after each answer, with the batches that follow
\* those it holds: it is as long as the queue and kMaxPendingWrites allow.
PipelineIsFull == Full(pipeline, mutations[user])

\* While the user has a write in the queue the stream is on its way: it backs
\* off, a token has been asked for and not yet dropped, or there is a call
\* that carries a message or an answer, or is over and has not been finished.
WritesUnderWay ==
    mutations[user] # <<>> =>
        /\ pipeline # <<>>
        /\ \/ stream = "Backoff"
           \/ stream = "Starting" /\ closes \in tokens
           \/ stream = "Open" /\ (Ended \/ call.in # <<>> \/ call.out # <<>>)

\* A fill leaves no room that a batch of the queue could take.
LEMMA FillIsFull ==
    ASSUME PipelineConstants, NEW pipe \in Seq(Batch), NEW queue \in Seq(Batch),
           NEW state, NEW shaken, NEW c, NEW count, NEW asked,
           Sorted(queue), Front(pipe, queue),
           Fill(pipe, queue, state, shaken, c, count, asked),
           queue = mutations'[user']
    PROVE  PipelineIsFull'
  <1>1. pipeline' = Filled(pipe, queue)
    BY DEF Fill
  <1>2. Full(Filled(pipe, queue), queue)
    BY FilledIsFront
  <1> QED BY <1>1, <1>2 DEF PipelineIsFull, Full

LEMMA FullStep ==
    ASSUME PipelineConstants, Inv, Inv', PipelineIsFull, [Next]_vars
    PROVE  PipelineIsFull'
  <1>1. /\ user \in Users /\ mutations[user] \in Seq(Batch) /\ pipeline \in Seq(Batch)
        /\ Front(pipeline, mutations[user])
        /\ user' \in Users /\ mutations'[user'] \in Seq(Batch) /\ Sorted(mutations'[user'])
    BY DEF Inv, Queued, Streaming, IdsInOrder
  <1> DEFINE none == <<>>
  <1>2. none \in Seq(Batch) /\ Front(none, mutations'[user'])
    <2>1. Len(mutations'[user']) \in Nat /\ MaxPending \in Nat
      BY <1>1 DEF PipelineConstants
    <2> QED BY <2>1 DEF Front
  <1>3. CASE UNCHANGED <<user, mutations, pipeline>>
    BY <1>3 DEF PipelineIsFull, Full
  <1>4. ASSUME NEW w \in Writes, WriteMutations(w)
        PROVE  PipelineIsFull'
    <2> DEFINE more == Append(mutations[user], [id |-> nextId, write |-> w])
    <2>1. /\ mutations' = [mutations EXCEPT ![user] = more] /\ user' = user
          /\ Fill(pipeline, mutations'[user], stream, handshake, call, closes, tokens)
      BY <1>4 DEF WriteMutations
    <2>2. mutations'[user'] = more
      BY <1>1, <2>1 DEF Inv, Queued
    <2>3. /\ Len(more) = Len(mutations[user]) + 1
          /\ \A i \in 1 .. Len(mutations[user]) : more[i] = mutations[user][i]
      <3>1. more \in Seq(Batch)
        BY <1>1, <2>2
      <3> QED BY <1>1
    <2> HIDE DEF more
    <2>4. Front(pipeline, mutations'[user'])
      BY <1>1, <2>2, <2>3 DEF Front
    <2> QED BY <1>1, <2>1, <2>4, FillIsFull
  <1>5. CASE OnMutationResult
    <2>1. /\ Settle(Head(pipeline), "ok") /\ UNCHANGED backend /\ user' = user
          /\ Fill(Tail(pipeline), mutations'[user], stream, handshake, Read, closes, tokens)
          /\ pipeline # <<>> /\ Head(pipeline).write \in committed
      BY <1>5, FirstAnswer DEF OnMutationResult, CanRead, Inv, Settle
    <2>2. Tail(pipeline) \in Seq(Batch) /\ Front(Tail(pipeline), mutations'[user'])
      BY <2>1, SettleStep DEF Decided
    <2> QED BY <1>1, <2>1, <2>2, FillIsFull
  <1>6. CASE OnStreamFinish
    <2>1. Finish(call.status) /\ UNCHANGED backend
      BY <1>6 DEF OnStreamFinish, Finish
    <2>2. CASE handshake /\ call.status = "permanent" /\ pipeline # <<>>
      <3>1. /\ Settle(Head(pipeline), "error") /\ user' = user
            /\ Fill(Tail(pipeline), mutations'[user], "Initial", FALSE, NoCall,
                    closes + 1, tokens)
        BY <2>1, <2>2 DEF Finish, Settle
      <3>2. Decided(Head(pipeline).write)
        BY <2>2, FirstDecided DEF Inv
      <3>3. Tail(pipeline) \in Seq(Batch) /\ Front(Tail(pipeline), mutations'[user'])
        BY <2>1, <2>2, <3>1, <3>2, SettleStep
      <3> QED BY <1>1, <3>1, <3>3, FillIsFull
    <2>3. CASE ~ (handshake /\ call.status = "permanent" /\ pipeline # <<>>)
      BY <1>3, <2>1, <2>3 DEF Finish, local
    <2> QED BY <2>2, <2>3
  <1>7. ASSUME NEW u \in Users, HandleCredentialChange(u)
        PROVE  PipelineIsFull'
    <2> DEFINE count == IF Started THEN closes + 1 ELSE closes
               state == IF Started THEN "Initial" ELSE stream
    <2>1. /\ user' = u /\ UNCHANGED mutations
          /\ Fill(none, mutations[u], state, FALSE, NoCall, count, tokens)
      BY <1>7 DEF HandleCredentialChange
    <2> HIDE DEF count, state, none
    <2> QED BY <1>1, <1>2, <2>1, FillIsFull
  <1>8. CASE Relaunch
    <2> DEFINE asked == {}
    <2>1. /\ UNCHANGED <<user, mutations>>
          /\ Fill(none, mutations[user], "Initial", FALSE, NoCall, 0, asked)
      BY <1>8 DEF Relaunch
    <2> HIDE DEF none, asked
    <2> QED BY <1>1, <1>2, <2>1, FillIsFull
  <1>9. CASE UNCHANGED vars
    BY <1>3, <1>9 DEF vars
  <1>10. CASE BackoffElapsed \/ OnHandshakeComplete \/ IdleTimeout
    BY <1>3, <1>10 DEF BackoffElapsed, OnHandshakeComplete, IdleTimeout, local
  <1>11. CASE \E c \in tokens : TokenStale(c) \/ TokenReady(c) \/ TokenFailed(c)
    BY <1>3, <1>11 DEF TokenStale, TokenReady, TokenFailed, local
  <1>12. CASE AnswerHandshake \/ RefuseHandshake \/ Break \/ WriteFails
    BY <1>3, <1>12 DEF AnswerHandshake, RefuseHandshake, Break, WriteFails, Client, local
  <1>13. CASE \E w \in Writes : Commit(w) \/ Reject(w)
    BY <1>3, <1>13 DEF Commit, Reject, Client, local
  <1> QED BY <1>4, <1>5, <1>6, <1>7, <1>8, <1>9, <1>10, <1>11, <1>12, <1>13
          DEF Next, Library, Server

\* FillWritePipeline: after every answer, change of user and relaunch the
\* pipeline has taken up all there is room for.
THEOREM PipelineFilled == Spec => []PipelineIsFull
  <1>1. Init => PipelineIsFull
    <2>1. Init => mutations[user] = <<>> /\ pipeline = <<>>
      BY DEF Init
    <2> QED BY <2>1 DEF PipelineIsFull, Full
  <1>2. Inv /\ Inv' /\ PipelineIsFull /\ [Next]_vars => PipelineIsFull'
    BY FullStep, PipelineConstants
  <1> QED BY <1>1, <1>2, Invariance, PTL DEF Spec

\* However streams end and tokens go stale, a user's queue never holds a write
\* that no timer, token or call is going to bring forward.
THEOREM NoWriteForgotten == Spec => []WritesUnderWay
  <1>1. Inv /\ PipelineIsFull => WritesUnderWay
    <2> SUFFICES ASSUME Inv, PipelineIsFull, mutations[user] # <<>>
                 PROVE  /\ pipeline # <<>>
                        /\ \/ stream = "Backoff"
                           \/ stream = "Starting" /\ closes \in tokens
                           \/ stream = "Open" /\ (Ended \/ call.in # <<>> \/ call.out # <<>>)
      BY DEF WritesUnderWay
    <2>1. /\ mutations[user] \in Seq(Batch) /\ pipeline \in Seq(Batch)
          /\ Len(mutations[user]) \in Nat /\ Len(mutations[user]) # 0
          /\ MaxPending \in Nat \ {0}
      BY PipelineConstants DEF Inv, Queued, Streaming, PipelineConstants
    <2>2. pipeline # <<>> /\ Len(pipeline) \in Nat \ {0}
      BY <2>1 DEF PipelineIsFull, Full
    <2>3. stream \in {"Starting", "Open", "Backoff"}
      BY <2>2 DEF Inv, Streaming, Started
    <2>4. stream = "Starting" => closes \in tokens
      BY StreamFacts DEF Inv
    <2>5. ASSUME stream = "Open", ~ Ended, call.in = <<>>, call.out = <<>>
          PROVE  FALSE
      <3>1. call \in Calls /\ call.status # "none"
        BY <2>5, StreamFacts DEF Inv
      <3>2. call.status = "live"
        BY <2>5, <3>1 DEF Calls, Ended, Statuses
      <3> DEFINE exp == Expected(handshake, pipeline)
      <3>3. Len(exp) # 0
        <4>1. Len(Contents(pipeline)) = Len(pipeline)
          BY <2>1, ContentsType
        <4> QED BY <2>2, <4>1 DEF Expected
      <3>4. Len(call.in) + Len(call.out) = Len(exp)
        BY <3>2 DEF Inv, Streaming, Matches
      <3> HIDE DEF exp
      <3> QED BY <2>5, <3>3, <3>4
    <2> QED BY <2>2, <2>3, <2>4, <2>5
  <1> QED BY <1>1, Invariance, PipelineFilled, PTL

-----------------------------------------------------------------------------
(***************************************************************************)
(* What a completion is told.  These are properties of the queues alone,   *)
(* and hold of the pipeline because it implements them.                    *)
(***************************************************************************)

\* A completion runs after the backend has decided, and reports success only
\* of a write that was applied; of an error that is not so (see ErrorIsTrue).
ToldAfterDecision ==
    \A w \in Writes : /\ outcome[w] # "none" => Decided(w)
                      /\ outcome[w] = "ok" => w \in committed

\* A completion that has run does not run again, and one that has not is kept
\* until it runs or the process ends.
ToldOnce ==
    \A w \in Writes :
        /\ outcome[w] # "none" => outcome'[w] = outcome[w]
        /\ w \in Promised => \/ w \in Promised'
                             \/ outcome'[w] # "none"
                             \/ callbacks' = {} /\ Waiting' = Waiting

\* The invariant of the queues: who is still to be told was not told.
Promises == ToldAfterDecision /\ \A w \in Promised : outcome[w] = "none"

LEMMA QueueKeepsPromises ==
    ASSUME Inv, Authored, Promises, [Queue!Next]_(Queue!vars)
    PROVE  Promises' /\ ToldOnce
  <1>1. /\ outcome \in [Writes -> {"none", "ok", "error"}]
        /\ Promised \subseteq Writes
    BY DEF Authored, Inv, Queued, Promised
  <1>2. CASE UNCHANGED Queue!vars
    BY <1>2 DEF Queue!vars, Promises, ToldAfterDecision, ToldOnce, Promised, Decided
  <1>3. ASSUME NEW u \in Users, NEW w \in Writes, Queue!Submit(u, w)
        PROVE  Promises' /\ ToldOnce
    <2>1. /\ outcome[w] = "none" /\ Promised' = Promised \cup {w}
          /\ UNCHANGED <<outcome, committed, rejected>>
      BY <1>3 DEF Queue!Submit, Queue!Fresh, Promised
    <2> QED BY <2>1 DEF Promises, ToldAfterDecision, ToldOnce, Decided
  <1>4. ASSUME NEW u \in Users, NEW k, Queue!Decide(u, k)
        PROVE  Promises' /\ ToldOnce
    <2>1. /\ Promised' = Promised /\ UNCHANGED outcome
          /\ committed \subseteq committed' /\ rejected \subseteq rejected'
      BY <1>4 DEF Queue!Decide, Promised
    <2> QED BY <2>1 DEF Promises, ToldAfterDecision, ToldOnce, Decided
  <1>5. ASSUME NEW u \in Users, NEW answer \in {"ok", "error"}, Queue!Settle(u, answer)
        PROVE  Promises' /\ ToldOnce
    <2> DEFINE w == Head(Waiting[u])
    <2>1. /\ Decided(w)
          /\ answer = "ok" => w \in committed
          /\ outcome' = IF w \in Promised THEN [outcome EXCEPT ![w] = answer] ELSE outcome
          /\ Promised' = Promised \ {w}
          /\ UNCHANGED <<committed, rejected>>
      BY <1>5 DEF Queue!Settle, Queue!Decided, Decided, Promised, Waiting
    <2> HIDE DEF w
    <2>2. /\ \A v \in Writes : v # w => outcome'[v] = outcome[v]
          /\ w \in Promised => outcome'[w] = answer /\ outcome[w] = "none"
          /\ w \notin Promised => outcome' = outcome
      BY <1>1, <2>1 DEF Promises
    <2> QED BY <1>1, <2>1, <2>2 DEF Promises, ToldAfterDecision, ToldOnce, Decided
  <1>6. CASE Queue!Forget
    <2>1. Promised' = {} /\ UNCHANGED <<outcome, committed, rejected>>
      BY <1>6 DEF Queue!Forget, Promised
    <2>2. callbacks' = {} /\ Waiting' = Waiting
      BY <1>6, <2>1 DEF Promised, Queue!Forget, Waiting
    <2> QED BY <2>1, <2>2 DEF Promises, ToldAfterDecision, ToldOnce, Decided
  <1> QED BY <1>2, <1>3, <1>4, <1>5, <1>6 DEF Queue!Next

LEMMA PromisesInvariance == Spec => [](Authored /\ Promises) /\ [][ToldOnce]_vars
  <1>1. Init => Authored /\ Promises
    <2> SUFFICES ASSUME Init PROVE Authored /\ Promises
      OBVIOUS
    <2>1. Promises
      BY DEF Init, Promises, ToldAfterDecision, Promised
    <2> QED BY <2>1, InitImplements
  <1>2. Inv /\ Authored /\ Promises /\ [Next]_vars
          => (Authored /\ Promises)' /\ [ToldOnce]_vars
    BY StepImplements, QueueKeepsPromises
  <1> QED BY <1>1, <1>2, Invariance, PTL DEF Spec

\* NotifyUser, through restarts of streams and of the app: no completion hears
\* of a decision that was not made, and none hears "ok" of a refused write.
THEOREM SuccessIsTrue == Spec => []ToldAfterDecision
  <1>1. Promises => ToldAfterDecision
    BY DEF Promises
  <1> QED BY <1>1, PromisesInvariance, PTL

\* NotifyUser erases the completion it runs, and nothing else but the end of
\* the process takes one away.
THEOREM CompletionsRunOnce == Spec => [][ToldOnce]_vars
  BY PromisesInvariance, PTL
=============================================================================
