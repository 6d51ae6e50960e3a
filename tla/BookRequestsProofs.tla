------------------------- MODULE BookRequestsProofs -------------------------
(***************************************************************************)
(* Proofs about module BookRequests, for any set of devices and users and  *)
(* any bounds on taps and faults: no request is lost but to a racing one,  *)
(* what a tap adds is added once, and nobody asks for his own book.        *)
(***************************************************************************)
EXTENDS BookRequests, SequenceTheorems, TLAPS

\* Everything one device changes, in the form the proofs below use it.
Step(c) ==
    \/ Launch(c) \/ SignIn(c) \/ FetchList(c) \/ OpenDetails(c) \/ Back(c)
    \/ Tap(c)
    \/ AnswerFromServer(c) \/ AnswerFromCache(c) \/ AnswerError(c)
    \/ Callback(c)
    \/ Commit(c) \/ Ack(c) \/ Reject(c)
    \/ Disconnect(c) \/ Reconnect(c) \/ ForcedSignOut(c) \/ Terminate(c)

-----------------------------------------------------------------------------
(***************************************************************************)
(* Lemmas about the sequences and the lists of the model.                  *)
(***************************************************************************)

\* A version of the document holds a list of entries.
LEMMA ListAtType ==
    ASSUME TypeOK, NEW n \in 0 .. Len(history)
    PROVE  ListAt(n) \in Lists
  <1>1. CASE n = 0
    BY <1>1 DEF ListAt, Lists
  <1>2. CASE n # 0
    <2>1. history[n] \in Writes
      BY <1>2 DEF TypeOK
    <2> QED BY <1>2, <2>1 DEF ListAt, Writes
  <1> QED BY <1>1, <1>2

\* What the client reports is a list of entries.
LEMMA LocalViewType ==
    ASSUME TypeOK, NEW c \in Clients, NEW n \in 0 .. Len(history)
    PROVE  LocalView(c, n) \in Lists
  <1>1. CASE signedIn[c] /\ pending[c] # <<>>
    <2>1. pending[c] \in Seq(Writes) /\ Len(pending[c]) \in 1 .. Len(pending[c])
      BY <1>1 DEF TypeOK
    <2>2. pending[c][Len(pending[c])] \in Writes
      BY <2>1
    <2> QED BY <1>1, <2>2 DEF LocalView, Writes
  <1>2. CASE ~(signedIn[c] /\ pending[c] # <<>>)
    BY <1>2, ListAtType DEF LocalView
  <1> QED BY <1>1, <1>2

\* Raising the listeners of a read makes answers of the right type.
LEMMA RaiseType ==
    ASSUME TypeOK, NEW c \in Clients, NEW list \in Lists, NEW ok \in BOOLEAN,
           Raise(c, list, ok)
    PROVE  /\ reading' \in [Clients -> Seq(Reads)]
           /\ callbacks' \in [Clients -> Seq(Answers)]
  <1> DEFINE new == [i \in 1 .. Len(reading[c]) |->
                       [tap |-> reading[c][i].tap, list |-> list, ok |-> ok]]
  <1>1. reading[c] \in Seq(Reads)
    BY DEF TypeOK
  <1>2. new \in Seq(Answers)
    <2>1. \A i \in 1 .. Len(reading[c]) : reading[c][i] \in Reads
      BY <1>1
    <2>2. \A i \in 1 .. Len(reading[c]) :
             [tap |-> reading[c][i].tap, list |-> list, ok |-> ok] \in Answers
      BY <2>1 DEF Answers, Reads
    <2> QED BY <1>1, <2>2
  <1>3. callbacks[c] \o new \in Seq(Answers)
    BY <1>2, ConcatProperties DEF TypeOK
  <1> QED BY <1>3 DEF Raise, TypeOK

-----------------------------------------------------------------------------
(***************************************************************************)
(* Type correctness                                                        *)
(***************************************************************************)

LEMMA TypeInit == Init => TypeOK
  BY RequestConstants, EmptySeq DEF Init, TypeOK, Screens

LEMMA TypeStep ==
    ASSUME TypeOK, NEW c \in Clients, Step(c)
    PROVE  TypeOK'
  <1> USE RequestConstants
  <1>1. CASE Launch(c)
    BY <1>1 DEF TypeOK, Launch, server, client, aux, Screens
  <1>2. CASE SignIn(c)
    BY <1>2 DEF TypeOK, SignIn, server, client, aux, Screens
  <1>3. CASE FetchList(c)
    BY <1>3 DEF TypeOK, FetchList, server, app, aux
  <1>4. CASE OpenDetails(c)
    BY <1>4 DEF TypeOK, OpenDetails, server, client, aux, Screens
  <1>5. CASE Back(c)
    BY <1>5 DEF TypeOK, Back, server, client, aux, Screens
  <1>6. CASE Tap(c)
    <2>1. [tap |-> taps + 1, at |-> Len(history)] \in Reads
      BY <1>6 DEF Tap, TypeOK, Reads, Taps
    <2>2. reading' \in [Clients -> Seq(Reads)]
      BY <1>6, <2>1, AppendProperties DEF Tap, TypeOK
    <2>3. /\ since' \in [Clients -> 0 .. Len(history)']
          /\ clean' \in [Clients -> BOOLEAN]
          /\ taps' \in 0 .. MaxTaps
      BY <1>6 DEF Tap, TypeOK, server
    <2> QED BY <1>6, <2>2, <2>3 DEF Tap, TypeOK, server, app
  <1>7. CASE AnswerFromServer(c)
    <2>1. PICK n \in Newer(cached[c], IF Attached(c) THEN 0 ELSE reading[c][1].at)
                       .. Len(history) :
            /\ Raise(c, LocalView(c, n), TRUE)
            /\ cached' = [cached EXCEPT ![c] = n]
      BY <1>7 DEF AnswerFromServer
    <2>2. n \in 0 .. Len(history)
      <3>1. /\ cached[c] \in 0 .. Len(history)
            /\ reading[c] # <<>>
            /\ reading[c] \in Seq(Reads)
        BY <1>7 DEF TypeOK, AnswerFromServer
      <3>2. reading[c][1].at \in Nat
        <4>1. reading[c][1] \in Reads
          BY <3>1
        <4> QED BY <4>1 DEF Reads
      <3> QED BY <3>1, <3>2 DEF Newer, TypeOK
    <2>3. LocalView(c, n) \in Lists
      BY <2>2, LocalViewType
    <2>4. /\ reading' \in [Clients -> Seq(Reads)]
          /\ callbacks' \in [Clients -> Seq(Answers)]
      BY <2>1, <2>3, RaiseType
    <2> QED BY <1>7, <2>1, <2>2, <2>4
            DEF AnswerFromServer, TypeOK, server, app, aux
  <1>8. CASE AnswerFromCache(c)
    <2>1. LocalView(c, cached[c]) \in Lists
      BY LocalViewType DEF TypeOK
    <2>2. /\ reading' \in [Clients -> Seq(Reads)]
          /\ callbacks' \in [Clients -> Seq(Answers)]
      BY <1>8, <2>1, RaiseType DEF AnswerFromCache
    <2> QED BY <1>8, <2>2 DEF AnswerFromCache, TypeOK, server, app, Older
  <1>9. CASE AnswerError(c)
    <2>1. <<>> \in Lists
      BY DEF Lists
    <2>2. /\ reading' \in [Clients -> Seq(Reads)]
          /\ callbacks' \in [Clients -> Seq(Answers)]
      BY <1>9, <2>1, RaiseType DEF AnswerError
    <2> QED BY <1>9, <2>2 DEF AnswerError, TypeOK, server, app
  <1>10. CASE Callback(c)
    <2> DEFINE answer == Head(callbacks[c])
               write == [tap   |-> answer.tap,
                         list  |-> NewRequests(answer.list,
                                     [user |-> UserOf[c], tap |-> answer.tap]),
                         since |-> since[c],
                         clean |-> clean[c]]
    <2>1. callbacks[c] \in Seq(Answers) /\ callbacks[c] # <<>>
      BY <1>10 DEF Callback, TypeOK
    <2>2. answer \in Answers /\ Tail(callbacks[c]) \in Seq(Answers)
      BY <2>1
    <2>3. write \in Writes
      <3>1. [user |-> UserOf[c], tap |-> answer.tap] \in Entries
        BY <2>2 DEF Answers, Entries
      <3>2. answer.list \in Seq(Entries)
        BY <2>2 DEF Answers, Lists
      <3>3. NewRequests(answer.list, [user |-> UserOf[c], tap |-> answer.tap])
              \in Lists
        BY <3>1, <3>2, AppendProperties DEF NewRequests, Lists
      <3> QED BY <2>2, <3>3 DEF Writes, Answers, TypeOK
    <2>4. CASE signedIn[c]
      <3>1. /\ pending' = [pending EXCEPT ![c] = Append(@, write)]
            /\ callbacks' = [callbacks EXCEPT ![c] = Tail(@)]
            /\ UNCHANGED <<reading, applied, screen>>
        BY <1>10, <2>4 DEF Callback
      <3>2. /\ Append(pending[c], write) \in Seq(Writes)
            /\ Len(Append(pending[c], write)) = Len(pending[c]) + 1
        BY <2>3, AppendProperties DEF TypeOK
      <3>3. pending' \in [Clients -> Seq(Writes)]
        BY <3>1, <3>2 DEF TypeOK
      <3>4. \A d \in Clients : Len(applied'[d]) <= Len(pending'[d])
        BY <3>1, <3>2 DEF TypeOK
      <3> QED BY <1>10, <2>2, <3>1, <3>3, <3>4
              DEF Callback, TypeOK, server, aux
    <2>5. CASE ~signedIn[c]
      <3>1. /\ screen' = [screen EXCEPT ![c] = "crashed"]
            /\ reading' = [reading EXCEPT ![c] = <<>>]
            /\ callbacks' = [callbacks EXCEPT ![c] = <<>>]
            /\ applied' = [applied EXCEPT ![c] = <<>>]
            /\ UNCHANGED pending
        BY <1>10, <2>5 DEF Callback
      <3>2. \A d \in Clients : Len(applied'[d]) <= Len(pending'[d])
        BY <3>1 DEF TypeOK
      <3> QED BY <1>10, <3>1, <3>2 DEF Callback, TypeOK, server, aux, Screens
    <2> QED BY <2>4, <2>5
  <1>11. CASE Commit(c)
    <2> DEFINE write == pending[c][Len(applied[c]) + 1]
    <2>1. /\ applied[c] \in Seq(1 .. Len(history))
          /\ pending[c] \in Seq(Writes)
          /\ Len(applied[c]) < Len(pending[c])
          /\ history \in Seq(Writes)
      BY <1>11 DEF Commit, TypeOK
    <2>2. write \in Writes
      BY <2>1
    <2>3. CASE /\ history' = Append(history, write)
               /\ applied' = [applied EXCEPT ![c] = Append(@, Len(history) + 1)]
      <3>1. history' \in Seq(Writes) /\ Len(history') = Len(history) + 1
        BY <2>1, <2>2, <2>3, AppendProperties
      <3>2. \A d \in Clients : applied[d] \in Seq(1 .. Len(history'))
        <4> TAKE d \in Clients
        <4>1. applied[d] \in Seq(1 .. Len(history))
          BY DEF TypeOK
        <4>2. (1 .. Len(history)) \subseteq (1 .. Len(history'))
          BY <2>1, <3>1
        <4> QED BY <4>1, <4>2, SeqMonotonic
      <3>3. /\ Append(applied[c], Len(history) + 1) \in Seq(1 .. Len(history'))
            /\ Len(Append(applied[c], Len(history) + 1)) = Len(applied[c]) + 1
        <4>1. Len(history) + 1 \in 1 .. Len(history')
          BY <2>1, <3>1
        <4> QED BY <3>2, <4>1, AppendProperties
      <3>4. applied' \in [Clients -> Seq(1 .. Len(history'))]
        BY <2>3, <3>2, <3>3 DEF TypeOK
      <3>5. \A d \in Clients : Len(applied'[d]) <= Len(pending'[d])
        BY <1>11, <2>1, <2>3, <3>3 DEF Commit, TypeOK
      <3>6. /\ cached' \in [Clients -> 0 .. Len(history')]
            /\ since' \in [Clients -> 0 .. Len(history')]
        <4>1. cached' = cached /\ since' = since
          BY <1>11 DEF Commit, aux
        <4>2. Len(history) \in Nat /\ Len(history') = Len(history) + 1
          BY <2>1, <3>1
        <4>3. (0 .. Len(history)) \subseteq (0 .. Len(history'))
          BY <4>2
        <4>4. /\ cached \in [Clients -> 0 .. Len(history)]
              /\ since \in [Clients -> 0 .. Len(history)]
          BY DEF TypeOK
        <4> QED BY <4>1, <4>3, <4>4
      <3> QED BY <1>11, <3>1, <3>4, <3>5, <3>6 DEF Commit, TypeOK, app, aux
    <2>4. CASE \E n \in DOMAIN history :
                 /\ history[n].tap = write.tap
                 /\ applied' = [applied EXCEPT ![c] = Append(@, n)]
                 /\ UNCHANGED history
      <3>1. PICK n \in 1 .. Len(history) :
              /\ applied' = [applied EXCEPT ![c] = Append(@, n)]
              /\ UNCHANGED history
        BY <2>1, <2>4, LenProperties
      <3>2. /\ Append(applied[c], n) \in Seq(1 .. Len(history))
            /\ Len(Append(applied[c], n)) = Len(applied[c]) + 1
        BY <2>1, AppendProperties
      <3>3. applied' \in [Clients -> Seq(1 .. Len(history'))]
        BY <3>1, <3>2 DEF TypeOK
      <3>4. \A d \in Clients : Len(applied'[d]) <= Len(pending'[d])
        BY <1>11, <2>1, <3>1, <3>2 DEF Commit, TypeOK
      <3> QED BY <1>11, <3>1, <3>3, <3>4 DEF Commit, TypeOK, app, aux
    <2> QED BY <1>11, <2>3, <2>4 DEF Commit
  <1>12. CASE Ack(c)
    <2>1. /\ applied[c] \in Seq(1 .. Len(history)) /\ applied[c] # <<>>
          /\ pending[c] \in Seq(Writes)
          /\ Len(applied[c]) <= Len(pending[c])
          /\ cached[c] \in 0 .. Len(history)
      BY <1>12 DEF Ack, TypeOK
    <2>2. pending[c] # <<>>
      BY <2>1
    <2>3. /\ Head(applied[c]) \in 1 .. Len(history)
          /\ Tail(applied[c]) \in Seq(1 .. Len(history))
          /\ Len(Tail(applied[c])) = Len(applied[c]) - 1
          /\ Tail(pending[c]) \in Seq(Writes)
          /\ Len(Tail(pending[c])) = Len(pending[c]) - 1
      BY <2>1, <2>2, HeadTailProperties
    <2>4. cached' \in [Clients -> 0 .. Len(history)]
      BY <1>12, <2>1, <2>3 DEF Ack, TypeOK, Newer
    <2>5. \A d \in Clients : Len(applied'[d]) <= Len(pending'[d])
      BY <1>12, <2>1, <2>3 DEF Ack, TypeOK
    <2> QED BY <1>12, <2>3, <2>4, <2>5 DEF Ack, TypeOK, server, app, aux
  <1>13. CASE Reject(c)
    <2>1. pending[c] \in Seq(Writes) /\ pending[c] # <<>> /\ applied[c] = <<>>
      BY <1>13 DEF Reject, TypeOK
    <2>2. Tail(pending[c]) \in Seq(Writes) /\ Len(Tail(pending[c])) \in Nat
      BY <2>1, HeadTailProperties
    <2>3. \A d \in Clients : Len(applied'[d]) <= Len(pending'[d])
      BY <1>13, <2>1, <2>2 DEF Reject, TypeOK
    <2> QED BY <1>13, <2>2, <2>3 DEF Reject, TypeOK, server, app, aux
  <1>14. CASE Disconnect(c)
    BY <1>14, EmptySeq DEF Disconnect, TypeOK, server, aux
  <1>15. CASE Reconnect(c)
    BY <1>15 DEF Reconnect, TypeOK, server, client, aux
  <1>16. CASE ForcedSignOut(c)
    BY <1>16, EmptySeq DEF ForcedSignOut, TypeOK, server, aux
  <1>17. CASE Terminate(c)
    BY <1>17, EmptySeq DEF Terminate, TypeOK, server, aux, Screens
  <1> QED BY <1>1, <1>2, <1>3, <1>4, <1>5, <1>6, <1>7, <1>8, <1>9, <1>10,
             <1>11, <1>12, <1>13, <1>14, <1>15, <1>16, <1>17 DEF Step

LEMMA TypeStutter == TypeOK /\ UNCHANGED vars => TypeOK'
  BY DEF TypeOK, vars

LEMMA NextIsStep == Next => \E c \in Clients : Step(c)
  BY Zenon DEF Next, Step

\* The state of devices and backend keeps its types whatever the number of
\* devices, taps and faults; in particular an acknowledgement under way always
\* has its write at the head of the queue.
THEOREM TypeCorrect == Spec => []TypeOK
  <1>1. TypeOK /\ [Next]_vars => TypeOK'
    BY NextIsStep, TypeStep, TypeStutter
  <1> QED BY TypeInit, <1>1, PTL DEF Spec

-----------------------------------------------------------------------------
(***************************************************************************)
(* Standing requests.  The set Standing(m, Len(history)) only shrinks while *)
(* the history grows and while m is lowered, so what a device has based    *)
(* its lists on stays in them.                                             *)
(***************************************************************************)

\* Standing longer is harder.
LEMMA StandingLonger ==
    ASSUME NEW m \in Nat, NEW s \in Nat, NEW n \in Nat, m <= s
    PROVE  Standing(m, n) \subseteq Standing(s, n)
  BY DEF Standing

\* What stands is in every version of its time.
LEMMA StandingIsThere ==
    ASSUME NEW m \in Nat, NEW n \in Nat, NEW k \in m .. n
    PROVE  Standing(m, n) \subseteq Range(ListAt(k))
  BY DEF Standing

\* Steps that leave the document alone leave standing requests alone.
LEMMA StandingSame ==
    ASSUME UNCHANGED history, NEW m, NEW n
    PROVE  Standing(m, n)' = Standing(m, n)
  BY DEF Standing, ListAt

\* A new version lets no request stand that did not stand before.
LEMMA StandingShrinks ==
    ASSUME TypeOK, NEW w \in Writes, history' = Append(history, w), NEW m \in Nat
    PROVE  Standing(m, Len(history))' \subseteq Standing(m, Len(history))
  <1>1. /\ history \in Seq(Writes)
        /\ Len(history') = Len(history) + 1
        /\ \A k \in 1 .. Len(history) : history'[k] = history[k]
    BY AppendProperties DEF TypeOK
  <1>2. ASSUME NEW k \in m .. Len(history)
        PROVE  ListAt(k)' = ListAt(k) /\ k \in m .. Len(history')
    BY <1>1, <1>2 DEF ListAt
  <1> QED BY <1>1, <1>2 DEF Standing

\* Appending to a list keeps its entries.
LEMMA AppendKeeps ==
    ASSUME NEW S, NEW list \in Seq(S), NEW e \in S
    PROVE  Range(list) \subseteq Range(Append(list, e))
  BY AppendProperties DEF Range

\* What the client reports is based on the standing requests, if the version
\* it takes from the server is new enough.
LEMMA LocalViewBased ==
    ASSUME TypeOK, Basis, NEW c \in Clients, NEW s \in Nat, s <= since[c],
           NEW n \in s .. Len(history), clean[c]
    PROVE  Standing(s, Len(history)) \subseteq Range(LocalView(c, n))
  <1>0. Len(history) \in Nat /\ since[c] \in Nat
    BY DEF TypeOK
  <1>1. CASE signedIn[c] /\ pending[c] # <<>>
    <2> DEFINE w == pending[c][Len(pending[c])]
    <2>1. /\ pending[c] \in Seq(Writes)
          /\ Len(pending[c]) \in DOMAIN pending[c]
      BY <1>1 DEF TypeOK
    <2>2. w \in Writes
      BY <2>1
    <2>3. /\ w.since \in Nat
          /\ since[c] <= w.since
          /\ Standing(w.since, Len(history)) \subseteq Range(w.list)
      BY <2>1, <2>2 DEF Basis, WritesBased, Writes
    <2>4. Standing(s, Len(history)) \subseteq Standing(w.since, Len(history))
      BY <1>0, <2>3, StandingLonger
    <2> QED BY <1>1, <2>3, <2>4 DEF LocalView
  <1>2. CASE ~(signedIn[c] /\ pending[c] # <<>>)
    <2>1. Standing(s, Len(history)) \subseteq Range(ListAt(n))
      BY <1>0, StandingIsThere
    <2> QED BY <1>2, <2>1 DEF LocalView
  <1> QED BY <1>1, <1>2

-----------------------------------------------------------------------------
(***************************************************************************)
(* The basis of every list on its way is kept by every step.               *)
(***************************************************************************)
LEMMA BasisInit == Init => Basis
  BY DEF Init, Basis, WritesBased, AnswersBased, ReadsBased, CacheBased, Attached

\* What the elements of callbacks are after listeners have been raised.
LEMMA RaiseElements ==
    ASSUME TypeOK, NEW c \in Clients, NEW list \in Lists, NEW ok \in BOOLEAN,
           Raise(c, list, ok),
           NEW d \in Clients, NEW i \in DOMAIN callbacks'[d]
    PROVE  \/ i \in DOMAIN callbacks[d] /\ callbacks'[d][i] = callbacks[d][i]
           \/ d = c /\ callbacks'[d][i].list = list /\ callbacks'[d][i].ok = ok
  <1> DEFINE new == [j \in 1 .. Len(reading[c]) |->
                       [tap |-> reading[c][j].tap, list |-> list, ok |-> ok]]
  <1>1. CASE d # c
    BY <1>1 DEF Raise, TypeOK
  <1>2. CASE d = c
    <2>1. reading[c] \in Seq(Reads) /\ callbacks[c] \in Seq(Answers)
      BY DEF TypeOK
    <2>2. \A j \in 1 .. Len(reading[c]) : reading[c][j] \in Reads
      BY <2>1
    <2>3. \A j \in 1 .. Len(reading[c]) :
             [tap |-> reading[c][j].tap, list |-> list, ok |-> ok] \in Answers
      BY <2>2 DEF Answers, Reads
    <2>4. /\ new \in Seq(Answers)
          /\ Len(new) = Len(reading[c])
          /\ \A j \in 1 .. Len(new) : new[j].list = list /\ new[j].ok = ok
      BY <2>1, <2>3
    <2>5. callbacks'[c] = callbacks[c] \o new
      BY DEF Raise, TypeOK
    <2>6. i \in 1 .. Len(callbacks[c]) + Len(new)
      BY <1>2, <2>1, <2>4, <2>5, ConcatProperties, LenProperties
    <2>7. CASE i <= Len(callbacks[c])
      BY <1>2, <2>1, <2>4, <2>5, <2>6, <2>7, ConcatProperties, LenProperties
    <2>8. CASE i > Len(callbacks[c])
      <3>1. /\ (callbacks[c] \o new)[i] = new[i - Len(callbacks[c])]
            /\ i - Len(callbacks[c]) \in 1 .. Len(new)
        BY <2>1, <2>4, <2>6, <2>8, ConcatProperties
      <3> QED BY <1>2, <2>4, <2>5, <3>1
    <2> QED BY <2>1, <2>6, <2>7, <2>8
  <1> QED BY <1>1, <1>2

\* Steps of the screen, the network and the user concern no list.
LEMMA BasisSame ==
    ASSUME Basis, UNCHANGED <<history, cached, pending, reading, callbacks>>,
           UNCHANGED aux
    PROVE  Basis'
  BY StandingSame
     DEF Basis, WritesBased, AnswersBased, ReadsBased, CacheBased, Attached, aux

LEMMA BasisFetchList ==
    ASSUME TypeOK, Basis, NEW c \in Clients, FetchList(c)
    PROVE  Basis'
  <1>1. /\ UNCHANGED <<history, pending, reading, callbacks, since, clean>>
        /\ \A d \in Clients : cached[d] <= cached'[d]
    BY SMTT(30) DEF FetchList, server, aux, TypeOK
  <1>2. WritesBased' /\ AnswersBased' /\ ReadsBased'
    BY <1>1, StandingSame DEF Basis, WritesBased, AnswersBased, ReadsBased
  <1>3. CacheBased'
    <2>1. \A d \in Clients : /\ since[d] \in Nat
                             /\ cached[d] \in Nat
                             /\ cached'[d] \in Nat
      BY DEF TypeOK, FetchList
    <2> QED BY <1>1, <2>1 DEF Basis, CacheBased, Attached
  <1> QED BY <1>2, <1>3 DEF Basis

LEMMA BasisTap ==
    ASSUME TypeOK, Basis, NEW c \in Clients, Tap(c)
    PROVE  Basis'
  <1> DEFINE read == [tap |-> taps + 1, at |-> Len(history)]
  <1>1. /\ UNCHANGED <<history, cached, pending, callbacks>>
        /\ reading' = [reading EXCEPT ![c] = Append(@, read)]
        /\ since' = [since EXCEPT ![c] = IF Idle(c) THEN Len(history) ELSE @]
        /\ clean' = [clean EXCEPT ![c] = Idle(c) \/ @]
    BY DEF Tap, server
  <1>2. Len(history) \in Nat /\ \A d \in Clients : since[d] \in 0 .. Len(history)
    BY DEF TypeOK
  <1>3. ASSUME NEW d \in Clients, ~Idle(d) \/ d # c
        PROVE  since'[d] = since[d] /\ clean'[d] = clean[d]
    BY <1>1, <1>3, Zenon DEF TypeOK
  <1>4. ASSUME NEW d \in Clients, Idle(d)
        PROVE  /\ pending'[d] = <<>>
               /\ callbacks'[d] = <<>>
    BY <1>1, <1>4 DEF Idle
  <1>5. WritesBased'
    <2> SUFFICES ASSUME NEW d \in Clients, NEW i \in DOMAIN pending[d]
                 PROVE  /\ since'[d] <= pending[d][i].since
                        /\ pending[d][i].since <= Len(history)
                        /\ clean'[d] => pending[d][i].clean
                        /\ pending[d][i].clean =>
                             Standing(pending[d][i].since, Len(history))
                               \subseteq Range(pending[d][i].list)
      BY <1>1, StandingSame DEF WritesBased
    <2>1. ~Idle(d)
      BY DEF Idle
    <2> QED BY <1>3, <2>1 DEF Basis, WritesBased
  <1>6. AnswersBased'
    BY <1>1, <1>3, <1>4, StandingSame, SMTT(30) DEF Basis, AnswersBased
  <1>7. ReadsBased'
    <2> SUFFICES ASSUME NEW d \in Clients, NEW i \in DOMAIN reading'[d]
                 PROVE  reading'[d][i].at \in since'[d] .. Len(history)
      BY <1>1 DEF ReadsBased
    <2>1. CASE d # c
      BY <1>1, <1>3, <2>1 DEF TypeOK, Basis, ReadsBased
    <2>2. CASE d = c
      <3>1. /\ reading[c] \in Seq(Reads) /\ read \in Reads
            /\ reading'[c] = Append(reading[c], read)
        <4>1. read \in Reads
          BY RequestConstants DEF TypeOK, Tap, Reads, Taps
        <4> QED BY <1>1, <4>1 DEF TypeOK
      <3>2. since'[c] \in 0 .. Len(history)
        BY <1>1, <1>2 DEF TypeOK
      <3>3. CASE i \in 1 .. Len(reading[c])
        <4>1. reading'[c][i] = reading[c][i] /\ i \in DOMAIN reading[c]
          BY <3>1, <3>3, AppendProperties
        <4>2. ~Idle(c)
          BY <3>1, <3>3 DEF Idle
        <4> QED BY <1>3, <2>2, <4>1, <4>2 DEF Basis, ReadsBased
      <3>4. CASE i = Len(reading[c]) + 1
        <4>1. reading'[c][i].at = Len(history)
          BY <3>1, <3>4, AppendProperties
        <4> QED BY <1>2, <2>2, <3>2, <4>1
      <3>5. i \in 1 .. Len(reading[c]) + 1
        BY <2>2, <3>1, AppendProperties, LenProperties
      <3> QED BY <3>1, <3>3, <3>4, <3>5
    <2> QED BY <2>1, <2>2
  <1>8. CacheBased'
    <2> SUFFICES ASSUME NEW d \in Clients, Attached(d)'
                 PROVE  since'[d] <= cached'[d]
      BY DEF CacheBased
    <2>1. Attached(d) /\ callbacks[d] # <<>>
      BY <1>1 DEF Attached
    <2>2. ~Idle(d)
      BY <2>1 DEF Idle
    <2> QED BY <1>1, <1>3, <2>1, <2>2 DEF Basis, CacheBased
  <1> QED BY <1>5, <1>6, <1>7, <1>8 DEF Basis

\* An answer keeps the basis when the device lowers since at most as far as the
\* version its cache is left with, keeps or drops clean, and hands out a list
\* that is based on the new since.
LEMMA BasisRaise ==
    ASSUME TypeOK, TypeOK', Basis,
           NEW c \in Clients, NEW list \in Lists, NEW ok \in BOOLEAN,
           Raise(c, list, ok),
           UNCHANGED <<history, pending>>,
           \A d \in Clients \ {c} : /\ since'[d] = since[d]
                                    /\ clean'[d] = clean[d]
                                    /\ cached'[d] = cached[d],
           since'[c] <= since[c],
           clean'[c] => clean[c],
           ok \/ Attached(c) => since'[c] <= cached'[c],
           clean'[c] => Standing(since'[c], Len(history)) \subseteq Range(list)
    PROVE  Basis'
  <1>1. /\ Len(history) \in Nat
        /\ \A d \in Clients : since[d] \in Nat /\ since'[d] \in Nat
        /\ \A d \in Clients : since'[d] <= since[d]
        /\ \A d \in Clients : clean'[d] => clean[d]
    <2>1. \A d \in Clients : since[d] \in Nat /\ since'[d] \in Nat
      BY DEF TypeOK
    <2>2. \A d \in Clients : since'[d] <= since[d]
      BY <2>1
    <2>3. \A d \in Clients : clean'[d] => clean[d]
      BY Zenon
    <2> QED BY <2>1, <2>2, <2>3 DEF TypeOK
  <1>3. WritesBased'
    <2> SUFFICES ASSUME NEW d \in Clients, NEW i \in DOMAIN pending[d]
                 PROVE  /\ since'[d] <= pending[d][i].since
                        /\ pending[d][i].since <= Len(history)
                        /\ clean'[d] => pending[d][i].clean
                        /\ pending[d][i].clean =>
                             Standing(pending[d][i].since, Len(history))
                               \subseteq Range(pending[d][i].list)
      BY StandingSame DEF WritesBased
    <2>1. pending[d][i].since \in Nat
      <3>1. pending[d] \in Seq(Writes)
        BY DEF TypeOK
      <3>2. pending[d][i] \in Writes
        BY <3>1, LenProperties, ElementOfSeq
      <3> QED BY <3>2 DEF Writes
    <2>2. since'[d] <= pending[d][i].since /\ pending[d][i].since <= Len(history)
      BY <1>1, <2>1 DEF Basis, WritesBased
    <2>3. clean'[d] => pending[d][i].clean
      BY <1>1, Zenon DEF Basis, WritesBased
    <2> QED BY <2>2, <2>3 DEF Basis, WritesBased
  <1>4. AnswersBased'
    <2> SUFFICES ASSUME NEW d \in Clients, NEW i \in DOMAIN callbacks'[d], clean'[d]
                 PROVE  Standing(since'[d], Len(history))
                          \subseteq Range(callbacks'[d][i].list)
      <3>1. \A d \in Clients :
              Standing(since[d], Len(history))' = Standing(since'[d], Len(history))
        BY StandingSame DEF Standing, ListAt
      <3> QED BY <3>1 DEF AnswersBased
    <2>1. CASE i \in DOMAIN callbacks[d] /\ callbacks'[d][i] = callbacks[d][i]
      <3>1. Standing(since[d], Len(history)) \subseteq Range(callbacks[d][i].list)
        BY <1>1, <2>1 DEF Basis, AnswersBased
      <3>2. Standing(since'[d], Len(history)) \subseteq Standing(since[d], Len(history))
        BY <1>1, StandingLonger
      <3> QED BY <2>1, <3>1, <3>2
    <2>2. CASE d = c /\ callbacks'[d][i].list = list
      BY <2>2
    <2> QED BY <2>1, <2>2, RaiseElements
  <1>5. ReadsBased'
    <2> SUFFICES ASSUME NEW d \in Clients, NEW i \in DOMAIN reading'[d]
                 PROVE  reading'[d][i].at \in since'[d] .. Len(history)
      BY DEF ReadsBased
    <2>1. d # c /\ reading'[d] = reading[d] /\ since'[d] = since[d]
      BY DEF Raise, TypeOK
    <2> QED BY <2>1 DEF Basis, ReadsBased
  <1>6. CacheBased'
    <2> SUFFICES ASSUME NEW d \in Clients, NEW i \in DOMAIN callbacks'[d],
                        callbacks'[d][i].ok
                 PROVE  since'[d] <= cached'[d]
      BY DEF CacheBased, Attached
    <2>1. CASE d # c
      <3>1. callbacks'[d] = callbacks[d] /\ since'[d] = since[d] /\ cached'[d] = cached[d]
        BY <2>1 DEF Raise, TypeOK
      <3> QED BY <3>1 DEF Basis, CacheBased, Attached
    <2>2. CASE d = c
      <3>1. ok \/ Attached(c)
        BY <2>2, RaiseElements DEF Attached
      <3> QED BY <2>2, <3>1
    <2> QED BY <2>1, <2>2
  <1> QED BY <1>3, <1>4, <1>5, <1>6 DEF Basis

LEMMA BasisAnswer ==
    ASSUME TypeOK, TypeOK', Basis, NEW c \in Clients,
           AnswerFromServer(c) \/ AnswerFromCache(c) \/ AnswerError(c)
    PROVE  Basis'
  <1>1. /\ Len(history) \in Nat
        /\ since[c] \in 0 .. Len(history)
        /\ cached[c] \in 0 .. Len(history)
        /\ clean[c] \in BOOLEAN
    BY DEF TypeOK
  <1>2. CASE AnswerFromServer(c)
    <2>1. PICK n \in Newer(cached[c], IF Attached(c) THEN 0 ELSE reading[c][1].at)
                       .. Len(history) :
            /\ Raise(c, LocalView(c, n), TRUE)
            /\ cached' = [cached EXCEPT ![c] = n]
      BY <1>2 DEF AnswerFromServer
    <2>2. n \in since[c] .. Len(history)
      <3>1. CASE Attached(c)
        BY <1>1, <3>1 DEF Basis, CacheBased, Newer
      <3>2. CASE ~Attached(c)
        <4>1. reading[c] \in Seq(Reads) /\ reading[c] # <<>>
          BY <1>2 DEF AnswerFromServer, TypeOK
        <4>2. 1 \in DOMAIN reading[c]
          BY <4>1
        <4>3. reading[c][1].at \in since[c] .. Len(history)
          BY <4>2 DEF Basis, ReadsBased
        <4> QED BY <1>1, <3>2, <4>3 DEF Newer
      <3> QED BY <3>1, <3>2
    <2>3. n \in 0 .. Len(history) /\ n \in Nat /\ since[c] <= n
      BY <1>1, <2>2
    <2>4. LocalView(c, n) \in Lists
      BY <2>3, LocalViewType
    <2>5. clean[c] => Standing(since[c], Len(history)) \subseteq Range(LocalView(c, n))
      BY <1>1, <2>2, LocalViewBased
    <2>6. UNCHANGED <<history, pending, since, clean>>
      BY <1>2 DEF AnswerFromServer, server, aux
    <2>7. cached'[c] = n /\ \A d \in Clients \ {c} : cached'[d] = cached[d]
      BY <2>1 DEF TypeOK
    <2>8. /\ since'[c] <= since[c] /\ since'[c] <= cached'[c]
          /\ \A d \in Clients \ {c} : /\ since'[d] = since[d]
                                     /\ clean'[d] = clean[d]
                                     /\ cached'[d] = cached[d]
      BY <1>1, <2>3, <2>6, <2>7
    <2> QED BY <2>1, <2>4, <2>5, <2>6, <2>8, BasisRaise, Zenon
  <1>3. CASE AnswerFromCache(c)
    <2> DEFINE s == Older(since[c], cached[c])
    <2>1. s \in Nat /\ s <= since[c] /\ s <= cached[c]
      BY <1>1 DEF Older
    <2>2. LocalView(c, cached[c]) \in Lists
      BY <1>1, LocalViewType
    <2>3. clean[c] => Standing(s, Len(history)) \subseteq Range(LocalView(c, cached[c]))
      BY <1>1, <2>1, LocalViewBased
    <2>4. /\ Raise(c, LocalView(c, cached[c]), TRUE)
          /\ since' = [since EXCEPT ![c] = s]
          /\ UNCHANGED <<history, pending, cached, clean>>
      BY <1>3 DEF AnswerFromCache, server
    <2>5. since'[c] = s /\ \A d \in Clients \ {c} : since'[d] = since[d]
      BY <2>4 DEF TypeOK
    <2> HIDE DEF s
    <2> QED BY <1>1, <2>1, <2>2, <2>3, <2>4, <2>5, BasisRaise
  <1>4. CASE AnswerError(c)
    <2>1. <<>> \in Lists
      BY DEF Lists
    <2>2. /\ Raise(c, <<>>, FALSE)
          /\ ~Attached(c)
          /\ clean' = [clean EXCEPT ![c] = FALSE]
          /\ UNCHANGED <<history, pending, cached, since>>
      BY <1>4 DEF AnswerError, server
    <2>3. ~clean'[c] /\ \A d \in Clients \ {c} : clean'[d] = clean[d]
      BY <2>2 DEF TypeOK
    <2>4. since'[c] <= since[c] /\ FALSE \in BOOLEAN
      BY <1>1, <2>2
    <2> QED BY <2>1, <2>2, <2>3, <2>4, BasisRaise, Zenon
  <1> QED BY <1>2, <1>3, <1>4

\* Losing elements of queues keeps the basis of the others: a killed or crashed
\* app loses reads and callbacks, an acknowledged or rejected write leaves.
LEMMA BasisLose ==
    ASSUME TypeOK, TypeOK', Basis, NEW c \in Clients,
           UNCHANGED <<history, since, clean>>,
           \A d \in Clients : cached[d] <= cached'[d],
           \A d \in Clients : \A i \in DOMAIN pending'[d] :
               \E k \in DOMAIN pending[d] : pending'[d][i] = pending[d][k],
           \A d \in Clients : \A i \in DOMAIN callbacks'[d] :
               \E k \in DOMAIN callbacks[d] : callbacks'[d][i] = callbacks[d][k],
           \A d \in Clients : \A i \in DOMAIN reading'[d] :
               \E k \in DOMAIN reading[d] : reading'[d][i] = reading[d][k]
    PROVE  Basis'
  <1>1. WritesBased'
    <2> SUFFICES ASSUME NEW d \in Clients, NEW i \in DOMAIN pending'[d]
                 PROVE  /\ since[d] <= pending'[d][i].since
                        /\ pending'[d][i].since <= Len(history)
                        /\ clean[d] => pending'[d][i].clean
                        /\ pending'[d][i].clean =>
                             Standing(pending'[d][i].since, Len(history))
                               \subseteq Range(pending'[d][i].list)
      <3>1. \A d \in Clients : \A i \in DOMAIN pending'[d] :
               Standing(pending[d][i].since, Len(history))'
                 = Standing(pending'[d][i].since, Len(history))
        BY DEF Standing, ListAt
      <3> QED BY <3>1, SMTT(30) DEF WritesBased
    <2>1. PICK k \in DOMAIN pending[d] : pending'[d][i] = pending[d][k]
      OBVIOUS
    <2> QED BY <2>1 DEF Basis, WritesBased
  <1>2. AnswersBased'
    BY StandingSame DEF Basis, AnswersBased
  <1>3. ReadsBased'
    BY DEF Basis, ReadsBased
  <1>4. CacheBased'
    <2> SUFFICES ASSUME NEW d \in Clients, Attached(d)'
                 PROVE  since[d] <= cached'[d]
      BY DEF CacheBased
    <2>1. Attached(d)
      BY DEF Attached
    <2>2. since[d] \in Nat /\ cached[d] \in Nat /\ cached'[d] \in Nat
      BY DEF TypeOK
    <2> QED BY <2>1, <2>2 DEF Basis, CacheBased
  <1> QED BY <1>1, <1>2, <1>3, <1>4 DEF Basis

\* The tail of a sequence holds elements of the sequence.
LEMMA TailElements ==
    ASSUME NEW S, NEW s \in Seq(S), s # <<>>, NEW i \in DOMAIN Tail(s)
    PROVE  \E k \in DOMAIN s : Tail(s)[i] = s[k]
  <1>1. i \in 1 .. Len(s) - 1 /\ Tail(s)[i] = s[i + 1]
    BY HeadTailProperties, LenProperties
  <1>2. i + 1 \in DOMAIN s
    BY <1>1
  <1> QED BY <1>1, <1>2

LEMMA BasisTerminate ==
    ASSUME TypeOK, TypeOK', Basis, NEW c \in Clients, Terminate(c)
    PROVE  Basis'
  <1>1. /\ UNCHANGED <<history, since, clean, cached, pending>>
        /\ reading' = [reading EXCEPT ![c] = <<>>]
        /\ callbacks' = [callbacks EXCEPT ![c] = <<>>]
    BY DEF Terminate, server, aux
  <1>2. \A d \in Clients : cached[d] <= cached'[d]
    BY <1>1 DEF TypeOK
  <1>3. \A d \in Clients : \A i \in DOMAIN callbacks'[d] :
             \E k \in DOMAIN callbacks[d] : callbacks'[d][i] = callbacks[d][k]
    BY <1>1 DEF TypeOK
  <1>4. \A d \in Clients : \A i \in DOMAIN reading'[d] :
             \E k \in DOMAIN reading[d] : reading'[d][i] = reading[d][k]
    BY <1>1 DEF TypeOK
  <1> QED BY <1>1, <1>2, <1>3, <1>4, BasisLose

LEMMA BasisPop ==
    ASSUME TypeOK, TypeOK', Basis, NEW c \in Clients, Ack(c) \/ Reject(c)
    PROVE  Basis'
  <1>1. /\ UNCHANGED <<history, since, clean, reading, callbacks>>
        /\ pending' = [pending EXCEPT ![c] = Tail(@)]
    BY DEF Ack, Reject, server, aux
  <1>2. pending[c] \in Seq(Writes) /\ pending[c] # <<>>
    <2>1. CASE Ack(c)
      <3>1. /\ applied[c] \in Seq(1 .. Len(history)) /\ applied[c] # <<>>
            /\ pending[c] \in Seq(Writes)
            /\ Len(applied[c]) <= Len(pending[c])
        BY <2>1 DEF Ack, TypeOK
      <3> QED BY <3>1
    <2>2. CASE Reject(c)
      BY <2>2 DEF Reject, TypeOK
    <2> QED BY <2>1, <2>2
  <1>3. \A d \in Clients : cached[d] <= cached'[d]
    <2>1. CASE Reject(c)
      BY <2>1 DEF Reject, TypeOK
    <2>2. CASE Ack(c)
      <3>1. Head(applied[c]) \in Nat /\ \A d \in Clients : cached[d] \in Nat
        BY <2>2, HeadTailProperties, SMTT(30) DEF Ack, TypeOK
      <3>2. cached' = [cached EXCEPT ![c] = Newer(@, Head(applied[c]))]
        BY <2>2 DEF Ack
      <3>3. cached[c] <= Newer(cached[c], Head(applied[c]))
        BY <3>1 DEF Newer
      <3>4. cached \in [Clients -> Nat]
        BY DEF TypeOK
      <3> QED BY <3>1, <3>2, <3>3, <3>4
    <2> QED BY <2>1, <2>2
  <1>4. \A d \in Clients : \A i \in DOMAIN pending'[d] :
             \E k \in DOMAIN pending[d] : pending'[d][i] = pending[d][k]
    <2> TAKE d \in Clients
    <2>1. CASE d = c
      <3>1. pending'[c] = Tail(pending[c])
        BY <1>1 DEF TypeOK
      <3> QED BY <1>2, <2>1, <3>1, TailElements
    <2>2. CASE d # c
      BY <1>1, <2>2 DEF TypeOK
    <2> QED BY <2>1, <2>2
  <1> QED BY <1>1, <1>3, <1>4, BasisLose

LEMMA BasisCommit ==
    ASSUME TypeOK, TypeOK', Basis, NEW c \in Clients, Commit(c)
    PROVE  Basis'
  <1>1. UNCHANGED <<cached, pending, reading, callbacks, since, clean>>
    BY DEF Commit, aux
  <1>2. CASE UNCHANGED history
    BY <1>1, <1>2, BasisSame DEF aux
  <1>3. CASE history' = Append(history, pending[c][Len(applied[c]) + 1])
    <2> DEFINE write == pending[c][Len(applied[c]) + 1]
    <2>1. /\ applied[c] \in Seq(1 .. Len(history))
          /\ pending[c] \in Seq(Writes)
          /\ Len(applied[c]) < Len(pending[c])
          /\ history \in Seq(Writes)
      BY DEF Commit, TypeOK
    <2>2. write \in Writes
      BY <2>1
    <2>3. Len(history) \in Nat /\ Len(history') = Len(history) + 1
      BY <1>3, <2>1, <2>2, AppendProperties
    <2>4. \A m \in Nat :
             Standing(m, Len(history))' \subseteq Standing(m, Len(history))
      BY <1>3, <2>2, StandingShrinks
    <2>5. WritesBased'
      <3> SUFFICES ASSUME NEW d \in Clients, NEW i \in DOMAIN pending[d]
                   PROVE  /\ since[d] <= pending[d][i].since
                          /\ pending[d][i].since <= Len(history')
                          /\ clean[d] => pending[d][i].clean
                          /\ pending[d][i].clean =>
                               Standing(pending[d][i].since, Len(history))'
                                 \subseteq Range(pending[d][i].list)
        BY <1>1 DEF WritesBased
      <3>1. pending[d][i].since \in Nat
        <4>1. pending[d] \in Seq(Writes)
          BY DEF TypeOK
        <4>2. pending[d][i] \in Writes
          BY <4>1, LenProperties, ElementOfSeq
        <4> QED BY <4>2 DEF Writes
      <3>2. Standing(pending[d][i].since, Len(history))'
               \subseteq Standing(pending[d][i].since, Len(history))
        BY <1>1, <2>4, <3>1
      <3>3. pending[d][i].since <= Len(history')
        BY <2>3, <3>1 DEF Basis, WritesBased
      <3> QED BY <3>2, <3>3 DEF Basis, WritesBased
    <2>6. AnswersBased'
      <3> SUFFICES ASSUME NEW d \in Clients, NEW i \in DOMAIN callbacks[d], clean[d]
                   PROVE  Standing(since[d], Len(history))'
                            \subseteq Range(callbacks[d][i].list)
        BY <1>1 DEF AnswersBased
      <3>1. since[d] \in Nat
        BY DEF TypeOK
      <3>2. Standing(since[d], Len(history))' \subseteq Standing(since[d], Len(history))
        BY <1>1, <2>4, <3>1
      <3> QED BY <3>2 DEF Basis, AnswersBased
    <2>7. ReadsBased'
      <3> SUFFICES ASSUME NEW d \in Clients, NEW i \in DOMAIN reading[d]
                   PROVE  reading[d][i].at \in since[d] .. Len(history')
        BY <1>1 DEF ReadsBased
      <3>1. reading[d][i].at \in since[d] .. Len(history) /\ since[d] \in Nat
        BY DEF Basis, ReadsBased, TypeOK
      <3> QED BY <2>3, <3>1
    <2>8. CacheBased'
      BY <1>1 DEF Basis, CacheBased, Attached
    <2> QED BY <2>5, <2>6, <2>7, <2>8 DEF Basis
  <1> QED BY <1>2, <1>3 DEF Commit

LEMMA BasisCallback ==
    ASSUME TypeOK, TypeOK', Basis, NEW c \in Clients, Callback(c)
    PROVE  Basis'
  <1>1. /\ UNCHANGED <<history, cached, since, clean>>
        /\ callbacks[c] \in Seq(Answers) /\ callbacks[c] # <<>>
    BY DEF Callback, server, aux, TypeOK
  <1>2. \A d \in Clients : cached[d] <= cached'[d]
    BY <1>1 DEF TypeOK
  <1>3. CASE ~signedIn[c]
    <2>1. /\ UNCHANGED pending
          /\ reading' = [reading EXCEPT ![c] = <<>>]
          /\ callbacks' = [callbacks EXCEPT ![c] = <<>>]
      BY <1>3 DEF Callback
    <2>2. \A d \in Clients : \A i \in DOMAIN callbacks'[d] :
               \E k \in DOMAIN callbacks[d] : callbacks'[d][i] = callbacks[d][k]
      BY <2>1 DEF TypeOK
    <2>3. \A d \in Clients : \A i \in DOMAIN reading'[d] :
               \E k \in DOMAIN reading[d] : reading'[d][i] = reading[d][k]
      BY <2>1 DEF TypeOK
    <2> QED BY <1>1, <1>2, <2>1, <2>2, <2>3, BasisLose
  <1>4. CASE signedIn[c]
    <2> DEFINE answer   == Head(callbacks[c])
               userData == [user |-> UserOf[c], tap |-> answer.tap]
               write    == [tap   |-> answer.tap,
                            list  |-> NewRequests(answer.list, userData),
                            since |-> since[c],
                            clean |-> clean[c]]
    <2>1. /\ pending' = [pending EXCEPT ![c] = Append(@, write)]
          /\ callbacks' = [callbacks EXCEPT ![c] = Tail(@)]
          /\ UNCHANGED reading
      BY <1>4 DEF Callback
    <2>2. answer \in Answers /\ answer = callbacks[c][1] /\ 1 \in DOMAIN callbacks[c]
      BY <1>1
    <2>3. pending[c] \in Seq(Writes) /\ pending'[c] = Append(pending[c], write)
      BY <2>1 DEF TypeOK
    <2>4. write.since = since[c] /\ write.clean = clean[c]
      OBVIOUS
    <2>5. clean[c] => Standing(since[c], Len(history)) \subseteq Range(write.list)
      <3>1. answer.list \in Seq(Entries) /\ answer.tap \in Taps
        BY <2>2 DEF Answers, Lists
      <3>2. userData \in Entries
        BY <3>1, RequestConstants DEF Entries
      <3>3. Range(answer.list) \subseteq Range(write.list)
        BY <3>1, <3>2, AppendKeeps DEF NewRequests
      <3>4. clean[c] => Standing(since[c], Len(history)) \subseteq Range(answer.list)
        BY <2>2 DEF Basis, AnswersBased
      <3> QED BY <3>3, <3>4
    <2>6. write \in Writes
      <3>1. answer.list \in Seq(Entries) /\ answer.tap \in Taps
        BY <2>2 DEF Answers, Lists
      <3>2. userData \in Entries
        BY <3>1, RequestConstants DEF Entries
      <3>3. NewRequests(answer.list, userData) \in Lists
        BY <3>1, <3>2, AppendProperties DEF NewRequests, Lists
      <3> QED BY <3>1, <3>3 DEF Writes, TypeOK
    <2> HIDE DEF write
    <2>7. WritesBased'
      <3> SUFFICES ASSUME NEW d \in Clients, NEW i \in DOMAIN pending'[d]
                   PROVE  /\ since[d] <= pending'[d][i].since
                          /\ pending'[d][i].since <= Len(history)
                          /\ clean[d] => pending'[d][i].clean
                          /\ pending'[d][i].clean =>
                               Standing(pending'[d][i].since, Len(history))
                                 \subseteq Range(pending'[d][i].list)
        <4>1. \A d \in Clients : \A i \in DOMAIN pending'[d] :
                 Standing(pending[d][i].since, Len(history))'
                   = Standing(pending'[d][i].since, Len(history))
          BY <1>1 DEF Standing, ListAt
        <4> QED BY <1>1, <4>1 DEF WritesBased
      <3>1. CASE d # c \/ i \in DOMAIN pending[c]
        <4>1. i \in DOMAIN pending[d] /\ pending'[d][i] = pending[d][i]
          <5>1. CASE d # c
            BY <2>1, <5>1 DEF TypeOK
          <5>2. CASE d = c /\ i \in DOMAIN pending[c]
            BY <2>3, <2>6, <5>2, AppendProperties, LenProperties
          <5> QED BY <3>1, <5>1, <5>2
        <4> QED BY <4>1 DEF Basis, WritesBased
      <3>2. CASE d = c /\ i \notin DOMAIN pending[c]
        <4>1. pending'[c][i] = write
          BY <2>3, <3>2
        <4>2. since[c] \in 0 .. Len(history)
          BY DEF TypeOK
        <4>3. since[c] <= pending'[c][i].since /\ pending'[c][i].since <= Len(history)
          BY <2>4, <4>1, <4>2
        <4> QED BY <2>4, <2>5, <3>2, <4>1, <4>3
      <3> QED BY <3>1, <3>2
    <2>8. AnswersBased' /\ CacheBased'
      <3>1. ASSUME NEW d \in Clients, NEW i \in DOMAIN callbacks'[d]
            PROVE  \E k \in DOMAIN callbacks[d] : callbacks'[d][i] = callbacks[d][k]
        <4>1. CASE d = c
          <5>1. callbacks'[c] = Tail(callbacks[c])
            BY <2>1 DEF TypeOK
          <5> QED BY <1>1, <4>1, <5>1, TailElements
        <4>2. CASE d # c
          BY <2>1, <4>2 DEF TypeOK
        <4> QED BY <4>1, <4>2
      <3>2. AnswersBased'
        <4> SUFFICES ASSUME NEW d \in Clients, NEW i \in DOMAIN callbacks'[d], clean[d]
                     PROVE  Standing(since[d], Len(history))
                              \subseteq Range(callbacks'[d][i].list)
          BY <1>1, StandingSame DEF AnswersBased
        <4> QED BY <3>1 DEF Basis, AnswersBased
      <3>3. CacheBased'
        BY <1>1, <3>1 DEF Basis, CacheBased, Attached
      <3> QED BY <3>2, <3>3
    <2>9. ReadsBased'
      BY <1>1, <2>1 DEF Basis, ReadsBased
    <2> QED BY <2>7, <2>8, <2>9 DEF Basis
  <1> QED BY <1>3, <1>4

LEMMA BasisStep ==
    ASSUME TypeOK, Basis, NEW c \in Clients, Step(c)
    PROVE  Basis'
  <1>1. TypeOK'
    BY TypeStep
  <1>2. CASE Launch(c) \/ SignIn(c) \/ OpenDetails(c) \/ Back(c) \/ Reconnect(c)
    BY <1>2, BasisSame
       DEF Launch, SignIn, OpenDetails, Back, Reconnect, server, client
  <1>3. CASE Disconnect(c) \/ ForcedSignOut(c)
    BY <1>3, BasisSame DEF Disconnect, ForcedSignOut, server
  <1>4. CASE Ack(c) \/ Reject(c)
    BY <1>1, <1>4, BasisPop
  <1>5. CASE AnswerFromServer(c) \/ AnswerFromCache(c) \/ AnswerError(c)
    BY <1>1, <1>5, BasisAnswer
  <1> QED BY <1>1, <1>2, <1>3, <1>4, <1>5, BasisFetchList, BasisTap, BasisCallback,
             BasisCommit, BasisTerminate DEF Step

-----------------------------------------------------------------------------
(***************************************************************************)
(* Requests survive                                                        *)
(***************************************************************************)
RequestsInv == TypeOK /\ Basis /\ StandingRequestsSurvive

LEMMA SurviveSame ==
    ASSUME StandingRequestsSurvive, UNCHANGED history
    PROVE  StandingRequestsSurvive'
  BY DEF StandingRequestsSurvive, Standing, ListAt

LEMMA SurviveCommit ==
    ASSUME TypeOK, Basis, StandingRequestsSurvive, NEW c \in Clients, Commit(c)
    PROVE  StandingRequestsSurvive'
  <1>1. CASE UNCHANGED history
    BY <1>1, SurviveSame
  <1>2. CASE history' = Append(history, pending[c][Len(applied[c]) + 1])
    <2> DEFINE k == Len(applied[c]) + 1
               write == pending[c][k]
    <2>1. /\ k \in DOMAIN pending[c]
          /\ pending[c] \in Seq(Writes)
          /\ history \in Seq(Writes)
      BY DEF Commit, TypeOK
    <2>2. write \in Writes
      BY <2>1
    <2>3. /\ Len(history) \in Nat
          /\ Len(history') = Len(history) + 1
          /\ DOMAIN history' = 1 .. Len(history) + 1
          /\ \A j \in 1 .. Len(history) : history'[j] = history[j]
          /\ history'[Len(history) + 1] = write
      BY <1>2, <2>1, <2>2, AppendProperties, LenProperties
    <2>5. \A j \in 1 .. Len(history) + 1 : history'[j].since \in Nat
      <3>1. \A j \in 1 .. Len(history) + 1 : history'[j] \in Writes
        BY <2>1, <2>2, <2>3, AppendProperties, <1>2
      <3> QED BY <3>1 DEF Writes
    <2> SUFFICES ASSUME NEW j \in 1 .. Len(history) + 1, history'[j].clean
                 PROVE  Standing(history'[j].since, j - 1)
                          \subseteq Range(history'[j].list)
      <3>1. \A j \in 1 .. Len(history) + 1 :
               Standing(history[j].since, j - 1)' = Standing(history'[j].since, j - 1)
        <4>1. \A j \in 1 .. Len(history) + 1 :
                 Standing(history[j].since, j - 1)'
                   = {e \in Entries : \A n \in history'[j].since .. j - 1 :
                                         e \in Range(ListAt(n)')}
          BY DEF Standing
        <4>2. \A j \in 1 .. Len(history) + 1 :
                 \A n \in history'[j].since .. j - 1 : ListAt(n)' = ListAt(n)
          <5>1. \A n \in 0 .. Len(history) : ListAt(n)' = ListAt(n)
            BY <2>3 DEF ListAt
          <5> QED BY <2>3, <2>5, <5>1
        <4> QED BY <4>1, <4>2 DEF Standing
      <3> QED BY <2>3, <3>1 DEF StandingRequestsSurvive
    <2>6. CASE j \in 1 .. Len(history)
      BY <2>1, <2>3, <2>6, LenProperties DEF StandingRequestsSurvive
    <2>7. CASE j = Len(history) + 1
      <3>1. history'[j] = write /\ write.clean /\ j - 1 = Len(history)
        BY <2>3, <2>7
      <3>2. Standing(write.since, Len(history)) \subseteq Range(write.list)
        BY <2>1, <3>1 DEF Basis, WritesBased
      <3> QED BY <3>1, <3>2
    <2> QED BY <2>3, <2>6, <2>7
  <1> QED BY <1>1, <1>2 DEF Commit

LEMMA RequestsInvariance == Spec => []RequestsInv
  <1>1. Init => RequestsInv
    <2>1. Init => StandingRequestsSurvive
      BY DEF Init, StandingRequestsSurvive
    <2> QED BY <2>1, TypeInit, BasisInit DEF RequestsInv
  <1>2. RequestsInv /\ [Next]_vars => RequestsInv'
    <2> SUFFICES ASSUME RequestsInv, [Next]_vars
                 PROVE  RequestsInv'
      OBVIOUS
    <2> USE DEF RequestsInv
    <2>1. CASE UNCHANGED vars
      BY <2>1, TypeStutter, BasisSame, SurviveSame DEF vars, aux
    <2>2. ASSUME NEW c \in Clients, Step(c)
          PROVE  RequestsInv'
      <3>1. TypeOK' /\ Basis'
        BY <2>2, TypeStep, BasisStep
      <3>2. CASE Commit(c)
        BY <3>1, <3>2, SurviveCommit
      <3>3. CASE ~Commit(c)
        <4>1. UNCHANGED history
          BY <2>2, <3>3 DEF Step, Launch, SignIn, FetchList, OpenDetails, Back, Tap,
             AnswerFromServer, AnswerFromCache, AnswerError, Callback, Ack, Reject,
             Disconnect, Reconnect, ForcedSignOut, Terminate, server
        <4> QED BY <3>1, <4>1, SurviveSame
      <3> QED BY <3>2, <3>3
    <2> QED BY <2>1, <2>2, NextIsStep
  <1> QED BY <1>1, <1>2, PTL DEF Spec

\* Whatever clients, caches, queues and faults do, only racing requests can be
\* lost: a write keeps every request that stood since its device became busy.
THEOREM RequestsSurvive == Spec => []StandingRequestsSurvive
  <1>1. RequestsInv => StandingRequestsSurvive
    BY DEF RequestsInv
  <1> QED BY <1>1, RequestsInvariance, PTL

\* What every device has read, been answered and queued rests on all the
\* requests that stand since the device became busy, and its cache is as new.
THEOREM WritesRestOnStanding == Spec => []Basis
  <1>1. RequestsInv => Basis
    BY DEF RequestsInv
  <1> QED BY <1>1, RequestsInvariance, PTL

-----------------------------------------------------------------------------
(***************************************************************************)
(* The lists: what a tap adds is added once, and it is never the owner of  *)
(* the book.                                                               *)
(***************************************************************************)

\* No owner among the entries, and no two of them from one tap.
Fine(list) ==
    /\ \A x \in DOMAIN list : list[x].user # Owner
    /\ \A x, y \in DOMAIN list : list[x].tap = list[y].tap => x = y

Names(list, tap) == \E x \in DOMAIN list : list[x].tap = tap

\* A list that can get into the document, or be built on.
Held(list) ==
    \/ list = <<>>
    \/ \E j \in DOMAIN history : list = history[j].list
    \/ \E c \in Clients : \E i \in DOMAIN pending[c] : list = pending[c][i].list
    \/ \E c \in Clients : \E i \in DOMAIN callbacks[c] : list = callbacks[c][i].list

Unlisted(tap) == \A list \in Lists : Held(list) => ~ Names(list, tap)

\* The tap waits for its answer or its callback.
Open(c, tap) ==
    \/ \E i \in DOMAIN callbacks[c] : callbacks[c][i].tap = tap
    \/ \E i \in DOMAIN reading[c] : reading[c][i].tap = tap

ListsFine == \A list \in Lists : Held(list) => Fine(list)

\* What is open or still to come is in no list.
TapsFresh ==
    /\ \A tap \in Taps : tap > taps => Unlisted(tap)
    /\ \A c \in Clients : \A tap \in Taps : Open(c, tap) => tap <= taps /\ Unlisted(tap)

\* A tap is open at most once.
OpenApart ==
    \A c, d \in Clients : \A tap \in Taps : Open(c, tap) /\ Open(d, tap) => c = d
OpenOnce ==
    \A c \in Clients :
        /\ \A i, j \in DOMAIN callbacks[c] : callbacks[c][i].tap = callbacks[c][j].tap => i = j
        /\ \A i, j \in DOMAIN reading[c] : reading[c][i].tap = reading[c][j].tap => i = j
        /\ \A i \in DOMAIN callbacks[c] : \A j \in DOMAIN reading[c] :
              callbacks[c][i].tap # reading[c][j].tap

\* Only where nobody is signed in can the owner's device have asked, and
\* there the callback ends the app.
OwnerAway ==
    \A c \in Clients :
        /\ screen[c] \in {"stopped", "crashed", "auth"}
              => reading[c] = <<>> /\ callbacks[c] = <<>>
        /\ UserOf[c] = Owner
             /\ (screen[c] = "request" \/ reading[c] # <<>> \/ callbacks[c] # <<>>)
              => ~ signedIn[c]

TapsInv == ListsFine /\ TapsFresh /\ OpenApart /\ OpenOnce
ListsInv == TypeOK /\ TapsInv /\ OwnerAway

\* A step that makes no new list, and opens no tap but a new one.
Shrinks ==
    /\ taps' \in Nat /\ taps <= taps'
    /\ \A list \in Lists : Held(list)' => Held(list)
    /\ \A c \in Clients : \A tap \in Taps : Open(c, tap)' => Open(c, tap) \/ tap > taps

\* A step that makes one new list, by adding the entry of an open tap to a
\* list that exists, and closes that tap.
Adds ==
    \E tap \in Taps, user \in Users, list \in Lists :
        /\ Held(list) /\ tap <= taps /\ \E c \in Clients : Open(c, tap)
        /\ \A other \in Lists :
              Held(other)' => Held(other) \/ other = Append(list, [user |-> user, tap |-> tap])
        /\ \A c \in Clients : \A t \in Taps : Open(c, t)' <=> Open(c, t) /\ t # tap
        /\ UNCHANGED <<history, taps>>

-----------------------------------------------------------------------------
(* Steps that make no new list and open no tap.                            *)

LEMMA TapsKept ==
    ASSUME TypeOK, TapsInv, OpenOnce', taps' = taps,
           \A list \in Lists : Held(list)' => Held(list),
           \A c \in Clients : \A tap \in Taps : Open(c, tap)' => Open(c, tap)
    PROVE  TapsInv' /\ Shrinks
  <1>1. ListsFine'
    BY DEF TapsInv, ListsFine
  <1>2. \A tap \in Taps : Unlisted(tap) => Unlisted(tap)'
    BY DEF Unlisted
  <1>3. TapsFresh'
    BY <1>2 DEF TapsInv, TapsFresh
  <1>4. OpenApart'
    BY DEF TapsInv, OpenApart
  <1>5. Shrinks
    BY DEF Shrinks, TypeOK
  <1> QED BY <1>1, <1>3, <1>4, <1>5 DEF TapsInv

LEMMA TapsSame ==
    ASSUME TypeOK, TapsInv, UNCHANGED <<history, pending, reading, callbacks, taps>>
    PROVE  TapsInv' /\ Shrinks
  BY DEF TapsInv, ListsFine, TapsFresh, OpenApart, OpenOnce, Unlisted, Held, Open, Shrinks, TypeOK

\* A device loses its reads and callbacks.
LEMMA TapsLost ==
    ASSUME TypeOK, TapsInv, NEW c \in Clients, UNCHANGED <<history, pending, taps>>,
           reading' = [reading EXCEPT ![c] = <<>>], callbacks' = [callbacks EXCEPT ![c] = <<>>]
    PROVE  TapsInv' /\ Shrinks
  <1>1. \A d \in Clients : /\ reading'[d] = IF d = c THEN <<>> ELSE reading[d]
                           /\ callbacks'[d] = IF d = c THEN <<>> ELSE callbacks[d]
    BY DEF TypeOK
  <1>2. OpenOnce'
    BY <1>1 DEF TapsInv, OpenOnce
  <1>3. \A list \in Lists : Held(list)' => Held(list)
    BY <1>1 DEF Held
  <1>4. \A d \in Clients : \A tap \in Taps : Open(d, tap)' => Open(d, tap)
    BY <1>1 DEF Open
  <1> QED BY <1>2, <1>3, <1>4, TapsKept

LEMMA TapsPop ==
    ASSUME TypeOK, TapsInv, NEW c \in Clients, Ack(c) \/ Reject(c)
    PROVE  TapsInv' /\ Shrinks
  <1>1. /\ UNCHANGED <<history, reading, callbacks, taps>>
        /\ pending' = [pending EXCEPT ![c] = Tail(@)]
        /\ pending[c] \in Seq(Writes) /\ pending[c] # <<>>
    <2>1. CASE Ack(c)
      <3>1. /\ applied[c] \in Seq(1 .. Len(history)) /\ applied[c] # <<>>
            /\ pending[c] \in Seq(Writes) /\ Len(applied[c]) <= Len(pending[c])
        BY <2>1 DEF Ack, TypeOK
      <3> QED BY <2>1, <3>1 DEF Ack, server
    <2>2. CASE Reject(c)
      BY <2>2 DEF Reject, TypeOK, server
    <2> QED BY <2>1, <2>2
  <1>2. ASSUME NEW d \in Clients, NEW i \in DOMAIN pending'[d]
        PROVE  \E k \in DOMAIN pending[d] : pending'[d][i] = pending[d][k]
    <2>1. CASE d = c
      <3>1. pending'[c] = Tail(pending[c])
        BY <1>1 DEF TypeOK
      <3> QED BY <1>1, <2>1, <3>1, TailElements
    <2>2. CASE d # c
      BY <1>1, <2>2 DEF TypeOK
    <2> QED BY <2>1, <2>2
  <1>3. OpenOnce'
    BY <1>1 DEF TapsInv, OpenOnce
  <1>4. \A list \in Lists : Held(list)' => Held(list)
    BY <1>1, <1>2 DEF Held
  <1>5. \A d \in Clients : \A tap \in Taps : Open(d, tap)' => Open(d, tap)
    BY <1>1 DEF Open
  <1> QED BY <1>1, <1>3, <1>4, <1>5, TapsKept

LEMMA TapsCommit ==
    ASSUME TypeOK, TapsInv, NEW c \in Clients, Commit(c)
    PROVE  TapsInv' /\ Shrinks
  <1>1. UNCHANGED <<pending, reading, callbacks, taps>>
    BY DEF Commit
  <1>2. CASE UNCHANGED history
    BY <1>1, <1>2, TapsSame
  <1>3. CASE history' = Append(history, pending[c][Len(applied[c]) + 1])
    <2>1. /\ Len(applied[c]) + 1 \in DOMAIN pending[c] /\ pending[c] \in Seq(Writes)
          /\ history \in Seq(Writes)
      BY DEF Commit, TypeOK
    <2>2. ASSUME NEW j \in DOMAIN history'
          PROVE  \/ j \in DOMAIN history /\ history'[j] = history[j]
                 \/ history'[j] = pending[c][Len(applied[c]) + 1]
      BY <1>3, <2>1, AppendProperties
    <2>3. OpenOnce'
      BY <1>1 DEF TapsInv, OpenOnce
    <2>4. \A list \in Lists : Held(list)' => Held(list)
      BY <1>1, <2>1, <2>2 DEF Held
    <2>5. \A d \in Clients : \A tap \in Taps : Open(d, tap)' => Open(d, tap)
      BY <1>1 DEF Open
    <2> QED BY <1>1, <2>3, <2>4, <2>5, TapsKept
  <1> QED BY <1>2, <1>3 DEF Commit

-----------------------------------------------------------------------------
(* Taps, answers and callbacks.                                            *)

LEMMA TapsTap ==
    ASSUME TypeOK, TapsInv, NEW c \in Clients, Tap(c)
    PROVE  TapsInv' /\ Shrinks
  <1> DEFINE new == [tap |-> taps + 1, at |-> Len(history)]
             n   == Len(reading[c])
  <1>1. /\ UNCHANGED <<history, pending, callbacks>> /\ taps' = taps + 1 /\ taps < MaxTaps
        /\ reading' = [reading EXCEPT ![c] = Append(@, new)]
        /\ taps \in Nat /\ MaxTaps \in Nat
    BY RequestConstants DEF Tap, server, TypeOK, RequestConstants
  <1>2. new \in Reads /\ new.tap = taps + 1 /\ taps + 1 \in Taps
    BY <1>1 DEF Reads, Taps, TypeOK
  <1> HIDE DEF new
  <1>3. /\ reading[c] \in Seq(Reads) /\ n \in Nat /\ DOMAIN reading[c] = 1 .. n
        /\ DOMAIN reading'[c] = 1 .. n + 1 /\ reading'[c][n + 1] = new
        /\ \A i \in 1 .. n : reading'[c][i] = reading[c][i]
        /\ \A d \in Clients : d # c => reading'[d] = reading[d]
    BY <1>1, <1>2, AppendProperties DEF TypeOK
  <1> HIDE DEF n
  <1>4. \A d \in Clients : \A tap \in Taps : Open(d, tap) => tap <= taps
    BY DEF TapsInv, TapsFresh
  <1>5. ASSUME NEW d \in Clients, NEW tap \in Taps
        PROVE  Open(d, tap)' => Open(d, tap) \/ (d = c /\ tap = taps + 1)
    BY <1>1, <1>2, <1>3 DEF Open
  <1>6. OpenOnce'
    <2>1. \A i \in DOMAIN callbacks[c] : callbacks[c][i].tap \in Taps
      <3>1. callbacks[c] \in Seq(Answers)
        BY DEF TypeOK
      <3>2. \A i \in DOMAIN callbacks[c] : callbacks[c][i] \in Answers
        BY <3>1
      <3> QED BY <3>2 DEF Answers
    <2>2. \A i \in DOMAIN reading[c] : reading[c][i].tap \in Taps
      <3>1. \A i \in DOMAIN reading[c] : reading[c][i] \in Reads
        BY <1>3
      <3> QED BY <3>1 DEF Reads
    <2>3. /\ \A i \in DOMAIN callbacks[c] : callbacks[c][i].tap # taps + 1
          /\ \A i \in DOMAIN reading[c] : reading[c][i].tap # taps + 1
      BY <1>1, <1>4, <2>1, <2>2 DEF Open, Taps
    <2>4. ASSUME NEW d \in Clients
          PROVE  /\ \A i, j \in DOMAIN callbacks'[d] :
                       callbacks'[d][i].tap = callbacks'[d][j].tap => i = j
                 /\ \A i, j \in DOMAIN reading'[d] :
                       reading'[d][i].tap = reading'[d][j].tap => i = j
                 /\ \A i \in DOMAIN callbacks'[d] : \A j \in DOMAIN reading'[d] :
                       callbacks'[d][i].tap # reading'[d][j].tap
      <3>1. CASE d # c
        BY <1>1, <1>3, <3>1 DEF TapsInv, OpenOnce
      <3>2. CASE d = c
        BY <1>1, <1>2, <1>3, <2>3, <3>2 DEF TapsInv, OpenOnce
      <3> QED BY <3>1, <3>2
    <2> QED BY <2>4 DEF OpenOnce
  <1>7. \A list \in Lists : Held(list)' <=> Held(list)
    BY <1>1 DEF Held
  <1>8. \A tap \in Taps : Unlisted(tap)' <=> Unlisted(tap)
    BY <1>7 DEF Unlisted
  <1>9. TapsFresh'
    <2>1. \A tap \in Taps : tap > taps => Unlisted(tap)'
      BY <1>8 DEF TapsInv, TapsFresh
    <2>2. \A tap \in Taps : tap > taps' => tap > taps
      BY <1>1 DEF Taps
    <2>3. ASSUME NEW d \in Clients, NEW tap \in Taps, Open(d, tap)'
          PROVE  tap <= taps' /\ Unlisted(tap)'
      <3>1. CASE Open(d, tap)
        BY <1>1, <1>8, <3>1 DEF TapsInv, TapsFresh, Taps
      <3>2. CASE tap = taps + 1
        BY <1>1, <2>1, <3>2
      <3> QED BY <1>5, <2>3, <3>1, <3>2
    <2> QED BY <2>1, <2>2, <2>3 DEF TapsFresh
  <1>10. ListsFine'
    BY <1>7 DEF TapsInv, ListsFine
  <1>11. OpenApart'
    <2> SUFFICES ASSUME NEW d \in Clients, NEW e \in Clients, NEW tap \in Taps,
                        Open(d, tap)', Open(e, tap)'
                 PROVE  d = e
      BY DEF OpenApart
    <2>1. CASE tap = taps + 1
      <3>1. ~ Open(d, tap) /\ ~ Open(e, tap)
        BY <1>1, <1>4, <2>1
      <3> QED BY <1>5, <3>1
    <2>2. CASE tap # taps + 1
      BY <1>5, <2>2 DEF TapsInv, OpenApart
    <2> QED BY <2>1, <2>2
  <1>12. Shrinks
    BY <1>1, <1>5, <1>7 DEF Shrinks
  <1> QED BY <1>6, <1>9, <1>10, <1>11, <1>12 DEF TapsInv

\* What the client reports is a list that it holds.
LEMMA ViewHeld ==
    ASSUME TypeOK, NEW c \in Clients, NEW n \in 0 .. Len(history)
    PROVE  Held(LocalView(c, n))
  <1>1. CASE signedIn[c] /\ pending[c] # <<>>
    <2>1. Len(pending[c]) \in DOMAIN pending[c]
      BY <1>1 DEF TypeOK
    <2> QED BY <1>1, <2>1 DEF LocalView, Held
  <1>2. CASE ~ (signedIn[c] /\ pending[c] # <<>>)
    <2>1. LocalView(c, n) = ListAt(n)
      BY <1>2 DEF LocalView
    <2>2. n = 0 \/ n \in DOMAIN history
      BY DEF TypeOK
    <2> QED BY <2>1, <2>2 DEF ListAt, Held
  <1> QED BY <1>1, <1>2

LEMMA TapsRaise ==
    ASSUME TypeOK, TapsInv, NEW c \in Clients, NEW list \in Lists, NEW ok \in BOOLEAN,
           Held(list), Raise(c, list, ok), UNCHANGED <<history, pending, taps>>
    PROVE  TapsInv' /\ Shrinks
  <1> DEFINE new == [i \in 1 .. Len(reading[c]) |->
                       [tap |-> reading[c][i].tap, list |-> list, ok |-> ok]]
             m == Len(callbacks[c])
             n == Len(reading[c])
  <1>1. /\ reading[c] \in Seq(Reads) /\ callbacks[c] \in Seq(Answers)
        /\ m \in Nat /\ n \in Nat /\ DOMAIN callbacks[c] = 1 .. m /\ DOMAIN reading[c] = 1 .. n
    BY DEF TypeOK
  <1>2. new \in Seq(Answers) /\ Len(new) = n /\ \A i \in 1 .. n : new[i].tap = reading[c][i].tap
    <2>1. \A i \in 1 .. n : reading[c][i] \in Reads
      BY <1>1
    <2>2. \A i \in 1 .. n : [tap |-> reading[c][i].tap, list |-> list, ok |-> ok] \in Answers
      BY <2>1 DEF Answers, Reads
    <2>3. new \in [1 .. n -> Answers]
      BY <2>2
    <2>4. \A i \in 1 .. n : new[i].tap = reading[c][i].tap
      OBVIOUS
    <2> HIDE DEF new, n
    <2>5. new \in Seq(Answers) /\ Len(new) = n
      BY <1>1, <2>3
    <2> QED BY <2>4, <2>5
  <1>3. /\ reading'[c] = <<>> /\ callbacks'[c] = callbacks[c] \o new
        /\ \A d \in Clients : d # c => reading'[d] = reading[d] /\ callbacks'[d] = callbacks[d]
    BY DEF Raise, TypeOK
  <1> HIDE DEF new, m, n
  <1>4. /\ DOMAIN callbacks'[c] = 1 .. m + n
        /\ \A i \in 1 .. m : callbacks'[c][i] = callbacks[c][i]
        /\ \A i \in m + 1 .. m + n : callbacks'[c][i].tap = reading[c][i - m].tap
                                     /\ i - m \in DOMAIN reading[c]
    <2>1. Len(callbacks[c]) = m
      BY DEF m
    <2>2. Len(callbacks[c] \o new) = m + n /\ callbacks[c] \o new \in Seq(Answers)
      BY <1>1, <1>2, <2>1, ConcatProperties
    <2>3. DOMAIN (callbacks[c] \o new) = 1 .. m + n
      BY <2>2
    <2>4. ASSUME NEW i \in 1 .. m
          PROVE  (callbacks[c] \o new)[i] = callbacks[c][i]
      BY <1>1, <1>2, <2>1, ConcatProperties
    <2>5. ASSUME NEW i \in m + 1 .. m + n
          PROVE  (callbacks[c] \o new)[i].tap = reading[c][i - m].tap /\ i - m \in DOMAIN reading[c]
      <3>1. i - m \in 1 .. n
        BY <1>1
      <3>2. (callbacks[c] \o new)[i] = new[i - m]
        BY <1>1, <1>2, <2>1, <3>1, ConcatProperties
      <3> QED BY <1>1, <1>2, <3>1, <3>2
    <2> QED BY <1>3, <2>3, <2>4, <2>5
  <1>5. OpenOnce'
    <2>1. ASSUME NEW d \in Clients
          PROVE  /\ \A i, j \in DOMAIN callbacks'[d] :
                       callbacks'[d][i].tap = callbacks'[d][j].tap => i = j
                 /\ \A i, j \in DOMAIN reading'[d] :
                       reading'[d][i].tap = reading'[d][j].tap => i = j
                 /\ \A i \in DOMAIN callbacks'[d] : \A j \in DOMAIN reading'[d] :
                       callbacks'[d][i].tap # reading'[d][j].tap
      <3>1. CASE d # c
        BY <1>3, <3>1 DEF TapsInv, OpenOnce
      <3>2. CASE d = c
        <4>1. ASSUME NEW i \in 1 .. m + n, NEW j \in 1 .. m + n,
                     callbacks'[c][i].tap = callbacks'[c][j].tap
              PROVE  i = j
          <5>1. CASE i <= m /\ j <= m
            <6>1. i \in DOMAIN callbacks[c] /\ j \in DOMAIN callbacks[c]
              BY <1>1, <5>1
            <6>2. callbacks[c][i].tap = callbacks[c][j].tap
              BY <1>1, <1>4, <4>1, <6>1
            <6> QED BY <6>1, <6>2 DEF TapsInv, OpenOnce
          <5>2. CASE i > m /\ j > m
            <6>1. /\ i - m \in DOMAIN reading[c] /\ j - m \in DOMAIN reading[c]
                  /\ reading[c][i - m].tap = reading[c][j - m].tap
              BY <1>1, <1>4, <4>1, <5>2
            <6>2. i - m = j - m
              BY <6>1 DEF TapsInv, OpenOnce
            <6> QED BY <1>1, <6>2
          <5>3. CASE i <= m /\ j > m
            <6>1. i \in DOMAIN callbacks[c] /\ j - m \in DOMAIN reading[c]
              BY <1>1, <1>4, <5>3
            <6>2. callbacks[c][i].tap = reading[c][j - m].tap
              BY <1>1, <1>4, <4>1, <5>3, <6>1
            <6> QED BY <6>1, <6>2 DEF TapsInv, OpenOnce
          <5>4. CASE i > m /\ j <= m
            <6>1. j \in DOMAIN callbacks[c] /\ i - m \in DOMAIN reading[c]
              BY <1>1, <1>4, <5>4
            <6>2. callbacks[c][j].tap = reading[c][i - m].tap
              BY <1>1, <1>4, <4>1, <5>4, <6>1
            <6> QED BY <6>1, <6>2 DEF TapsInv, OpenOnce
          <5> QED BY <1>1, <5>1, <5>2, <5>3, <5>4
        <4>2. DOMAIN reading'[c] = {}
          BY <1>3
        <4> QED BY <1>4, <3>2, <4>1, <4>2
      <3> QED BY <3>1, <3>2
    <2> QED BY <2>1 DEF OpenOnce
  <1>6. \A other \in Lists : Held(other)' => Held(other)
    <2>1. ASSUME NEW d \in Clients, NEW i \in DOMAIN callbacks'[d]
          PROVE  \/ i \in DOMAIN callbacks[d] /\ callbacks'[d][i] = callbacks[d][i]
                 \/ callbacks'[d][i].list = list
      BY <2>1, RaiseElements
    <2> QED BY <2>1 DEF Held
  <1>7. ASSUME NEW d \in Clients, NEW tap \in Taps, Open(d, tap)'
        PROVE  Open(d, tap)
    <2>1. CASE d # c
      BY <1>3, <1>7, <2>1 DEF Open
    <2>2. CASE d = c
      <3>1. PICK i \in 1 .. m + n : callbacks'[c][i].tap = tap
        <4>1. DOMAIN reading'[c] = {}
          BY <1>3
        <4> QED BY <1>4, <1>7, <2>2, <4>1 DEF Open
      <3>2. CASE i <= m
        <4>1. i \in DOMAIN callbacks[c] /\ callbacks[c][i].tap = tap
          BY <1>1, <1>4, <3>1, <3>2
        <4> QED BY <2>2, <4>1 DEF Open
      <3>3. CASE i > m
        <4>1. i - m \in DOMAIN reading[c] /\ reading[c][i - m].tap = tap
          BY <1>1, <1>4, <3>1, <3>3
        <4> QED BY <2>2, <4>1 DEF Open
      <3> QED BY <1>1, <3>2, <3>3
    <2> QED BY <2>1, <2>2
  <1> QED BY <1>5, <1>6, <1>7, TapsKept

\* The list made for an answer names its tap for the first time.
LEMMA TapsCallback ==
    ASSUME TypeOK, TapsInv, OwnerAway, NEW c \in Clients, Callback(c)
    PROVE  TapsInv' /\ ((Shrinks /\ UNCHANGED history) \/ Adds)
  <1>1. CASE ~ signedIn[c]
    BY <1>1, TapsLost DEF Callback, server
  <1>2. CASE signedIn[c]
    <2> DEFINE answer == Head(callbacks[c])
    <2>0. PICK own : own = answer.tap
      OBVIOUS
    <2> DEFINE entry  == [user |-> UserOf[c], tap |-> own]
               new    == Append(answer.list, entry)
               write  == [tap |-> own, list |-> new, since |-> since[c], clean |-> clean[c]]
               m      == Len(callbacks[c])
    <2>1. /\ pending' = [pending EXCEPT ![c] = Append(@, write)]
          /\ callbacks' = [callbacks EXCEPT ![c] = Tail(@)]
          /\ UNCHANGED <<history, reading, taps>>
          /\ callbacks[c] # <<>>
      BY <1>2, <2>0 DEF Callback, NewRequests, server
    <2>2. /\ callbacks[c] \in Seq(Answers) /\ m \in Nat \ {0} /\ DOMAIN callbacks[c] = 1 .. m
          /\ answer = callbacks[c][1] /\ answer \in Answers
          /\ callbacks'[c] = Tail(callbacks[c]) /\ DOMAIN callbacks'[c] = 1 .. m - 1
          /\ \A i \in 1 .. m - 1 : callbacks'[c][i] = callbacks[c][i + 1]
          /\ \A d \in Clients : d # c => callbacks'[d] = callbacks[d]
      BY <2>1, HeadTailProperties, EmptySeq DEF TypeOK
    <2>3. answer.list \in Seq(Entries) /\ answer.list \in Lists /\ own \in Taps
      BY <2>0, <2>2 DEF Answers, Lists
    <2>4. entry \in Entries /\ entry.user = UserOf[c] /\ entry.tap = own
      BY <2>3, RequestConstants DEF Entries, RequestConstants
    <2>5. /\ new \in Lists /\ DOMAIN new = 1 .. Len(answer.list) + 1
          /\ Len(answer.list) \in Nat /\ DOMAIN answer.list = 1 .. Len(answer.list)
          /\ new[Len(answer.list) + 1] = entry
          /\ \A x \in 1 .. Len(answer.list) : new[x] = answer.list[x]
      BY <2>3, <2>4, AppendProperties DEF Lists
    <2>6. Held(answer.list) /\ Open(c, own)
      BY <2>0, <2>2 DEF Held, Open
    <2>7. UserOf[c] # Owner /\ own <= taps /\ Unlisted(own) /\ Fine(answer.list)
      BY <1>2, <2>1, <2>3, <2>6 DEF OwnerAway, TapsInv, TapsFresh, ListsFine
    <2>8. write.list = new /\ write \in Writes
      BY <2>3, <2>5 DEF Writes, TypeOK
    <2> HIDE DEF write
    <2>9. ASSUME NEW d \in Clients, NEW i \in DOMAIN pending'[d]
          PROVE  \/ i \in DOMAIN pending[d] /\ pending'[d][i] = pending[d][i]
                 \/ pending'[d][i].list = new
      <3>1. pending[c] \in Seq(Writes)
        BY DEF TypeOK
      <3>2. CASE d = c
        <4>1. pending'[c] = Append(pending[c], write)
          BY <2>1 DEF TypeOK
        <4> QED BY <2>8, <2>9, <3>1, <3>2, <4>1, AppendProperties
      <3>3. CASE d # c
        BY <2>1, <2>9, <3>3 DEF TypeOK
      <3> QED BY <3>2, <3>3
    <2>10. ASSUME NEW d \in Clients, NEW i \in DOMAIN callbacks'[d]
           PROVE  \E k \in DOMAIN callbacks[d] : callbacks'[d][i] = callbacks[d][k]
      <3>1. CASE d = c
        <4>1. i \in 1 .. m - 1 /\ i + 1 \in DOMAIN callbacks[c]
          <5>1. i \in 1 .. m - 1
            BY <2>2, <2>10, <3>1
          <5> HIDE DEF m
          <5>2. i + 1 \in 1 .. m
            BY <2>2, <5>1
          <5> QED BY <2>2, <5>1, <5>2
        <4> QED BY <2>2, <3>1, <4>1
      <3>2. CASE d # c
        BY <2>2, <2>10, <3>2
      <3> QED BY <3>1, <3>2
    <2>11. Fine(new) /\ \A tap \in Taps : Names(new, tap) => Names(answer.list, tap) \/ tap = own
      <3>1. \A x \in DOMAIN answer.list : answer.list[x].tap # own
        BY <2>3, <2>6, <2>7 DEF Unlisted, Names
      <3> DEFINE l == Len(answer.list)
      <3>2. /\ DOMAIN new = 1 .. l + 1 /\ l \in Nat /\ DOMAIN answer.list = 1 .. l
            /\ new[l + 1].user = UserOf[c] /\ new[l + 1].tap = own
            /\ \A x \in 1 .. l : new[x] = answer.list[x]
        BY <2>4, <2>5
      <3> HIDE DEF l, new
      <3>3. \A x \in DOMAIN new : x = l + 1 \/ x \in DOMAIN answer.list
        BY <3>2
      <3>4. Fine(new)
        BY <2>7, <3>1, <3>2, <3>3, SMTT(30) DEF Fine
      <3> QED BY <3>2, <3>3, <3>4 DEF Names
    <2> HIDE DEF new, entry, answer, m
    <2>12. \A list \in Lists : Held(list)' => Held(list) \/ list = new
      BY <2>1, <2>9, <2>10 DEF Held
    <2>13. \A tap \in Taps : Unlisted(tap) /\ tap # own => Unlisted(tap)'
      BY <2>3, <2>6, <2>11, <2>12 DEF Unlisted
    <2>14. \A d \in Clients : \A tap \in Taps : Open(d, tap)' => Open(d, tap)
      BY <2>1, <2>10 DEF Open
    <2>15. \A d \in Clients : ~ Open(d, own)'
      <3> SUFFICES ASSUME NEW d \in Clients, Open(d, own)'
                   PROVE  FALSE
        OBVIOUS
      <3>1. d = c
        BY <2>3, <2>6, <2>14 DEF TapsInv, OpenApart
      <3>2. CASE \E i \in DOMAIN reading[c] : reading[c][i].tap = own
        BY <2>0, <2>2, <3>2 DEF TapsInv, OpenOnce
      <3>3. CASE \E i \in DOMAIN callbacks'[c] : callbacks'[c][i].tap = own
        <4>1. PICK i \in 1 .. m - 1 : callbacks[c][i + 1].tap = callbacks[c][1].tap
          BY <2>0, <2>2, <3>3
        <4>2. i + 1 = 1
          BY <2>2, <4>1 DEF TapsInv, OpenOnce
        <4> QED BY <4>2
      <3> QED BY <2>1, <3>1, <3>2, <3>3 DEF Open
    <2>16. OpenOnce'
      <3>1. ASSUME NEW d \in Clients
            PROVE  /\ \A i, j \in DOMAIN callbacks'[d] :
                         callbacks'[d][i].tap = callbacks'[d][j].tap => i = j
                   /\ \A i, j \in DOMAIN reading'[d] :
                         reading'[d][i].tap = reading'[d][j].tap => i = j
                   /\ \A i \in DOMAIN callbacks'[d] : \A j \in DOMAIN reading'[d] :
                         callbacks'[d][i].tap # reading'[d][j].tap
        <4>1. CASE d # c
          BY <2>1, <2>2, <4>1 DEF TapsInv, OpenOnce
        <4>2. CASE d = c
          <5>1. ASSUME NEW i \in 1 .. m - 1, NEW j \in 1 .. m - 1,
                       callbacks[c][i + 1].tap = callbacks[c][j + 1].tap
                PROVE  i = j
            <6>1. i + 1 = j + 1
              BY <2>2, <5>1 DEF TapsInv, OpenOnce
            <6> QED BY <6>1
          <5> QED BY <2>1, <2>2, <4>2, <5>1 DEF TapsInv, OpenOnce
        <4> QED BY <4>1, <4>2
      <3> QED BY <3>1 DEF OpenOnce
    <2>17. ListsFine' /\ OpenApart'
      BY <2>11, <2>12, <2>14 DEF TapsInv, ListsFine, OpenApart
    <2>18. TapsFresh'
      <3>1. ASSUME NEW tap \in Taps, tap > taps'
            PROVE  Unlisted(tap)'
        <4>1. tap # own /\ tap > taps
          BY <2>1, <2>3, <2>7, <3>1 DEF Taps, TypeOK
        <4> QED BY <2>13, <4>1 DEF TapsInv, TapsFresh
      <3>2. ASSUME NEW d \in Clients, NEW tap \in Taps, Open(d, tap)'
            PROVE  tap <= taps' /\ Unlisted(tap)'
        BY <2>1, <2>13, <2>14, <2>15, <3>2 DEF TapsInv, TapsFresh
      <3> QED BY <3>1, <3>2 DEF TapsFresh
    <2>19. \A d \in Clients : \A tap \in Taps : Open(d, tap)' <=> Open(d, tap) /\ tap # own
      <3> SUFFICES ASSUME NEW d \in Clients, NEW tap \in Taps, Open(d, tap), tap # own
                   PROVE  Open(d, tap)'
        BY <2>14, <2>15
      <3>1. CASE \E i \in DOMAIN reading[d] : reading[d][i].tap = tap
        BY <2>1, <3>1 DEF Open
      <3>2. CASE \E i \in DOMAIN callbacks[d] : callbacks[d][i].tap = tap
        <4>1. PICK i \in DOMAIN callbacks[d] : callbacks[d][i].tap = tap
          BY <3>2
        <4>2. CASE d # c
          BY <2>2, <4>1, <4>2 DEF Open
        <4>3. CASE d = c
          <5>1. i \in 1 .. m /\ i # 1
            BY <2>0, <2>2, <4>1, <4>3
          <5>2. i - 1 \in 1 .. m - 1 /\ i - 1 + 1 = i
            BY <2>2, <5>1
          <5>3. callbacks'[c][i - 1] = callbacks[c][i]
            BY <2>2, <5>2
          <5>4. i - 1 \in DOMAIN callbacks'[c]
            BY <2>2, <5>2
          <5> QED BY <4>1, <4>3, <5>3, <5>4 DEF Open
        <4> QED BY <4>2, <4>3
      <3> QED BY <3>1, <3>2 DEF Open
    <2>20. Adds
      <3> DEFINE user == UserOf[c]
      <3>1. user \in Users /\ new = Append(answer.list, [user |-> user, tap |-> own])
        BY RequestConstants DEF RequestConstants, new, entry
      <3> HIDE DEF user
      <3> QED BY <2>1, <2>3, <2>6, <2>7, <2>12, <2>19, <3>1 DEF Adds
    <2> QED BY <2>16, <2>17, <2>18, <2>20 DEF TapsInv
  <1> QED BY <1>1, <1>2

LEMMA TapsStep ==
    ASSUME TypeOK, TapsInv, OwnerAway, NEW c \in Clients, Step(c)
    PROVE  TapsInv' /\ ((Shrinks /\ UNCHANGED history) \/ Adds \/ Commit(c))
  <1>1. CASE \/ Launch(c) \/ SignIn(c) \/ FetchList(c) \/ OpenDetails(c) \/ Back(c)
             \/ Disconnect(c) \/ Reconnect(c) \/ ForcedSignOut(c)
    <2>1. UNCHANGED <<history, pending, reading, callbacks, taps>>
      BY <1>1 DEF Launch, SignIn, FetchList, OpenDetails, Back, Disconnect, Reconnect,
                  ForcedSignOut, server, client
    <2> QED BY <2>1, TapsSame
  <1>2. CASE AnswerFromServer(c)
    <2>1. PICK n \in Newer(cached[c], IF Attached(c) THEN 0 ELSE reading[c][1].at)
                       .. Len(history) : Raise(c, LocalView(c, n), TRUE)
      BY <1>2 DEF AnswerFromServer
    <2>2. n \in 0 .. Len(history)
      <3>1. reading[c] # <<>> /\ reading[c] \in Seq(Reads)
        BY <1>2 DEF AnswerFromServer, TypeOK
      <3>2. reading[c][1] \in Reads
        BY <3>1
      <3>3. cached[c] \in Nat /\ reading[c][1].at \in Nat
        BY <3>2 DEF TypeOK, Reads
      <3> QED BY <2>1, <3>3 DEF Newer
    <2>3. LocalView(c, n) \in Lists /\ Held(LocalView(c, n))
      BY <2>2, LocalViewType, ViewHeld
    <2> QED BY <1>2, <2>1, <2>3, TapsRaise DEF AnswerFromServer, server
  <1>3. CASE AnswerFromCache(c)
    <2>1. cached[c] \in 0 .. Len(history)
      BY DEF TypeOK
    <2>2. LocalView(c, cached[c]) \in Lists /\ Held(LocalView(c, cached[c]))
      BY <2>1, LocalViewType, ViewHeld
    <2> QED BY <1>3, <2>2, TapsRaise DEF AnswerFromCache, server
  <1>4. CASE AnswerError(c)
    <2>1. <<>> \in Lists /\ Held(<<>>)
      BY DEF Lists, Held
    <2> QED BY <1>4, <2>1, TapsRaise DEF AnswerError, server
  <1>5. CASE Terminate(c)
    BY <1>5, TapsLost DEF Terminate, server
  <1>6. CASE Tap(c) \/ Ack(c) \/ Reject(c)
    <2>1. UNCHANGED history
      BY <1>6 DEF Tap, Ack, Reject, server
    <2> QED BY <1>6, <2>1, TapsTap, TapsPop
  <1> QED BY <1>1, <1>2, <1>3, <1>4, <1>5, <1>6, TapsCallback, TapsCommit DEF Step

-----------------------------------------------------------------------------
(* The owner.                                                              *)

LEMMA OwnerStep ==
    ASSUME TypeOK, OwnerAway, NEW c \in Clients, Step(c)
    PROVE  OwnerAway'
  <1>1. CASE \/ Launch(c) \/ SignIn(c) \/ OpenDetails(c) \/ Back(c)
    <2>1. UNCHANGED <<reading, callbacks>>
      BY <1>1 DEF Launch, SignIn, OpenDetails, Back, client
    <2>2. \A d \in Clients : d # c => screen'[d] = screen[d] /\ signedIn'[d] = signedIn[d]
      BY <1>1 DEF Launch, SignIn, OpenDetails, Back, TypeOK
    <2>3. CASE Launch(c)
      BY <2>1, <2>2, <2>3 DEF Launch, Running, OwnerAway, TypeOK
    <2>4. CASE SignIn(c)
      BY <2>1, <2>2, <2>4 DEF SignIn, OwnerAway, TypeOK
    <2>5. CASE OpenDetails(c)
      BY <2>1, <2>2, <2>5 DEF OpenDetails, OwnerAway, TypeOK
    <2>6. CASE Back(c)
      BY <2>1, <2>2, <2>6 DEF Back, OwnerAway, TypeOK
    <2> QED BY <1>1, <2>3, <2>4, <2>5, <2>6
  <1>2. CASE FetchList(c) \/ Commit(c) \/ Ack(c) \/ Reject(c) \/ Disconnect(c) \/ Reconnect(c)
    BY <1>2 DEF FetchList, Commit, Ack, Reject, Disconnect, Reconnect, app, client, OwnerAway
  <1>3. CASE ForcedSignOut(c)
    BY <1>3 DEF ForcedSignOut, OwnerAway, TypeOK
  <1>4. CASE Tap(c)
    <2>1. /\ UNCHANGED <<callbacks, screen, signedIn>> /\ screen[c] = "request"
          /\ \A d \in Clients : d # c => reading'[d] = reading[d]
      BY <1>4 DEF Tap, app, TypeOK
    <2> QED BY <2>1 DEF OwnerAway
  <1>5. CASE AnswerFromServer(c) \/ AnswerFromCache(c) \/ AnswerError(c)
    <2>1. /\ UNCHANGED <<screen, signedIn>> /\ reading[c] # <<>> /\ reading'[c] = <<>>
          /\ \A d \in Clients : d # c => reading'[d] = reading[d] /\ callbacks'[d] = callbacks[d]
      BY <1>5 DEF AnswerFromServer, AnswerFromCache, AnswerError, Raise, app, TypeOK
    <2> QED BY <2>1 DEF OwnerAway
  <1>6. CASE Callback(c)
    <2>1. CASE signedIn[c]
      <3>1. /\ UNCHANGED <<screen, signedIn, reading>> /\ callbacks[c] # <<>>
            /\ \A d \in Clients : d # c => callbacks'[d] = callbacks[d]
        BY <1>6, <2>1 DEF Callback, TypeOK
      <3> QED BY <2>1, <3>1 DEF OwnerAway
    <2>2. CASE ~ signedIn[c]
      <3>1. /\ UNCHANGED signedIn /\ reading'[c] = <<>> /\ callbacks'[c] = <<>>
            /\ screen'[c] = "crashed"
            /\ \A d \in Clients : d # c => /\ reading'[d] = reading[d]
                                           /\ callbacks'[d] = callbacks[d]
                                           /\ screen'[d] = screen[d]
        BY <1>6, <2>2 DEF Callback, TypeOK
      <3> QED BY <3>1 DEF OwnerAway
    <2> QED BY <2>1, <2>2
  <1>7. CASE Terminate(c)
    <2>1. /\ UNCHANGED signedIn /\ reading'[c] = <<>> /\ callbacks'[c] = <<>>
          /\ screen'[c] = "stopped"
          /\ \A d \in Clients : d # c => /\ reading'[d] = reading[d]
                                         /\ callbacks'[d] = callbacks[d]
                                         /\ screen'[d] = screen[d]
      BY <1>7 DEF Terminate, TypeOK
    <2> QED BY <2>1 DEF OwnerAway
  <1> QED BY <1>1, <1>2, <1>3, <1>4, <1>5, <1>6, <1>7 DEF Step

-----------------------------------------------------------------------------
LEMMA ListsStart == Init => ListsInv
  <1> SUFFICES ASSUME Init PROVE ListsInv
    OBVIOUS
  <1>1. \A list \in Lists : Held(list) => list = <<>>
    BY DEF Init, Held
  <1>2. \A c \in Clients : \A tap \in Taps : ~ Open(c, tap)
    BY DEF Init, Open
  <1>3. TapsInv
    BY <1>1, <1>2 DEF Init, TapsInv, ListsFine, Fine, TapsFresh, Unlisted, Names, OpenApart,
                      OpenOnce
  <1>4. OwnerAway
    BY DEF Init, OwnerAway
  <1> QED BY <1>3, <1>4, TypeInit DEF ListsInv

LEMMA ListsInvariance == Spec => []ListsInv
  <1>1. ASSUME ListsInv, [Next]_vars
        PROVE  ListsInv'
    <2>1. CASE UNCHANGED vars
      BY <1>1, <2>1, TypeStutter, TapsSame DEF ListsInv, vars, OwnerAway
    <2>2. ASSUME NEW c \in Clients, Step(c)
          PROVE  ListsInv'
      BY <1>1, <2>2, TypeStep, TapsStep, OwnerStep DEF ListsInv
    <2> QED BY <1>1, <2>1, <2>2, NextIsStep
  <1> QED BY <1>1, ListsStart, PTL DEF Spec

LEMMA VersionsFine ==
    ASSUME ListsInv, NEW j \in DOMAIN history
    PROVE  Fine(history[j].list)
  <1>1. history[j] \in Writes
    BY DEF ListsInv, TypeOK
  <1>2. history[j].list \in Lists /\ Held(history[j].list)
    BY <1>1 DEF Writes, Held
  <1> QED BY <1>2 DEF ListsInv, TapsInv, ListsFine

\* However often a write is sent again, whatever list an answer brings and
\* however callbacks and acknowledgements are ordered, a tap is in a version of
\* the array at most once.
THEOREM TapsListedOnce == Spec => []AtMostOncePerTap
  <1>1. ListsInv => AtMostOncePerTap
    BY VersionsFine DEF AtMostOncePerTap, Fine
  <1> QED BY <1>1, ListsInvariance, PTL

\* The owner of the book never gets among its requests, although the check is
\* made when the details open and the write long after it, and users may be
\* signed out in between.
THEOREM OwnerNotListed == Spec => []OwnerNeverRequests
  <1>1. ListsInv => OwnerNeverRequests
    BY VersionsFine DEF OwnerNeverRequests, Fine
  <1> QED BY <1>1, ListsInvariance, PTL

-----------------------------------------------------------------------------
(* The array, seen from outside.                                           *)

LEMMA KnownIsHeld == \A list : list \in KnownLists <=> Held(list)
  <1> SUFFICES ASSUME NEW list
               PROVE  list \in KnownLists <=> Held(list)
    OBVIOUS
  <1>1. list \in UNION {{pending[c][i].list : i \in DOMAIN pending[c]} : c \in Clients}
          <=> \E c \in Clients : \E i \in DOMAIN pending[c] : list = pending[c][i].list
    OBVIOUS
  <1>2. list \in UNION {{callbacks[c][i].list : i \in DOMAIN callbacks[c]} : c \in Clients}
          <=> \E c \in Clients : \E i \in DOMAIN callbacks[c] : list = callbacks[c][i].list
    OBVIOUS
  <1> DEFINE H == {history[n].list : n \in DOMAIN history}
             P == UNION {{pending[c][i].list : i \in DOMAIN pending[c]} : c \in Clients}
             C == UNION {{callbacks[c][i].list : i \in DOMAIN callbacks[c]} : c \in Clients}
  <1>3. list \in H <=> \E j \in DOMAIN history : list = history[j].list
    OBVIOUS
  <1>4. KnownLists = {<<>>} \cup H \cup P \cup C
    BY DEF KnownLists
  <1> HIDE DEF H, P, C
  <1>5. list \in KnownLists <=> list = <<>> \/ list \in H \/ list \in P \/ list \in C
    BY <1>4
  <1> QED BY <1>1, <1>2, <1>3, <1>5 DEF Held, P, C

LEMMA KnownIsTyped == TypeOK => \A list : Held(list) => list \in Lists
  <1> SUFFICES ASSUME TypeOK, NEW list, Held(list)
               PROVE  list \in Lists
    OBVIOUS
  <1>1. <<>> \in Lists
    BY DEF Lists
  <1>2. \A j \in DOMAIN history : history[j] \in Writes
    BY DEF TypeOK
  <1>3. ASSUME NEW c \in Clients
        PROVE  /\ \A i \in DOMAIN pending[c] : pending[c][i] \in Writes
               /\ \A i \in DOMAIN callbacks[c] : callbacks[c][i] \in Answers
    <2>1. pending[c] \in Seq(Writes) /\ callbacks[c] \in Seq(Answers)
      BY DEF TypeOK
    <2> QED BY <2>1
  <1> QED BY <1>1, <1>2, <1>3 DEF Held, Writes, Answers

LEMMA SpentIsClosed ==
    \A tap \in Taps : tap \in SpentTaps <=> tap <= taps /\ \A c \in Clients : ~ Open(c, tap)
  BY DEF SpentTaps, Open

\* Lists and taps after a step.
LEMMA ArrayAfter ==
    ASSUME TypeOK'
    PROVE  /\ \A list : list \in KnownLists' <=> Held(list)'
           /\ \A list : Held(list)' => list \in Lists
           /\ \A tap \in Taps : tap \in SpentTaps'
                                   <=> tap <= taps' /\ \A c \in Clients : ~ Open(c, tap)'
  <1>1. (\A list : list \in KnownLists <=> Held(list))'
    BY KnownIsHeld, PTL
  <1>2. (TypeOK => \A list : Held(list) => list \in Lists)'
    BY KnownIsTyped, PTL
  <1>3. (\A tap \in Taps : tap \in SpentTaps
                               <=> tap <= taps /\ \A c \in Clients : ~ Open(c, tap))'
    BY SpentIsClosed, PTL
  <1> QED BY <1>1, <1>2, <1>3

LEMMA ForgetStep ==
    ASSUME TypeOK, TypeOK', Shrinks, UNCHANGED history
    PROVE  Array!Forget
  <1>1. UNCHANGED ListAt(Len(history))
    BY DEF ListAt
  <1>2. KnownLists' \subseteq KnownLists
    BY ArrayAfter, KnownIsHeld DEF Shrinks
  <1>3. SpentTaps \subseteq SpentTaps'
    <2> SUFFICES ASSUME NEW tap \in SpentTaps
                 PROVE  tap \in SpentTaps'
      OBVIOUS
    <2>1. tap \in Taps /\ tap \in Nat /\ taps \in Nat /\ taps' \in Nat
      BY DEF SpentTaps, Taps, TypeOK
    <2>2. tap <= taps /\ \A c \in Clients : ~ Open(c, tap)
      BY <2>1, SpentIsClosed
    <2>3. tap <= taps' /\ \A c \in Clients : ~ Open(c, tap)'
      BY <2>1, <2>2 DEF Shrinks
    <2> QED BY <2>1, <2>3, ArrayAfter
  <1> QED BY <1>1, <1>2, <1>3 DEF Array!Forget

LEMMA FileStep ==
    ASSUME TypeOK, TypeOK', Adds
    PROVE  Array!File
  <1>1. PICK tap \in Taps, user \in Users, list \in Lists :
            /\ Held(list) /\ tap <= taps /\ \E c \in Clients : Open(c, tap)
            /\ \A other \in Lists :
                  Held(other)' => Held(other) \/ other = Append(list, [user |-> user, tap |-> tap])
            /\ \A c \in Clients : \A t \in Taps : Open(c, t)' <=> Open(c, t) /\ t # tap
            /\ UNCHANGED <<history, taps>>
    BY DEF Adds
  <1>2. UNCHANGED ListAt(Len(history))
    BY <1>1 DEF ListAt
  <1>3. KnownLists' \subseteq KnownLists \cup {Append(list, [user |-> user, tap |-> tap])}
    BY <1>1, ArrayAfter, KnownIsHeld
  <1>4. list \in KnownLists /\ tap \notin SpentTaps
    BY <1>1, KnownIsHeld, SpentIsClosed
  <1>5. SpentTaps' = SpentTaps \cup {tap}
    <2>1. SpentTaps \subseteq Taps /\ SpentTaps' \subseteq Taps
      BY DEF SpentTaps
    <2>2. \A t \in Taps : t \in SpentTaps' <=> t \in SpentTaps \/ t = tap
      BY <1>1, ArrayAfter, SpentIsClosed
    <2> QED BY <2>1, <2>2
  <1> QED BY <1>2, <1>3, <1>4, <1>5 DEF Array!File

LEMMA ShowStep ==
    ASSUME TypeOK, TypeOK', NEW c \in Clients, Commit(c)
    PROVE  [Array!Show]_(Array!avars)
  <1>1. UNCHANGED <<pending, reading, callbacks, taps>>
    BY DEF Commit
  <1>2. UNCHANGED SpentTaps
    BY <1>1 DEF SpentTaps
  <1>3. CASE UNCHANGED history
    <2>1. UNCHANGED ListAt(Len(history)) /\ UNCHANGED KnownLists
      BY <1>1, <1>3 DEF ListAt, KnownLists
    <2> QED BY <1>2, <2>1 DEF Array!avars
  <1>4. CASE history' = Append(history, pending[c][Len(applied[c]) + 1])
    <2> DEFINE k == Len(applied[c]) + 1
               n == Len(history)
    <2>1. k \in DOMAIN pending[c] /\ pending[c] \in Seq(Writes) /\ history \in Seq(Writes)
      BY DEF Commit, TypeOK
    <2>2. /\ n \in Nat /\ Len(history') = n + 1 /\ DOMAIN history' = 1 .. n + 1
          /\ DOMAIN history = 1 .. n /\ history'[n + 1] = pending[c][k]
          /\ \A j \in 1 .. n : history'[j] = history[j]
      BY <1>4, <2>1, AppendProperties
    <2> HIDE DEF k, n
    <2>3. ListAt(Len(history))' = pending[c][k].list
      BY <2>2 DEF ListAt
    <2>4. \A list : Held(list)' <=> Held(list)
      <3>1. \A j \in DOMAIN history : j \in DOMAIN history' /\ history'[j] = history[j]
        BY <2>2
      <3>2. \A j \in DOMAIN history' : \/ j \in DOMAIN history /\ history'[j] = history[j]
                                       \/ history'[j] = pending[c][k]
        BY <2>2
      <3> QED BY <1>1, <2>1, <3>1, <3>2 DEF Held
    <2>5. UNCHANGED KnownLists
      BY <2>4, ArrayAfter, KnownIsHeld
    <2>6. pending[c][k].list \in KnownLists
      BY <2>1, KnownIsHeld DEF Held
    <2> QED BY <1>2, <2>3, <2>5, <2>6 DEF Array!Show
  <1> QED BY <1>3, <1>4 DEF Commit

\* Whatever devices, caches, queues and faults do to it, the document only
\* shows lists that were made entry by entry, each entry by one tap.
THEOREM RequestsImplementArray == Spec => ImplementsArray
  <1>1. Init => Array!AInit
    <2> SUFFICES ASSUME Init PROVE Array!AInit
      OBVIOUS
    <2>1. ListAt(Len(history)) = <<>>
      BY DEF Init, ListAt
    <2>2. KnownLists = {<<>>}
      <3>1. \A list : Held(list) <=> list = <<>>
        BY DEF Init, Held
      <3> QED BY <3>1, KnownIsHeld
    <2>3. SpentTaps = {}
      BY DEF Init, SpentTaps, Taps
    <2> QED BY <2>1, <2>2, <2>3 DEF Array!AInit
  <1>2. ASSUME ListsInv, ListsInv', [Next]_vars
        PROVE  [Array!ANext]_(Array!avars)
    <2>1. CASE UNCHANGED vars
      <3>1. UNCHANGED <<ListAt(Len(history)), KnownLists, SpentTaps>>
        BY <2>1 DEF vars, ListAt, KnownLists, SpentTaps
      <3> QED BY <3>1 DEF Array!avars
    <2>2. ASSUME NEW c \in Clients, Step(c)
          PROVE  [Array!ANext]_(Array!avars)
      <3>1. (Shrinks /\ UNCHANGED history) \/ Adds \/ Commit(c)
        BY <1>2, <2>2, TapsStep DEF ListsInv
      <3> QED BY <1>2, <3>1, ForgetStep, FileStep, ShowStep DEF ListsInv, Array!ANext
    <2> QED BY <1>2, <2>1, <2>2, NextIsStep
  <1> QED BY <1>1, <1>2, ListsInvariance, PTL DEF Spec, ImplementsArray, Array!ASpec

-----------------------------------------------------------------------------
(***************************************************************************)
(* Devices that are not running.  The guards of answers and callbacks do   *)
(* not ask whether the app runs, as the code does not: there is nothing    *)
(* for them to come back to otherwise.                                     *)
(***************************************************************************)

\* Reads and callbacks belong to a process that runs, acknowledgements to one
\* that is connected as the user of the queue.
UnderWayRuns ==
    \A c \in Clients :
        /\ reading[c] # <<>> \/ callbacks[c] # <<>> => Running(c)
        /\ applied[c] # <<>> => CanWrite(c)

\* An app that was killed or has crashed leaves its cache, its queue of writes
\* and its user as they are until it is launched again.
StoppedKeeps ==
    \A c \in Clients :
        ~ Running(c) =>
            /\ pending'[c] = pending[c] /\ cached'[c] = cached[c]
            /\ signedIn'[c] = signedIn[c]
            /\ reading'[c] = <<>> /\ callbacks'[c] = <<>> /\ applied'[c] = <<>>

\* A step of one device is none of another.
LEMMA OthersStay ==
    ASSUME TypeOK, NEW c \in Clients, Step(c), NEW d \in Clients, d # c
    PROVE  /\ reading'[d] = reading[d] /\ callbacks'[d] = callbacks[d]
           /\ pending'[d] = pending[d] /\ applied'[d] = applied[d]
           /\ cached'[d] = cached[d] /\ screen'[d] = screen[d]
           /\ signedIn'[d] = signedIn[d] /\ online'[d] = online[d]
  <1>1. CASE Launch(c) \/ SignIn(c) \/ FetchList(c) \/ OpenDetails(c) \/ Back(c) \/ Tap(c)
    BY <1>1 DEF TypeOK, Launch, SignIn, FetchList, OpenDetails, Back, Tap, client, app
  <1>2. CASE AnswerFromServer(c) \/ AnswerFromCache(c) \/ AnswerError(c)
    BY <1>2 DEF TypeOK, AnswerFromServer, AnswerFromCache, AnswerError, Raise, app
  <1>3. CASE Callback(c)
    <2>1. CASE signedIn[c]
      BY <1>3, <2>1 DEF TypeOK, Callback
    <2>2. CASE ~ signedIn[c]
      BY <1>3, <2>2 DEF TypeOK, Callback
    <2> QED BY <2>1, <2>2
  <1>4. CASE Commit(c) \/ Ack(c) \/ Reject(c)
    BY <1>4 DEF TypeOK, Commit, Ack, Reject, app
  <1>5. CASE Disconnect(c) \/ Reconnect(c) \/ ForcedSignOut(c) \/ Terminate(c)
    BY <1>5 DEF TypeOK, Disconnect, Reconnect, ForcedSignOut, Terminate, client
  <1> QED BY <1>1, <1>2, <1>3, <1>4, <1>5 DEF Step

\* The device itself.
RunsAt(c) ==
    /\ reading[c] # <<>> \/ callbacks[c] # <<>> => Running(c)
    /\ applied[c] # <<>> => CanWrite(c)
KeepsAt(c) ==
    ~ Running(c) =>
        /\ pending'[c] = pending[c] /\ cached'[c] = cached[c]
        /\ signedIn'[c] = signedIn[c]
        /\ reading'[c] = <<>> /\ callbacks'[c] = <<>> /\ applied'[c] = <<>>

LEMMA RunsStep ==
    ASSUME TypeOK, NEW c \in Clients, RunsAt(c), Step(c)
    PROVE  RunsAt(c)' /\ KeepsAt(c)
  <1>1. CASE Launch(c) \/ SignIn(c) \/ OpenDetails(c) \/ Back(c)
    <2>1. /\ UNCHANGED <<reading, callbacks, applied, pending, cached, online>>
          /\ screen' = [screen EXCEPT ![c] = screen'[c]]
          /\ screen'[c] \notin {"stopped", "crashed"}
      BY <1>1 DEF TypeOK, Launch, SignIn, OpenDetails, Back, client
    <2>2. signedIn[c] => signedIn'[c]
      BY <1>1 DEF TypeOK, Launch, SignIn, OpenDetails, Back
    <2>3. ~ Running(c) => signedIn' = signedIn
      BY <1>1 DEF Launch, SignIn, OpenDetails, Back, Running
    <2> QED BY <2>1, <2>2, <2>3 DEF RunsAt, KeepsAt, Running, CanWrite
  <1>2. CASE FetchList(c) \/ Tap(c)
    BY <1>2 DEF TypeOK, FetchList, Tap, RunsAt, KeepsAt, Running, CanWrite, app
  <1>3. CASE AnswerFromServer(c) \/ AnswerFromCache(c) \/ AnswerError(c)
    <2>1. /\ reading[c] # <<>> /\ UNCHANGED <<applied, app>>
      BY <1>3 DEF AnswerFromServer, AnswerFromCache, AnswerError, Raise
    <2> QED BY <2>1 DEF RunsAt, KeepsAt, Running, CanWrite, app
  <1>4. CASE Callback(c)
    <2>1. Running(c) /\ UNCHANGED <<signedIn, online>>
      BY <1>4 DEF Callback, RunsAt
    <2>2. CASE signedIn[c]
      BY <1>4, <2>1, <2>2 DEF Callback, RunsAt, KeepsAt, Running, CanWrite
    <2>3. CASE ~ signedIn[c]
      BY <1>4, <2>1, <2>3 DEF TypeOK, Callback, RunsAt, KeepsAt, Running, CanWrite
    <2> QED BY <2>2, <2>3
  <1>5. CASE Commit(c) \/ Ack(c) \/ Reject(c)
    <2>1. CanWrite(c) /\ UNCHANGED <<reading, callbacks, app>>
      BY <1>5 DEF Commit, Ack, Reject
    <2> QED BY <2>1 DEF RunsAt, KeepsAt, Running, CanWrite, app
  <1>6. CASE Disconnect(c) \/ ForcedSignOut(c) \/ Terminate(c)
    <2>1. Running(c) /\ applied'[c] = <<>>
      BY <1>6 DEF TypeOK, Disconnect, ForcedSignOut, Terminate
    <2>2. \/ UNCHANGED <<reading, callbacks, screen>>
          \/ reading'[c] = <<>> /\ callbacks'[c] = <<>>
      BY <1>6 DEF TypeOK, Disconnect, ForcedSignOut, Terminate
    <2> QED BY <2>1, <2>2 DEF RunsAt, KeepsAt, Running
  <1>7. CASE Reconnect(c)
    <2>1. /\ UNCHANGED <<reading, callbacks, pending, applied, cached, screen, signedIn>>
          /\ online'[c]
      BY <1>7 DEF TypeOK, Reconnect, client
    <2> QED BY <2>1 DEF RunsAt, KeepsAt, Running, CanWrite
  <1> QED BY <1>1, <1>2, <1>3, <1>4, <1>5, <1>6, <1>7 DEF Step

LEMMA RunsInvariance == Spec => []UnderWayRuns /\ [][StoppedKeeps]_vars
  <1>1. Init => UnderWayRuns
    BY DEF Init, UnderWayRuns
  <1>2. TypeOK /\ UnderWayRuns /\ [Next]_vars => UnderWayRuns' /\ [StoppedKeeps]_vars
    <2> SUFFICES ASSUME TypeOK, UnderWayRuns, [Next]_vars
                 PROVE  UnderWayRuns' /\ [StoppedKeeps]_vars
      OBVIOUS
    <2>1. CASE UNCHANGED vars
      BY <2>1 DEF vars, UnderWayRuns, Running, CanWrite
    <2>2. ASSUME NEW c \in Clients, Step(c)
          PROVE  UnderWayRuns' /\ StoppedKeeps
      <3>1. ASSUME NEW d \in Clients
            PROVE  RunsAt(d)' /\ KeepsAt(d)
        <4>1. RunsAt(d)
          BY DEF UnderWayRuns, RunsAt
        <4>2. CASE d = c
          BY <2>2, <4>1, <4>2, RunsStep
        <4>3. CASE d # c
          BY <2>2, <4>1, <4>3, OthersStay DEF RunsAt, KeepsAt, Running, CanWrite
        <4> QED BY <4>2, <4>3
      <3> QED BY <3>1 DEF UnderWayRuns, StoppedKeeps, RunsAt, KeepsAt
    <2> QED BY <2>1, <2>2, NextIsStep
  <1> QED BY <1>1, <1>2, TypeCorrect, PTL DEF Spec

\* getDocument and its callback: no answer, callback or acknowledgement is on
\* its way to an app that is not there, so what a tap has started ends with
\* the app or goes on in it.
THEOREM NothingComesToTheDead == Spec => []UnderWayRuns
  BY RunsInvariance, PTL

\* The persistent queue: a write that was queued when the app was killed or
\* stopped by its fatalError is still there, and nothing else is, at the next launch.
THEOREM QueueOutlivesTheApp == Spec => [][StoppedKeeps]_vars
  BY RunsInvariance, PTL
=============================================================================
