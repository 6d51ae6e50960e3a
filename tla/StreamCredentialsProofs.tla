----------------------- MODULE StreamCredentialsProofs -----------------------
(***************************************************************************)
(* Proofs about module StreamCredentials, for any users and any number of  *)
(* changes and breaks: a stream is only opened with the token of the user  *)
(* whose writes it is to carry.                                            *)
(***************************************************************************)
EXTENDS StreamCredentials, SequenceTheorems, FiniteSetTheorems, TLAPS

Announcements == [kind : {"user"}, user : Anyone]
Tokens  == [kind : {"token"}, close : Nat, counter : Nat, user : Anyone, ok : BOOLEAN]
Results == [kind : {"token"}, close : Nat, user : Anyone, label : Anyone, ok : BOOLEAN]

QueuesTyped ==
    /\ main \in Seq(Announcements \cup Tokens)
    /\ worker \in Seq(Announcements \cup Results)

\* No announcement is in the queue before position k.
Quiet(queue, k) == \A j \in DOMAIN queue : j < k => queue[j].kind # "user"

\* u is the user whom a reader of the queue has been told of last when it
\* comes to position k, if it was told of base before the queue.
Told(queue, base, k, u) ==
    /\ Quiet(queue, k) => u = base
    /\ \A j \in DOMAIN queue :
          j < k /\ queue[j].kind = "user"
            /\ (\A i \in DOMAIN queue : j < i /\ i < k => queue[i].kind # "user")
          => u = queue[j].user

\* The main queue brings the provider up to the auth library, the worker
\* queue brings the sync engine up to the provider, and a token meets the
\* user of its label there.
QueuesTell ==
    /\ Told(main, known, Len(main) + 1, current)
    /\ Told(worker, syncUser, Len(worker) + 1, known)
    /\ \A k \in DOMAIN worker :
          worker[k].kind = "token" => Told(worker, syncUser, k, worker[k].label)

\* No token has a count from the future, and one with the count of now that
\* no announcement precedes is the token of the user known now.
CountsTell ==
    /\ \A c \in calls : /\ c.counter <= counter
                        /\ c.counter = counter /\ c.user # Unread /\ Quiet(main, Len(main) + 1)
                              => c.user = known
    /\ \A k \in DOMAIN main :
          main[k].kind = "token" =>
             /\ main[k].counter <= counter
             /\ main[k].counter = counter /\ Quiet(main, k) => main[k].user = known

CredentialInv ==
    TypeOK /\ QueuesTyped /\ QueuesTell /\ CountsTell /\ LabelsAreTrue /\ SentByTheirUser

-----------------------------------------------------------------------------
(* Queues.                                                                 *)

\* What a message at the end changes: nothing for those before it.
LEMMA ToldAppend ==
    ASSUME NEW S, NEW queue \in Seq(S), NEW m \in S, NEW base, NEW u
    PROVE  /\ m.kind = "user" => Told(Append(queue, m), base, Len(queue) + 2, m.user)
           /\ m.kind # "user" /\ Told(queue, base, Len(queue) + 1, u)
                 => Told(Append(queue, m), base, Len(queue) + 2, u)
           /\ \A k \in 1 .. Len(queue) + 1 :
                 Told(queue, base, k, u) => Told(Append(queue, m), base, k, u)
  <1> DEFINE n    == Len(queue)
             long == Append(queue, m)
  <1>1. /\ n \in Nat /\ DOMAIN queue = 1 .. n /\ DOMAIN long = 1 .. n + 1
        /\ long[n + 1] = m /\ \A j \in 1 .. n : long[j] = queue[j]
    BY AppendProperties
  <1> HIDE DEF n, long
  <1>2. m.kind = "user" => Told(long, base, n + 2, m.user)
    BY <1>1 DEF Told, Quiet
  <1>3. m.kind # "user" /\ Told(queue, base, n + 1, u) => Told(long, base, n + 2, u)
    BY <1>1 DEF Told, Quiet
  <1>4. ASSUME NEW k \in 1 .. n + 1, Told(queue, base, k, u)
        PROVE  Told(long, base, k, u)
    BY <1>1, <1>4 DEF Told, Quiet
  <1> QED BY <1>2, <1>3, <1>4 DEF n, long

\* What taking the first message changes: a base, if it is an announcement.
LEMMA ToldTail ==
    ASSUME NEW S, NEW queue \in Seq(S), queue # <<>>, NEW base, NEW u,
           NEW k \in 2 .. Len(queue) + 1, Told(queue, base, k, u)
    PROVE  Told(Tail(queue), IF Head(queue).kind = "user" THEN Head(queue).user ELSE base,
                k - 1, u)
  <1> DEFINE n    == Len(queue)
             rest == Tail(queue)
             told == IF Head(queue).kind = "user" THEN Head(queue).user ELSE base
  <1>1. /\ n \in Nat \ {0} /\ DOMAIN queue = 1 .. n /\ DOMAIN rest = 1 .. n - 1
        /\ Head(queue) = queue[1] /\ \A j \in 1 .. n - 1 : rest[j] = queue[j + 1]
    BY HeadTailProperties, EmptySeq
  <1> HIDE DEF n, rest
  <1>2. ASSUME \A j \in DOMAIN rest : j < k - 1 => rest[j].kind # "user"
        PROVE  u = told
    <2>1. \A j \in DOMAIN queue : j < k /\ j # 1 => queue[j].kind # "user"
      <3> SUFFICES ASSUME NEW j \in DOMAIN queue, j < k, j # 1
                   PROVE  queue[j].kind # "user"
        OBVIOUS
      <3>1. j - 1 \in DOMAIN rest /\ j - 1 < k - 1 /\ rest[j - 1] = queue[j]
        BY <1>1
      <3> QED BY <1>2, <3>1
    <2>2. CASE queue[1].kind = "user"
      BY <1>1, <2>1, <2>2 DEF Told, Quiet
    <2>3. CASE queue[1].kind # "user"
      BY <1>1, <2>1, <2>3 DEF Told, Quiet
    <2> QED BY <2>2, <2>3
  <1>3. ASSUME NEW j \in DOMAIN rest, j < k - 1, rest[j].kind = "user",
               \A i \in DOMAIN rest : j < i /\ i < k - 1 => rest[i].kind # "user"
        PROVE  u = rest[j].user
    <2>1. j + 1 \in DOMAIN queue /\ j + 1 < k /\ queue[j + 1] = rest[j]
      BY <1>1, <1>3
    <2>2. \A i \in DOMAIN queue : j + 1 < i /\ i < k => queue[i].kind # "user"
      <3> SUFFICES ASSUME NEW i \in DOMAIN queue, j + 1 < i, i < k
                   PROVE  queue[i].kind # "user"
        OBVIOUS
      <3>1. i - 1 \in DOMAIN rest /\ j < i - 1 /\ i - 1 < k - 1 /\ rest[i - 1] = queue[i]
        BY <1>1
      <3> QED BY <1>3, <3>1
    <2> QED BY <1>3, <2>1, <2>2 DEF Told, Quiet
  <1> QED BY <1>2, <1>3 DEF Told, Quiet, rest

-----------------------------------------------------------------------------
(* The steps.                                                              *)

LEMMA CredentialStart == Init => CredentialInv
  <1> SUFFICES ASSUME Init PROVE CredentialInv
    OBVIOUS
  <1>1. current \in Anyone /\ known \in Anyone /\ syncUser = known /\ NoUser \in Anyone
    BY DEF Init, Anyone
  <1>2. worker = <<>> /\ DOMAIN worker = {} /\ Len(worker) = 0
    BY DEF Init
  <1>3. /\ main \in Seq(Announcements \cup Tokens)
        /\ Told(main, known, Len(main) + 1, current)
        /\ \A k \in DOMAIN main : main[k].kind = "user"
    <2>1. CASE current = NoUser
      <3>1. main = <<>> /\ known = current
        BY <2>1 DEF Init
      <3> QED BY <3>1 DEF Told, Quiet
    <2>2. CASE current # NoUser
      <3>1. main = <<Announced(current)>> /\ Announced(current) \in Announcements
        BY <1>1, <2>2 DEF Init, Announced, Announcements
      <3>2. Len(main) = 1 /\ DOMAIN main = {1} /\ main[1] = Announced(current)
        BY <3>1
      <3> QED BY <3>1, <3>2 DEF Told, Quiet, Announced
    <2> QED BY <2>1, <2>2
  <1>4. TypeOK
    BY <1>1, <1>2, <1>3 DEF Init, TypeOK, Calls
  <1>5. QueuesTyped
    BY <1>2, <1>3 DEF QueuesTyped
  <1>6. QueuesTell
    BY <1>1, <1>2, <1>3 DEF QueuesTell, Told, Quiet
  <1>7. CountsTell
    BY <1>3 DEF Init, CountsTell
  <1>8. LabelsAreTrue /\ SentByTheirUser
    BY <1>2 DEF Init, LabelsAreTrue, SentByTheirUser
  <1> QED BY <1>4, <1>5, <1>6, <1>7, <1>8 DEF CredentialInv

\* Steps of the auth library: a message for the main queue, or none.
LEMMA AuthStep ==
    ASSUME CredentialInv,
           \/ \E u \in Anyone : UpdateCurrentUser(u)
           \/ \E c \in calls : GetToken(c) \/ TokenFetched(c) \/ FetchFailed(c)
    PROVE  CredentialInv'
  <1> DEFINE n == Len(main)
  <1>1. /\ main \in Seq(Announcements \cup Tokens) /\ n \in Nat /\ DOMAIN main = 1 .. n
        /\ UNCHANGED <<known, counter, worker, syncUser, stream, closes, carried>>
    <2>1. main \in Seq(Announcements \cup Tokens)
      BY DEF CredentialInv, QueuesTyped
    <2>2. UNCHANGED <<provider, engine, worker>>
      BY DEF UpdateCurrentUser, GetToken, TokenFetched, FetchFailed
    <2> QED BY <2>1, <2>2 DEF provider, engine
  <1>2. counter \in Nat /\ calls \subseteq Calls /\ current \in Anyone /\ Unread \notin Anyone
    BY CredentialConstants DEF CredentialInv, TypeOK, Anyone, CredentialConstants
  <1> HIDE DEF n
  <1>3. ASSUME NEW m \in Announcements \cup Tokens, main' = Append(main, m)
        PROVE  /\ main' \in Seq(Announcements \cup Tokens) /\ DOMAIN main' = 1 .. n + 1
               /\ Len(main') = n + 1
               /\ main'[n + 1] = m /\ \A j \in 1 .. n : main'[j] = main[j]
    BY <1>1, <1>3, AppendProperties DEF n
  <1>4. CASE \E u \in Anyone : UpdateCurrentUser(u)
    <2>1. PICK u \in Anyone : UpdateCurrentUser(u)
      BY <1>4
    <2> DEFINE m == Announced(u)
    <2>2. /\ m \in Announcements /\ m.kind = "user" /\ m.user = u
          /\ main' = Append(main, m) /\ current' = u /\ UNCHANGED calls
      BY <2>1 DEF UpdateCurrentUser, Announced, Announcements
    <2> HIDE DEF m
    <2>3. Told(main', known', Len(main') + 1, current')
      BY <1>1, <1>3, <2>2, ToldAppend DEF n
    <2>4. CountsTell'
      BY <1>1, <1>2, <1>3, <2>2 DEF CredentialInv, CountsTell, Quiet
    <2>5. TypeOK' /\ QueuesTyped'
      BY <1>1, <1>3, <2>2 DEF CredentialInv, TypeOK, QueuesTyped, Announcements, Tokens
    <2> QED BY <1>1, <2>3, <2>4, <2>5
            DEF CredentialInv, QueuesTell, LabelsAreTrue, SentByTheirUser
  <1>5. ASSUME NEW c \in calls, NEW u \in Anyone, NEW ok \in BOOLEAN,
               c.user = u \/ (c.user = Unread /\ u = current),
               main' = Append(main, TokenFor(c, u, ok)), calls' = calls \ {c},
               UNCHANGED current
        PROVE  CredentialInv'
    <2> DEFINE m == TokenFor(c, u, ok)
    <2>1. /\ m \in Tokens /\ m.kind = "token" /\ m.user = u /\ m.counter = c.counter
      BY <1>2 DEF TokenFor, Tokens, Calls
    <2>2. main' = Append(main, m)
      BY <1>5
    <2> HIDE DEF m
    <2>3. Told(main', known', Len(main') + 1, current')
      BY <1>1, <1>3, <1>5, <2>1, <2>2, ToldAppend DEF n, CredentialInv, QueuesTell
    <2>4. c.counter <= counter /\ (c.counter = counter /\ Quiet(main, n + 1) => u = known)
      <3>1. CASE c.user = u
        BY <1>2, <3>1 DEF CredentialInv, CountsTell, n
      <3>2. CASE u = current
        BY <1>1, <3>2 DEF CredentialInv, CountsTell, QueuesTell, Told, Quiet, n
      <3> QED BY <1>5, <3>1, <3>2
    <2>5. \A k \in 1 .. n + 1 : Quiet(main', k) => Quiet(main, k)
      BY <1>1, <1>3, <2>1, <2>2 DEF Quiet
    <2>6. Quiet(main', n + 2) => Quiet(main, n + 1)
      BY <1>1, <1>3, <2>1, <2>2 DEF Quiet
    <2>7. CountsTell'
      BY <1>1, <1>2, <1>3, <1>5, <2>1, <2>2, <2>4, <2>5, <2>6 DEF CredentialInv, CountsTell, n
    <2>8. TypeOK' /\ QueuesTyped'
      BY <1>1, <1>3, <1>5, <2>1, <2>2
         DEF CredentialInv, TypeOK, QueuesTyped, Announcements, Tokens
    <2> QED BY <1>1, <2>3, <2>7, <2>8
            DEF CredentialInv, QueuesTell, LabelsAreTrue, SentByTheirUser
  <1>6. ASSUME NEW c \in calls, c.user = Unread, UNCHANGED <<current, main>>,
               calls' = (calls \ {c}) \cup {[c EXCEPT !.user = current]}
        PROVE  CredentialInv'
    <2> DEFINE d == [c EXCEPT !.user = current]
    <2>1. d \in Calls /\ d.user = current /\ d.counter = c.counter
      BY <1>2 DEF Calls
    <2>2. calls' = (calls \ {c}) \cup {d}
      BY <1>6
    <2> HIDE DEF d
    <2>3. Quiet(main, n + 1) => current = known
      BY <1>1 DEF CredentialInv, QueuesTell, Told, Quiet, n
    <2>4. CountsTell'
      BY <1>1, <1>6, <2>1, <2>2, <2>3 DEF CredentialInv, CountsTell, Quiet, n
    <2>5. TypeOK' /\ QueuesTyped'
      BY <1>1, <1>6, <2>1, <2>2 DEF CredentialInv, TypeOK, QueuesTyped
    <2> QED BY <1>1, <1>6, <2>4, <2>5
            DEF CredentialInv, QueuesTell, LabelsAreTrue, SentByTheirUser
  <1>7. CASE \E c \in calls : GetToken(c)
    <2>1. PICK c \in calls : GetToken(c)
      BY <1>7
    <2>2. CASE current = NoUser
      BY <1>2, <1>5, <2>1, <2>2 DEF GetToken, auth
    <2>3. CASE current # NoUser
      BY <1>6, <2>1, <2>3 DEF GetToken, auth
    <2> QED BY <2>2, <2>3
  <1>8. CASE \E c \in calls : TokenFetched(c) \/ FetchFailed(c)
    <2>1. PICK c \in calls : TokenFetched(c) \/ FetchFailed(c)
      BY <1>8
    <2>2. c.user \in Anyone
      BY <1>2, <2>1 DEF TokenFetched, FetchFailed, Calls
    <2>3. /\ \E ok \in BOOLEAN : main' = Append(main, TokenFor(c, c.user, ok))
          /\ calls' = calls \ {c} /\ UNCHANGED current
      BY <2>1 DEF TokenFetched, FetchFailed, auth
    <2>4. PICK ok \in BOOLEAN : main' = Append(main, TokenFor(c, c.user, ok))
      BY <2>3
    <2>5. PICK u \in Anyone : c.user = u
      BY <2>2
    <2>6. main' = Append(main, TokenFor(c, u, ok))
      BY <2>4, <2>5
    <2>7. calls' = calls \ {c} /\ UNCHANGED current
      BY <2>3
    <2> QED BY <1>5, <2>5, <2>6, <2>7
  <1> QED BY <1>4, <1>7, <1>8

\* Steps of the main queue: its first message makes one for the worker queue.
LEMMA MainStep ==
    ASSUME CredentialInv, AuthStateDidChange \/ TokenArrived
    PROVE  CredentialInv'
  <1> DEFINE n == Len(main)
             l == Len(worker)
             first == Head(main)
  <1>1. /\ main \in Seq(Announcements \cup Tokens) /\ worker \in Seq(Announcements \cup Results)
        /\ main # <<>> /\ main' = Tail(main)
        /\ UNCHANGED <<current, syncUser, stream, closes, carried, calls>>
    BY DEF CredentialInv, QueuesTyped, AuthStateDidChange, TokenArrived, auth, engine
  <1>2. /\ n \in Nat \ {0} /\ DOMAIN main = 1 .. n /\ DOMAIN main' = 1 .. n - 1
        /\ Len(main') = n - 1 /\ main' \in Seq(Announcements \cup Tokens)
        /\ first = main[1] /\ first \in Announcements \cup Tokens
        /\ \A j \in 1 .. n - 1 : main'[j] = main[j + 1]
        /\ l \in Nat /\ DOMAIN worker = 1 .. l
    BY <1>1, HeadTailProperties, EmptySeq
  <1>3. /\ counter \in Nat /\ known \in Anyone /\ calls \subseteq Calls
    BY DEF CredentialInv, TypeOK
  <1> HIDE DEF n, l, first
  <1>4. ASSUME NEW m \in Announcements \cup Results, worker' = Append(worker, m),
               IF m.kind = "user" THEN known' = m.user
               ELSE known' = known /\ m.kind = "token" /\ m.label = known
        PROVE  /\ QueuesTell' /\ worker' \in Seq(Announcements \cup Results)
               /\ Len(worker') = l + 1 /\ DOMAIN worker' = 1 .. l + 1
               /\ worker'[l + 1] = m /\ \A j \in 1 .. l : worker'[j] = worker[j]
    <2>1. /\ worker' \in Seq(Announcements \cup Results)
          /\ Len(worker') = l + 1 /\ DOMAIN worker' = 1 .. l + 1
          /\ worker'[l + 1] = m /\ \A j \in 1 .. l : worker'[j] = worker[j]
      BY <1>1, <1>4, AppendProperties DEF l
    <2>2. Told(main', known', Len(main') + 1, current')
      <3>1. Told(main', IF first.kind = "user" THEN first.user ELSE known, n + 1 - 1, current)
        BY <1>1, <1>2, ToldTail DEF CredentialInv, QueuesTell, n, first
      <3>2. known' = IF first.kind = "user" THEN first.user ELSE known
        BY <1>2 DEF AuthStateDidChange, TokenArrived, provider, first
      <3> QED BY <1>1, <1>2, <3>1, <3>2
    <2>3. Told(worker', syncUser', Len(worker') + 1, known')
      BY <1>1, <1>4, <2>1, ToldAppend, SMTT(30) DEF CredentialInv, QueuesTell, l
    <2>4. ASSUME NEW k \in DOMAIN worker', worker'[k].kind = "token"
          PROVE  Told(worker', syncUser', k, worker'[k].label)
      <3>1. CASE k = l + 1
        <4>1. Told(worker, syncUser, k, worker'[k].label)
          BY <1>4, <2>1, <2>4, <3>1 DEF CredentialInv, QueuesTell, l
        <4> QED BY <1>1, <1>2, <1>4, <3>1, <4>1, ToldAppend DEF l
      <3>2. CASE k \in 1 .. l
        <4>1. Told(worker, syncUser, k, worker[k].label) /\ worker'[k] = worker[k]
          BY <1>2, <2>1, <2>4, <3>2 DEF CredentialInv, QueuesTell
        <4>2. k \in 1 .. Len(worker) + 1
          BY <1>2, <3>2 DEF l
        <4>3. Told(worker', syncUser, k, worker[k].label)
          BY <1>1, <1>4, <4>1, <4>2, ToldAppend
        <4> QED BY <1>1, <4>1, <4>3
      <3> QED BY <1>2, <2>1, <3>1, <3>2
    <2> QED BY <2>1, <2>2, <2>3, <2>4 DEF QueuesTell
  <1>5. CASE AuthStateDidChange
    <2> DEFINE m == Announced(known')
    <2>1. /\ first.kind = "user" /\ first.user \in Anyone /\ known' = first.user
          /\ counter' = counter + 1 /\ worker' = Append(worker, m)
      BY <1>2, <1>5 DEF AuthStateDidChange, Announcements, Tokens, first
    <2>2. m \in Announcements /\ m.kind = "user" /\ m.user = known'
      BY <2>1 DEF Announced, Announcements
    <2> HIDE DEF m
    <2>3. QueuesTell' /\ QueuesTyped'
      BY <1>2, <1>4, <2>1, <2>2 DEF QueuesTyped
    <2>4. CountsTell'
      <3>1. \A c \in calls : c.counter \in Nat /\ c.counter <= counter
        BY <1>3 DEF CredentialInv, CountsTell, Calls
      <3>2. ASSUME NEW k \in DOMAIN main, main[k].kind = "token"
            PROVE  main[k].counter \in Nat /\ main[k].counter <= counter
        <4>1. main[k] \in Tokens
          BY <1>1, <3>2 DEF Announcements
        <4> QED BY <3>2, <4>1 DEF CredentialInv, CountsTell, Tokens
      <3>3. \A k \in DOMAIN main' : k + 1 \in DOMAIN main /\ main'[k] = main[k + 1]
        BY <1>2
      <3> QED BY <1>1, <1>3, <2>1, <3>1, <3>2, <3>3 DEF CountsTell
    <2>5. LabelsAreTrue'
      BY <1>2, <1>4, <2>1, <2>2 DEF CredentialInv, LabelsAreTrue
    <2>6. TypeOK'
      BY <1>1, <2>1, <2>3 DEF CredentialInv, TypeOK, QueuesTyped, Announcements, Tokens, Results
    <2> QED BY <1>1, <2>3, <2>4, <2>5, <2>6 DEF CredentialInv, SentByTheirUser
  <1>6. CASE TokenArrived
    <2> DEFINE ok == first.ok /\ first.counter = counter
               m  == Result(first, ok)
    <2>1. /\ first.kind = "token" /\ first \in Tokens /\ UNCHANGED <<known, counter>>
          /\ worker' = Append(worker, m)
      BY <1>2, <1>6 DEF TokenArrived, Announcements, provider, first
    <2>2. /\ m \in Results /\ m.kind = "token" /\ m.label = known /\ m.user = first.user
          /\ m.ok = ok /\ ok \in BOOLEAN
      BY <1>3, <2>1 DEF Result, Results, Tokens
    <2>3. ok => first.user = known
      <3>1. Quiet(main, 1)
        BY <1>2 DEF Quiet
      <3> QED BY <1>2, <2>1, <3>1 DEF CredentialInv, CountsTell
    <2> HIDE DEF m, ok
    <2>4. QueuesTell' /\ QueuesTyped'
      BY <1>2, <1>4, <2>1, <2>2 DEF QueuesTyped
    <2>5. \A k \in 0 .. n : Quiet(main', k) => Quiet(main, k + 1)
      <3> SUFFICES ASSUME NEW k \in 0 .. n, Quiet(main', k), NEW j \in DOMAIN main, j < k + 1
                   PROVE  main[j].kind # "user"
        BY DEF Quiet
      <3>1. CASE j = 1
        BY <1>2, <2>1, <3>1
      <3>2. CASE j # 1
        <4>1. j - 1 \in DOMAIN main' /\ j - 1 < k /\ main'[j - 1] = main[j]
          BY <1>2, <3>2
        <4> QED BY <4>1 DEF Quiet
      <3> QED BY <3>1, <3>2
    <2>6. CountsTell'
      <3>1. Quiet(main', n) => Quiet(main, n + 1)
        BY <1>2, <2>5
      <3>2. \A c \in calls' : /\ c.counter <= counter'
                              /\ c.counter = counter' /\ c.user # Unread /\ Quiet(main', Len(main') + 1)
                                    => c.user = known'
        BY <1>1, <1>2, <2>1, <3>1 DEF CredentialInv, CountsTell, n
      <3>3. ASSUME NEW k \in DOMAIN main', main'[k].kind = "token"
            PROVE  /\ main'[k].counter <= counter'
                   /\ main'[k].counter = counter' /\ Quiet(main', k) => main'[k].user = known'
        <4>1. k + 1 \in DOMAIN main /\ main'[k] = main[k + 1] /\ k \in 0 .. n
          BY <1>2
        <4> QED BY <2>1, <2>5, <3>3, <4>1 DEF CredentialInv, CountsTell
      <3> QED BY <1>2, <3>2, <3>3 DEF CountsTell
    <2>7. LabelsAreTrue'
      BY <1>2, <1>4, <2>1, <2>2, <2>3 DEF CredentialInv, LabelsAreTrue
    <2>8. TypeOK'
      BY <1>1, <2>1, <2>4 DEF CredentialInv, TypeOK, QueuesTyped, Announcements, Tokens, Results
    <2> QED BY <1>1, <2>4, <2>6, <2>7, <2>8 DEF CredentialInv, SentByTheirUser
  <1> QED BY <1>5, <1>6

\* Calls that are made now carry the count of now and have read no user.
LEMMA AskStep ==
    ASSUME CredentialInv, NEW count \in Nat, Asks(count), UNCHANGED <<main, known, counter>>
    PROVE  CountsTell' /\ calls' \subseteq Calls
  <1> DEFINE c == [close |-> count, counter |-> counter, user |-> Unread]
  <1>1. calls' = calls \cup {c} /\ counter \in Nat /\ calls \subseteq Calls
    BY DEF CredentialInv, TypeOK, Asks
  <1>2. c \in Calls /\ c.user = Unread /\ c.counter = counter
    BY <1>1 DEF Calls
  <1> HIDE DEF c
  <1> QED BY <1>1, <1>2 DEF CredentialInv, CountsTell, Quiet

\* Steps of the worker queue that take its first message.
LEMMA WorkerStep ==
    ASSUME CredentialInv, CredentialChanged \/ ResumeStart
    PROVE  CredentialInv'
  <1> DEFINE l == Len(worker)
             first == Head(worker)
  <1>1. /\ worker \in Seq(Announcements \cup Results) /\ worker # <<>> /\ worker' = Tail(worker)
        /\ UNCHANGED <<current, known, counter, main>>
    BY DEF CredentialInv, QueuesTyped, CredentialChanged, ResumeStart, auth, provider
  <1>2. /\ l \in Nat \ {0} /\ DOMAIN worker = 1 .. l /\ DOMAIN worker' = 1 .. l - 1
        /\ Len(worker') = l - 1 /\ worker' \in Seq(Announcements \cup Results)
        /\ first = worker[1] /\ first \in Announcements \cup Results
        /\ \A j \in 1 .. l - 1 : worker'[j] = worker[j + 1]
    BY <1>1, HeadTailProperties, EmptySeq
  <1>3. closes \in Nat /\ calls \subseteq Calls
    BY DEF CredentialInv, TypeOK
  <1> HIDE DEF l, first
  <1>4. syncUser' = IF first.kind = "user" THEN first.user ELSE syncUser
    BY DEF CredentialChanged, ResumeStart, engine, first
  <1>5. \A k \in 2 .. l + 1 : \A u : Told(worker, syncUser, k, u)
                                      => Told(worker', syncUser', k - 1, u)
    BY <1>1, <1>4, ToldTail DEF l, first
  <1>6. QueuesTell'
    <2>1. Told(worker', syncUser', Len(worker') + 1, known')
      BY <1>1, <1>2, <1>5 DEF CredentialInv, QueuesTell, l
    <2>2. ASSUME NEW k \in DOMAIN worker', worker'[k].kind = "token"
          PROVE  Told(worker', syncUser', k, worker'[k].label)
      <3>1. k + 1 \in 2 .. l /\ k + 1 \in DOMAIN worker /\ worker'[k] = worker[k + 1]
        BY <1>2
      <3>2. Told(worker, syncUser, k + 1, worker[k + 1].label)
        BY <2>2, <3>1 DEF CredentialInv, QueuesTell
      <3>3. Told(worker', syncUser', k + 1 - 1, worker[k + 1].label)
        BY <1>2, <1>5, <3>1, <3>2
      <3> QED BY <1>2, <3>1, <3>3
    <2> QED BY <1>1, <2>1, <2>2 DEF CredentialInv, QueuesTell
  <1>7. QueuesTyped' /\ LabelsAreTrue'
    BY <1>1, <1>2 DEF CredentialInv, QueuesTyped, LabelsAreTrue
  <1>8. CASE CredentialChanged
    <2>1. /\ first \in Announcements /\ stream' = "Starting" /\ carried' = carried
          /\ closes' = closes + 1 /\ syncUser' = first.user /\ Asks(closes')
      BY <1>2, <1>8 DEF CredentialChanged, Results, first
    <2>2. CountsTell' /\ calls' \subseteq Calls
      BY <1>1, <1>3, <2>1, AskStep
    <2>3. TypeOK'
      BY <1>1, <1>2, <1>3, <2>1, <2>2
         DEF CredentialInv, TypeOK, QueuesTyped, Announcements, Results
    <2> QED BY <1>6, <1>7, <2>1, <2>2, <2>3 DEF CredentialInv, SentByTheirUser
  <1>9. CASE ResumeStart
    <2>1. first \in Results /\ UNCHANGED <<calls, syncUser>>
      BY <1>2, <1>9 DEF ResumeStart, Announcements, engine, first
    <2>2. first.label = syncUser /\ (first.ok => first.label = first.user)
      <3>1. Told(worker, syncUser, 1, first.label)
        BY <1>2, <2>1 DEF CredentialInv, QueuesTell, Results
      <3> QED BY <1>2, <2>1, <3>1 DEF Told, Quiet, CredentialInv, LabelsAreTrue, Results
    <2>3. SentByTheirUser'
      BY <1>9, <2>1, <2>2 DEF ResumeStart, engine, first, CredentialInv, SentByTheirUser
    <2>4. CountsTell'
      BY <1>1, <2>1 DEF CredentialInv, CountsTell, Quiet
    <2>5. /\ stream' \in {"Starting", "Open", "Backoff"} /\ carried' \in Anyone
          /\ closes' \in Nat
      BY <1>3, <1>9, <2>1 DEF CredentialInv, TypeOK, ResumeStart, engine, first, Results
    <2>6. TypeOK'
      BY <1>1, <1>2, <2>1, <2>5 DEF CredentialInv, TypeOK, Announcements, Results
    <2> QED BY <1>6, <1>7, <2>3, <2>4, <2>6 DEF CredentialInv
  <1> QED BY <1>8, <1>9

\* Steps of the stream alone.
LEMMA StreamStep ==
    ASSUME CredentialInv, StreamBreaks \/ BackoffElapsed \/ UNCHANGED vars
    PROVE  CredentialInv'
  <1>1. UNCHANGED <<current, main, known, counter, worker, syncUser, carried>>
    BY DEF StreamBreaks, BackoffElapsed, vars, auth, provider
  <1>2. QueuesTyped' /\ QueuesTell' /\ LabelsAreTrue'
    BY <1>1 DEF CredentialInv, QueuesTyped, QueuesTell, LabelsAreTrue
  <1>3. SentByTheirUser'
    BY <1>1 DEF CredentialInv, SentByTheirUser, StreamBreaks, BackoffElapsed, vars
  <1>4. CountsTell' /\ calls' \subseteq Calls
    <2>1. CASE BackoffElapsed
      BY <1>1, <2>1, AskStep DEF BackoffElapsed, CredentialInv, TypeOK
    <2>2. CASE StreamBreaks \/ UNCHANGED vars
      BY <1>1, <2>2 DEF StreamBreaks, vars, CredentialInv, CountsTell, Quiet, TypeOK
    <2> QED BY <2>1, <2>2
  <1>5. TypeOK'
    BY <1>1, <1>4 DEF CredentialInv, TypeOK, StreamBreaks, BackoffElapsed, vars
  <1> QED BY <1>2, <1>3, <1>4, <1>5 DEF CredentialInv

LEMMA CredentialInvariance == Spec => []CredentialInv
  <1>1. CredentialInv /\ [Next]_vars => CredentialInv'
    BY AuthStep, MainStep, WorkerStep, StreamStep DEF Next, Answer, Main, Worker
  <1> QED BY <1>1, CredentialStart, PTL DEF Spec

-----------------------------------------------------------------------------
\* Every state is well typed.
THEOREM CredentialsTyped == Spec => []TypeOK
  <1>1. CredentialInv => TypeOK
    BY DEF CredentialInv
  <1> QED BY <1>1, CredentialInvariance, PTL

\* Whoever signs in or out while a token is fetched, dispatched or queued,
\* the stream that is open was opened with the token of the user whose writes
\* are sent on it.
THEOREM TokensSentByTheirUser == Spec => []SentByTheirUser
  <1>1. CredentialInv => SentByTheirUser
    BY DEF CredentialInv
  <1> QED BY <1>1, CredentialInvariance, PTL

\* The label that the provider puts on a token is the user it was fetched for.
THEOREM LabelsTrue == Spec => []LabelsAreTrue
  <1>1. CredentialInv => LabelsAreTrue
    BY DEF CredentialInv
  <1> QED BY <1>1, CredentialInvariance, PTL

-----------------------------------------------------------------------------
(***************************************************************************)
(* One token at a time.  Cardinalities are awkward to keep through a step, *)
(* so the invariant says where the one token is.                           *)
(***************************************************************************)

\* Where in a queue there are tokens that were asked for after n closes.
TokensOf(queue, n) == {k \in DOMAIN queue : queue[k].kind = "token" /\ queue[k].close = n}
Asked(n) == {c \in calls : c.close = n}

One(S) == \E x : S = {x}
OnlyOne(S, T, U) ==
    \/ One(S) /\ T = {} /\ U = {}
    \/ S = {} /\ One(T) /\ U = {}
    \/ S = {} /\ T = {} /\ One(U)

\* Nobody asks for a stream that is yet to come.
NoneAhead ==
    /\ \A c \in calls : c.close <= closes
    /\ \A k \in DOMAIN main : main[k].kind = "token" => main[k].close <= closes
    /\ \A k \in DOMAIN worker : worker[k].kind = "token" => worker[k].close <= closes

OneAsked == OnlyOne(Asked(closes), TokensOf(main, closes), TokensOf(worker, closes))
NoneAsked ==
    Asked(closes) = {} /\ TokensOf(main, closes) = {} /\ TokensOf(worker, closes) = {}

WaitsForOne ==
    /\ NoneAhead
    /\ stream = "Starting" => OneAsked
    /\ stream # "Starting" => NoneAsked

\* What a message at the end of a queue adds to its tokens.
LEMMA TokensOfAppend ==
    ASSUME NEW S, NEW queue \in Seq(S), NEW m \in S, NEW n
    PROVE  /\ m.kind = "token" /\ m.close = n
                => /\ TokensOf(queue, n) = {} => One(TokensOf(Append(queue, m), n))
                   /\ TokensOf(Append(queue, m), n) # {}
           /\ ~ (m.kind = "token" /\ m.close = n)
                => TokensOf(Append(queue, m), n) = TokensOf(queue, n)
  <1> DEFINE l    == Len(queue)
             long == Append(queue, m)
  <1>1. /\ l \in Nat /\ DOMAIN queue = 1 .. l /\ DOMAIN long = 1 .. l + 1
        /\ long[l + 1] = m /\ \A j \in 1 .. l : long[j] = queue[j]
    BY AppendProperties
  <1> HIDE DEF l, long
  <1>2. CASE m.kind = "token" /\ m.close = n
    <2>1. TokensOf(long, n) = TokensOf(queue, n) \cup {l + 1}
      BY <1>1, <1>2 DEF TokensOf
    <2> QED BY <1>2, <2>1 DEF One, long
  <1>3. CASE ~ (m.kind = "token" /\ m.close = n)
    <2>1. TokensOf(long, n) = TokensOf(queue, n)
      BY <1>1, <1>3 DEF TokensOf
    <2> QED BY <1>3, <2>1 DEF long
  <1> QED BY <1>2, <1>3

\* What taking the first message leaves of the tokens of a queue.
LEMMA TokensOfTail ==
    ASSUME NEW S, NEW queue \in Seq(S), queue # <<>>, NEW n
    PROVE  /\ TokensOf(queue, n) = {} => TokensOf(Tail(queue), n) = {}
           /\ One(TokensOf(queue, n)) =>
                IF Head(queue).kind = "token" /\ Head(queue).close = n
                THEN TokensOf(Tail(queue), n) = {}
                ELSE One(TokensOf(Tail(queue), n))
           /\ Head(queue).kind = "token" /\ Head(queue).close = n => TokensOf(queue, n) # {}
  <1> DEFINE l    == Len(queue)
             rest == Tail(queue)
  <1>1. /\ l \in Nat \ {0} /\ DOMAIN queue = 1 .. l /\ DOMAIN rest = 1 .. l - 1
        /\ Head(queue) = queue[1] /\ \A j \in 1 .. l - 1 : rest[j] = queue[j + 1]
    BY HeadTailProperties, EmptySeq
  <1> HIDE DEF l, rest
  <1>2. \A j \in TokensOf(rest, n) : j + 1 \in TokensOf(queue, n) /\ j + 1 # 1
    BY <1>1 DEF TokensOf
  <1>3. \A j \in TokensOf(queue, n) : j # 1 => j - 1 \in TokensOf(rest, n)
    <2> SUFFICES ASSUME NEW j \in TokensOf(queue, n), j # 1
                 PROVE  j - 1 \in TokensOf(rest, n)
      OBVIOUS
    <2>1. j \in 2 .. l /\ queue[j].kind = "token" /\ queue[j].close = n
      BY <1>1 DEF TokensOf
    <2>2. j - 1 \in 1 .. l - 1 /\ rest[j - 1] = queue[j - 1 + 1] /\ j - 1 + 1 = j
      BY <1>1, <2>1
    <2> QED BY <1>1, <2>1, <2>2 DEF TokensOf
  <1>4. TokensOf(queue, n) \subseteq Int /\ TokensOf(rest, n) \subseteq Int
    BY <1>1 DEF TokensOf
  <1>5. 1 \in TokensOf(queue, n) <=> Head(queue).kind = "token" /\ Head(queue).close = n
    BY <1>1 DEF TokensOf
  <1>6. ASSUME NEW x, TokensOf(queue, n) = {x}
        PROVE  IF 1 \in TokensOf(queue, n) THEN TokensOf(rest, n) = {}
               ELSE TokensOf(rest, n) = {x - 1}
    <2>1. x \in Int
      BY <1>4, <1>6
    <2>2. CASE 1 \in TokensOf(queue, n)
      BY <1>2, <1>6, <2>2
    <2>3. CASE 1 \notin TokensOf(queue, n)
      <3>1. x - 1 \in TokensOf(rest, n)
        BY <1>3, <1>6, <2>3
      <3>2. \A j \in TokensOf(rest, n) : j = x - 1
        BY <1>2, <1>4, <1>6, <2>1
      <3> QED BY <2>3, <3>1, <3>2
    <2> QED BY <2>2, <2>3
  <1>7. TokensOf(queue, n) = {} => TokensOf(rest, n) = {}
    BY <1>2
  <1> QED BY <1>5, <1>6, <1>7 DEF One, rest

LEMMA WaitsAtStart == Init => WaitsForOne
  <1> SUFFICES ASSUME Init PROVE WaitsForOne
    OBVIOUS
  <1> DEFINE c == [close |-> 0, counter |-> 0, user |-> Unread]
  <1>1. calls = {c} /\ c.close = 0 /\ closes = 0 /\ stream = "Starting" /\ worker = <<>>
    BY DEF Init
  <1>2. main = <<>> \/ main = <<Announced(current)>>
    BY DEF Init
  <1>3. \A k \in DOMAIN main : main[k].kind = "user"
    BY <1>2 DEF Announced
  <1> HIDE DEF c
  <1>4. Asked(closes) = {c} /\ TokensOf(main, closes) = {} /\ TokensOf(worker, closes) = {}
    BY <1>1, <1>3 DEF Asked, TokensOf
  <1>5. NoneAhead
    BY <1>1, <1>3 DEF NoneAhead
  <1> QED BY <1>1, <1>4, <1>5 DEF WaitsForOne, OneAsked, OnlyOne, One

\* A message that goes from the calls into the main queue takes its count along.
LEMMA WaitsAuth ==
    ASSUME CredentialInv, WaitsForOne,
           \/ \E u \in Anyone : UpdateCurrentUser(u)
           \/ \E c \in calls : GetToken(c) \/ TokenFetched(c) \/ FetchFailed(c)
    PROVE  WaitsForOne'
  <1> DEFINE n == Len(main)
  <1>1. /\ main \in Seq(Announcements \cup Tokens) /\ n \in Nat /\ DOMAIN main = 1 .. n
        /\ UNCHANGED <<worker, stream, closes>>
    <2>1. main \in Seq(Announcements \cup Tokens)
      BY DEF CredentialInv, QueuesTyped
    <2>2. UNCHANGED <<engine, worker>>
      BY DEF UpdateCurrentUser, GetToken, TokenFetched, FetchFailed
    <2> QED BY <2>1, <2>2 DEF engine
  <1>2. closes \in Nat /\ calls \subseteq Calls /\ current \in Anyone /\ Unread \notin Anyone
    BY CredentialConstants DEF CredentialInv, TypeOK, Anyone, CredentialConstants
  <1> HIDE DEF n
  <1>3. ASSUME NEW m \in Announcements \cup Tokens, main' = Append(main, m)
        PROVE  /\ DOMAIN main' = 1 .. n + 1
               /\ main'[n + 1] = m /\ \A j \in 1 .. n : main'[j] = main[j]
    BY <1>1, <1>3, AppendProperties DEF n
  <1>4. CASE \E u \in Anyone : UpdateCurrentUser(u)
    <2>1. PICK u \in Anyone : UpdateCurrentUser(u)
      BY <1>4
    <2> DEFINE m == Announced(u)
    <2>2. m \in Announcements /\ m.kind = "user" /\ main' = Append(main, m) /\ UNCHANGED calls
      BY <2>1 DEF UpdateCurrentUser, Announced, Announcements
    <2> HIDE DEF m
    <2>3. TokensOf(main', closes) = TokensOf(main, closes)
      BY <1>1, <2>2, TokensOfAppend
    <2>4. NoneAhead'
      BY <1>1, <1>3, <2>2 DEF WaitsForOne, NoneAhead
    <2> QED BY <1>1, <2>2, <2>3, <2>4 DEF WaitsForOne, OneAsked, NoneAsked, Asked
  <1>5. ASSUME NEW c \in calls, NEW u \in Anyone, NEW ok \in BOOLEAN,
               main' = Append(main, TokenFor(c, u, ok)), calls' = calls \ {c}
        PROVE  WaitsForOne'
    <2> DEFINE m == TokenFor(c, u, ok)
    <2>1. m \in Tokens /\ m.kind = "token" /\ m.close = c.close
      BY <1>2 DEF TokenFor, Tokens, Calls
    <2>2. main' = Append(main, m) /\ calls' = calls \ {c}
      BY <1>5
    <2> HIDE DEF m
    <2>3. NoneAhead'
      BY <1>1, <1>3, <2>1, <2>2 DEF WaitsForOne, NoneAhead
    <2>4. CASE c.close = closes
      <3>1. c \in Asked(closes)
        BY <2>4 DEF Asked
      <3>2. stream = "Starting" /\ Asked(closes) = {c} /\ TokensOf(main, closes) = {}
            /\ TokensOf(worker, closes) = {}
        BY <3>1 DEF WaitsForOne, OneAsked, NoneAsked, OnlyOne, One
      <3>3. Asked(closes)' = {}
        BY <1>1, <2>2, <3>2 DEF Asked
      <3>4. One(TokensOf(main', closes))
        BY <1>1, <2>1, <2>2, <2>4, <3>2, TokensOfAppend
      <3> QED BY <1>1, <2>3, <3>2, <3>3, <3>4 DEF WaitsForOne, OneAsked, OnlyOne
    <2>5. CASE c.close # closes
      <3>1. Asked(closes)' = Asked(closes)
        BY <1>1, <2>2, <2>5 DEF Asked
      <3>2. TokensOf(main', closes) = TokensOf(main, closes)
        BY <1>1, <2>1, <2>2, <2>5, TokensOfAppend
      <3> QED BY <1>1, <2>3, <3>1, <3>2 DEF WaitsForOne, OneAsked, NoneAsked
    <2> QED BY <2>4, <2>5
  <1>6. ASSUME NEW c \in calls, GetToken(c), current # NoUser
        PROVE  WaitsForOne'
    <2> DEFINE d == [c EXCEPT !.user = current]
    <2>1. calls' = (calls \ {c}) \cup {d} /\ main' = main /\ d.close = c.close
      BY <1>2, <1>6 DEF GetToken, Calls
    <2> HIDE DEF d
    <2>2. NoneAhead'
      BY <1>1, <2>1 DEF WaitsForOne, NoneAhead
    <2>3. CASE c.close = closes
      <3>1. c \in Asked(closes)
        BY <2>3 DEF Asked
      <3>2. stream = "Starting" /\ Asked(closes) = {c} /\ TokensOf(main, closes) = {}
            /\ TokensOf(worker, closes) = {}
        BY <3>1 DEF WaitsForOne, OneAsked, NoneAsked, OnlyOne, One
      <3>3. Asked(closes)' = {d}
        BY <1>1, <2>1, <2>3, <3>2 DEF Asked
      <3> QED BY <1>1, <2>1, <2>2, <3>2, <3>3 DEF WaitsForOne, OneAsked, OnlyOne, One
    <2>4. CASE c.close # closes
      <3>1. Asked(closes)' = Asked(closes)
        BY <1>1, <2>1, <2>4 DEF Asked
      <3> QED BY <1>1, <2>1, <2>2, <3>1 DEF WaitsForOne, OneAsked, NoneAsked
    <2> QED BY <2>3, <2>4
  <1>7. ASSUME NEW c \in calls, GetToken(c) \/ TokenFetched(c) \/ FetchFailed(c)
        PROVE  WaitsForOne'
    <2>1. CASE GetToken(c) /\ current = NoUser
      <3>1. NoUser \in Anyone /\ TRUE \in BOOLEAN
        BY DEF Anyone
      <3> QED BY <1>5, <2>1, <3>1 DEF GetToken
    <2>2. CASE GetToken(c) /\ current # NoUser
      BY <1>6, <2>2
    <2>3. CASE TokenFetched(c) \/ FetchFailed(c)
      <3>1. c.user \in Anyone
        BY <1>2, <2>3 DEF TokenFetched, FetchFailed, Calls
      <3>2. calls' = calls \ {c} /\ \E ok \in BOOLEAN : main' = Append(main, TokenFor(c, c.user, ok))
        BY <2>3 DEF TokenFetched, FetchFailed
      <3> QED BY <1>5, <3>1, <3>2
    <2> QED BY <1>7, <2>1, <2>2, <2>3
  <1> QED BY <1>4, <1>7

\* A token goes from the main queue to the worker queue with its count.
LEMMA WaitsMain ==
    ASSUME CredentialInv, WaitsForOne, AuthStateDidChange \/ TokenArrived
    PROVE  WaitsForOne'
  <1> DEFINE first == Head(main)
             n == Len(main)
             l == Len(worker)
             m == worker'[l + 1]
  <1>1. /\ main \in Seq(Announcements \cup Tokens) /\ main # <<>> /\ main' = Tail(main)
        /\ worker \in Seq(Announcements \cup Results)
        /\ UNCHANGED <<stream, closes, calls>>
    <2>1. /\ main \in Seq(Announcements \cup Tokens) /\ main # <<>> /\ main' = Tail(main)
          /\ worker \in Seq(Announcements \cup Results) /\ UNCHANGED <<engine, calls>>
      BY DEF CredentialInv, QueuesTyped, AuthStateDidChange, TokenArrived
    <2> QED BY <2>1 DEF engine
  <1>2. /\ n \in Nat \ {0} /\ DOMAIN main = 1 .. n /\ DOMAIN main' = 1 .. n - 1
        /\ first = main[1] /\ first \in Announcements \cup Tokens
        /\ \A j \in 1 .. n - 1 : main'[j] = main[j + 1]
    BY <1>1, HeadTailProperties, EmptySeq
  <1> HIDE DEF first
  <1>3. \E mm \in Announcements \cup Results :
           /\ worker' = Append(worker, mm)
           /\ mm.kind = first.kind
           /\ first.kind = "token" => mm.close = first.close
    <2>1. CASE AuthStateDidChange
      <3>1. first \in Announcements /\ first.kind = "user"
        BY <1>2, <2>1 DEF AuthStateDidChange, Tokens, first
      <3>2. worker' = Append(worker, Announced(first.user))
        BY <2>1 DEF AuthStateDidChange, first
      <3>3. Announced(first.user) \in Announcements /\ Announced(first.user).kind = "user"
        BY <3>1 DEF Announced, Announcements
      <3> QED BY <3>1, <3>2, <3>3
    <2>2. CASE TokenArrived
      <3> DEFINE ok == first.ok /\ first.counter = counter
                 r  == Result(first, ok)
      <3>1. first \in Tokens /\ first.kind = "token"
        BY <1>2, <2>2 DEF TokenArrived, Announcements, first
      <3>2. worker' = Append(worker, r)
        BY <2>2 DEF TokenArrived, first
      <3>3. ok \in BOOLEAN /\ known \in Anyone
        BY DEF CredentialInv, TypeOK
      <3> HIDE DEF ok
      <3>4. r \in Results /\ r.kind = "token" /\ r.close = first.close
        BY <3>1, <3>3 DEF Result, Results, Tokens
      <3> QED BY <3>1, <3>2, <3>4
    <2> QED BY <2>1, <2>2
  <1>4. PICK mm \in Announcements \cup Results :
           /\ worker' = Append(worker, mm)
           /\ mm.kind = first.kind
           /\ first.kind = "token" => mm.close = first.close
    BY <1>3
  <1>5. /\ l \in Nat /\ DOMAIN worker = 1 .. l /\ DOMAIN worker' = 1 .. l + 1
        /\ worker'[l + 1] = mm /\ \A j \in 1 .. l : worker'[j] = worker[j]
    BY <1>1, <1>4, AppendProperties
  <1>6. closes \in Nat
    BY DEF CredentialInv, TypeOK
  <1> HIDE DEF n, l
  <1>7. NoneAhead'
    BY <1>1, <1>2, <1>4, <1>5 DEF WaitsForOne, NoneAhead
  <1>8. Asked(closes)' = Asked(closes)
    BY <1>1 DEF Asked
  <1>9. /\ TokensOf(main, closes) = {} => TokensOf(main', closes) = {}
        /\ One(TokensOf(main, closes)) =>
              IF first.kind = "token" /\ first.close = closes
              THEN TokensOf(main', closes) = {} ELSE One(TokensOf(main', closes))
        /\ first.kind = "token" /\ first.close = closes => TokensOf(main, closes) # {}
    BY <1>1, TokensOfTail DEF first
  <1>10. CASE first.kind = "token" /\ first.close = closes
    <2>1. /\ stream = "Starting" /\ Asked(closes) = {} /\ One(TokensOf(main, closes))
          /\ TokensOf(worker, closes) = {}
      BY <1>9, <1>10 DEF WaitsForOne, OneAsked, NoneAsked, OnlyOne
    <2>2. One(TokensOf(worker', closes))
      BY <1>1, <1>4, <1>10, <2>1, TokensOfAppend
    <2> QED BY <1>1, <1>7, <1>8, <1>9, <1>10, <2>1, <2>2 DEF WaitsForOne, OneAsked, OnlyOne
  <1>11. CASE ~ (first.kind = "token" /\ first.close = closes)
    <2>1. TokensOf(worker', closes) = TokensOf(worker, closes)
      BY <1>1, <1>4, <1>11, TokensOfAppend
    <2>2. OneAsked => OneAsked'
      BY <1>1, <1>8, <1>9, <1>11, <2>1 DEF OneAsked, OnlyOne
    <2>3. NoneAsked => NoneAsked'
      BY <1>1, <1>8, <1>9, <2>1 DEF NoneAsked
    <2> QED BY <1>1, <1>7, <2>2, <2>3 DEF WaitsForOne
  <1> QED BY <1>10, <1>11

\* A stream that closes leaves every token behind, and one that starts asks
\* for one.
LEMMA WaitsAsking ==
    ASSUME closes \in Nat, closes' \in Nat, NoneAhead', Asks(closes'), stream' = "Starting",
           \A c \in calls : c.close # closes',
           TokensOf(main', closes') = {}, TokensOf(worker', closes') = {}
    PROVE  WaitsForOne'
  <1> DEFINE c == [close |-> closes', counter |-> counter, user |-> Unread]
  <1>1. calls' = calls \cup {c} /\ c.close = closes'
    BY DEF Asks
  <1> HIDE DEF c
  <1>2. Asked(closes)' = {c}
    BY <1>1 DEF Asked
  <1> QED BY <1>2 DEF WaitsForOne, OneAsked, OnlyOne, One

LEMMA WaitsWorker ==
    ASSUME CredentialInv, WaitsForOne, CredentialChanged \/ ResumeStart
    PROVE  WaitsForOne'
  <1> DEFINE l == Len(worker)
             first == Head(worker)
  <1>1. /\ worker \in Seq(Announcements \cup Results) /\ worker # <<>> /\ worker' = Tail(worker)
        /\ main' = main
    BY DEF CredentialInv, QueuesTyped, CredentialChanged, ResumeStart
  <1>2. /\ l \in Nat \ {0} /\ DOMAIN worker = 1 .. l /\ DOMAIN worker' = 1 .. l - 1
        /\ first = worker[1] /\ first \in Announcements \cup Results
        /\ \A j \in 1 .. l - 1 : worker'[j] = worker[j + 1]
    BY <1>1, HeadTailProperties, EmptySeq
  <1>3. closes \in Nat /\ calls \subseteq Calls
    BY DEF CredentialInv, TypeOK
  <1>4. /\ main \in Seq(Announcements \cup Tokens)
        /\ \A k \in DOMAIN main : main[k] \in Announcements \cup Tokens
    BY ElementOfSeq, LenProperties DEF CredentialInv, QueuesTyped
  <1> HIDE DEF l, first
  <1>5. \A k \in DOMAIN worker' : k + 1 \in DOMAIN worker /\ worker'[k] = worker[k + 1]
                                  /\ worker'[k] \in Announcements \cup Results
    BY <1>1, <1>2, ElementOfSeq DEF l
  <1>6. ASSUME closes' = closes + 1
        PROVE  /\ TokensOf(main', closes') = {} /\ TokensOf(worker', closes') = {}
               /\ \A c \in calls : c.close # closes'
    <2>1. \A k \in DOMAIN main' : ~ (main'[k].kind = "token" /\ main'[k].close = closes')
      BY <1>1, <1>3, <1>4, <1>6 DEF WaitsForOne, NoneAhead, Tokens, Announcements
    <2>2. \A k \in DOMAIN worker' : ~ (worker'[k].kind = "token" /\ worker'[k].close = closes')
      BY <1>3, <1>5, <1>6 DEF WaitsForOne, NoneAhead, Results, Announcements
    <2>3. \A c \in calls : c.close # closes'
      BY <1>3, <1>6 DEF WaitsForOne, NoneAhead, Calls
    <2> QED BY <2>1, <2>2, <2>3 DEF TokensOf
  <1>7. ASSUME closes' \in {closes, closes + 1},
               \A c \in calls' : c \in calls \/ c.close = closes'
        PROVE  NoneAhead'
    <2>1. \A c \in calls' : c.close <= closes'
      BY <1>3, <1>7 DEF WaitsForOne, NoneAhead, Calls
    <2>2. \A k \in DOMAIN main' : main'[k].kind = "token" => main'[k].close <= closes'
      BY <1>1, <1>3, <1>4, <1>7 DEF WaitsForOne, NoneAhead, Tokens, Announcements
    <2>3. \A k \in DOMAIN worker' : worker'[k].kind = "token" => worker'[k].close <= closes'
      BY <1>3, <1>5, <1>7 DEF WaitsForOne, NoneAhead, Results, Announcements
    <2> QED BY <2>1, <2>2, <2>3 DEF NoneAhead
  <1>8. CASE CredentialChanged
    <2>1. stream' = "Starting" /\ closes' = closes + 1 /\ Asks(closes')
      BY <1>8 DEF CredentialChanged
    <2>2. NoneAhead'
      BY <1>7, <2>1 DEF Asks
    <2> QED BY <1>3, <1>6, <2>1, <2>2, WaitsAsking
  <1>9. CASE ResumeStart
    <2>1. first \in Results /\ first.kind = "token" /\ calls' = calls
      BY <1>2, <1>9 DEF ResumeStart, Announcements, first
    <2>2. /\ TokensOf(worker, closes) = {} => TokensOf(worker', closes) = {}
          /\ One(TokensOf(worker, closes)) =>
                IF first.close = closes
                THEN TokensOf(worker', closes) = {} ELSE One(TokensOf(worker', closes))
          /\ first.close = closes => TokensOf(worker, closes) # {}
      BY <1>1, <2>1, TokensOfTail DEF first
    <2>3. closes' \in {closes, closes + 1}
      BY <1>9, <2>1 DEF ResumeStart, engine, first
    <2>4. NoneAhead'
      BY <1>7, <2>1, <2>3
    <2>5. CASE first.close # closes
      <3>1. UNCHANGED <<stream, closes>>
        BY <1>9, <2>5 DEF ResumeStart, engine, first
      <3>2. OneAsked => OneAsked'
        BY <1>1, <2>1, <2>2, <2>5, <3>1 DEF OneAsked, OnlyOne, Asked
      <3>3. NoneAsked => NoneAsked'
        BY <1>1, <2>1, <2>2, <3>1 DEF NoneAsked, Asked
      <3> QED BY <2>4, <3>1, <3>2, <3>3 DEF WaitsForOne
    <2>6. CASE first.close = closes /\ first.ok
      <3>1. stream' = "Open" /\ closes' = closes
        BY <1>9, <2>6 DEF ResumeStart, first
      <3>2. /\ Asked(closes) = {} /\ One(TokensOf(worker, closes))
            /\ TokensOf(main, closes) = {}
        BY <2>2, <2>6 DEF WaitsForOne, OneAsked, NoneAsked, OnlyOne
      <3>3. NoneAsked'
        BY <1>1, <2>1, <2>2, <2>6, <3>1, <3>2 DEF NoneAsked, Asked
      <3> QED BY <2>4, <3>1, <3>3 DEF WaitsForOne
    <2>7. CASE first.close = closes /\ ~ first.ok
      <3>1. stream' = "Backoff" /\ closes' = closes + 1
        BY <1>9, <2>7 DEF ResumeStart, first
      <3>2. NoneAsked'
        BY <1>6, <2>1, <3>1 DEF NoneAsked, Asked
      <3> QED BY <2>4, <3>1, <3>2 DEF WaitsForOne
    <2> QED BY <2>5, <2>6, <2>7
  <1> QED BY <1>8, <1>9

LEMMA WaitsStream ==
    ASSUME CredentialInv, WaitsForOne, StreamBreaks \/ BackoffElapsed \/ UNCHANGED vars
    PROVE  WaitsForOne'
  <1>1. UNCHANGED <<main, worker>>
    BY DEF StreamBreaks, BackoffElapsed, vars
  <1>2. closes \in Nat /\ calls \subseteq Calls
    BY DEF CredentialInv, TypeOK
  <1>3. /\ \A k \in DOMAIN main : main[k] \in Announcements \cup Tokens
        /\ \A k \in DOMAIN worker : worker[k] \in Announcements \cup Results
    BY ElementOfSeq, LenProperties DEF CredentialInv, QueuesTyped
  <1>4. CASE StreamBreaks
    <2>1. stream' = "Backoff" /\ closes' = closes + 1 /\ calls' = calls
      BY <1>4 DEF StreamBreaks
    <2>2. \A c \in calls : c.close <= closes' /\ c.close # closes'
      BY <1>2, <2>1 DEF WaitsForOne, NoneAhead, Calls
    <2>3. \A k \in DOMAIN main :
             main[k].kind = "token" => main[k].close <= closes' /\ main[k].close # closes'
      BY <1>2, <1>3, <2>1 DEF WaitsForOne, NoneAhead, Tokens, Announcements
    <2>4. \A k \in DOMAIN worker :
             worker[k].kind = "token" => worker[k].close <= closes' /\ worker[k].close # closes'
      BY <1>2, <1>3, <2>1 DEF WaitsForOne, NoneAhead, Results, Announcements
    <2>5. NoneAhead' /\ NoneAsked'
      BY <1>1, <2>1, <2>2, <2>3, <2>4 DEF NoneAhead, NoneAsked, Asked, TokensOf
    <2> QED BY <2>1, <2>5 DEF WaitsForOne
  <1>5. CASE BackoffElapsed
    <2>1. stream # "Starting" /\ stream' = "Starting" /\ closes' = closes /\ Asks(closes)
      BY <1>5 DEF BackoffElapsed
    <2>2. NoneAsked
      BY <2>1 DEF WaitsForOne
    <2>3. NoneAhead'
      BY <1>1, <1>2, <2>1 DEF WaitsForOne, NoneAhead, Asks
    <2>4. \A c \in calls : c.close # closes'
      BY <2>1, <2>2 DEF NoneAsked, Asked
    <2>5. TokensOf(main', closes') = {} /\ TokensOf(worker', closes') = {} /\ Asks(closes')
      BY <1>1, <2>1, <2>2 DEF NoneAsked
    <2> QED BY <1>2, <2>1, <2>3, <2>4, <2>5, WaitsAsking
  <1>6. CASE UNCHANGED vars
    <2>1. UNCHANGED <<main, worker, calls, closes, stream>>
      BY <1>6 DEF vars
    <2> QED BY <2>1 DEF WaitsForOne, NoneAhead, OneAsked, NoneAsked, Asked
  <1> QED BY <1>4, <1>5, <1>6

LEMMA WaitsInvariance == Spec => []WaitsForOne
  <1>1. CredentialInv /\ WaitsForOne /\ [Next]_vars => WaitsForOne'
    BY WaitsAuth, WaitsMain, WaitsWorker, WaitsStream DEF Next, Answer, Main, Worker
  <1> QED BY <1>1, WaitsAtStart, CredentialInvariance, PTL DEF Spec

\* However often users change and streams break while tokens are under way, a
\* stream that is starting waits for exactly one token, wherever that is by
\* now, and nobody waits for a token on behalf of a stream that is not.
THEOREM StreamWaitsForOneToken == Spec => []OneTokenAtATime
  <1>1. WaitsForOne => OneTokenAtATime
    <2> SUFFICES ASSUME WaitsForOne PROVE OneTokenAtATime
      OBVIOUS
    <2>1. /\ {c \in calls : c.close = closes} = Asked(closes)
          /\ Fresh(main) = TokensOf(main, closes) /\ Fresh(worker) = TokensOf(worker, closes)
      BY DEF Asked, Fresh, TokensOf
    <2>2. /\ \A S : One(S) => Cardinality(S) = 1
          /\ Cardinality({}) = 0
      BY FS_Singleton, FS_EmptySet DEF One
    <2>3. CASE stream = "Starting"
      <3> DEFINE a == Cardinality(Asked(closes))
                 m == Cardinality(TokensOf(main, closes))
                 w == Cardinality(TokensOf(worker, closes))
      <3>1. \/ a = 1 /\ m = 0 /\ w = 0
            \/ a = 0 /\ m = 1 /\ w = 0
            \/ a = 0 /\ m = 0 /\ w = 1
        BY <2>2, <2>3 DEF WaitsForOne, OneAsked, OnlyOne
      <3>2. OneTokenAtATime <=> a + m + w = 1
        BY <2>1, <2>3 DEF OneTokenAtATime
      <3> HIDE DEF a, m, w
      <3> QED BY <3>1, <3>2
    <2>4. CASE stream # "Starting"
      BY <2>1, <2>2, <2>4 DEF WaitsForOne, NoneAsked, OneTokenAtATime
    <2> QED BY <2>3, <2>4
  <1> QED BY <1>1, WaitsInvariance, PTL

-----------------------------------------------------------------------------
(* What CatchesUp rests on.                                                *)

\* When no queue holds a message, no token is asked for and no backoff runs,
\* that is when nothing but another change or another error can happen, the
\* stream is open and carries the token of the user who is signed in, whose
\* writes it sends.  No order of announcements, aborted and dropped tokens
\* leaves the client at rest with the stream down or open for somebody else.
RestsCaughtUp ==
    main = <<>> /\ worker = <<>> /\ calls = {} /\ stream # "Backoff" =>
        stream = "Open" /\ syncUser = current /\ carried = current

\* RequestCredentials, ResumeStartWithCredentials and HandleCredentialChange:
\* whatever was counted, aborted and dropped on the way, the last word is the
\* current user's.
THEOREM AtRestCaughtUp == Spec => []RestsCaughtUp
  <1>1. CredentialInv /\ WaitsForOne => RestsCaughtUp
    <2> SUFFICES ASSUME CredentialInv, WaitsForOne,
                        main = <<>>, worker = <<>>, calls = {}, stream # "Backoff"
                 PROVE  stream = "Open" /\ syncUser = current /\ carried = current
      BY DEF RestsCaughtUp
    <2>1. TokensOf(main, closes) = {} /\ TokensOf(worker, closes) = {} /\ Asked(closes) = {}
      BY DEF TokensOf, Asked
    <2>2. stream # "Starting"
      BY <2>1 DEF WaitsForOne, OneAsked, OnlyOne, One
    <2>3. stream = "Open"
      BY <2>2 DEF CredentialInv, TypeOK
    <2>4. Quiet(main, Len(main) + 1) /\ Quiet(worker, Len(worker) + 1)
      BY DEF Quiet
    <2>5. current = known /\ known = syncUser
      BY <2>4 DEF CredentialInv, QueuesTell, Told
    <2> QED BY <2>3, <2>5 DEF CredentialInv, SentByTheirUser
  <1> QED BY <1>1, CredentialInvariance, WaitsInvariance, PTL
=============================================================================
