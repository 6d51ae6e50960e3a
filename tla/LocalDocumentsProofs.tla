------------------------ MODULE LocalDocumentsProofs ------------------------
(***************************************************************************)
(* The documents on a device are the backend's, and an acknowledged write  *)
(* is not undone by an update that comes late: proved for any number of    *)
(* documents, accounts and writes.                                         *)
(***************************************************************************)
EXTENDS LocalDocuments, SequenceTheorems, Induction, TLAPS

\* A document keeps what it was made of; all that is ever written to it is the
\* requests array.
Base(made)      == Document(made.form, made.account, made.path)
Marked(made, k) == With(Base(made), "requests", Array(k))
DocsOf(made)    == {Base(made)} \cup {Marked(made, k) : k \in 0 .. MaxWrites}
Docs            == UNION {DocsOf(made) : made \in Origins}

Versions == [doc : Docs, number : Nat]
Entries  == [kind : {"none", "unknown", "document"}, version : Nat, doc : Docs \cup {Nil},
             synced : BOOLEAN]
Writes   == [kind : {"set", "patch"}, book : Ids, number : Nat, doc : Docs \cup {Nil}]

Typed ==
    /\ stored \in [Ids -> Seq(Versions)]
    /\ cache \in [Ids -> Entries]
    /\ queue \in Seq(Writes)
    /\ results \in Seq(Nat) /\ Len(results) <= Len(queue)
    /\ \A book \in books : book.id \in Ids
    /\ origin \in [Ids -> Origins \cup {Nil}]
    /\ acked \in [Ids -> Nat]
    /\ writes \in 0 .. MaxWrites

\* An id that nobody has uploaded to has no version and no upload waiting.
Untouched ==
    \A b \in Ids : origin[b] = Nil =>
        /\ stored[b] = <<>>
        /\ \A n \in DOMAIN queue : queue[n].book = b => queue[n].kind = "patch"

\* The versions at the backend, and the uploads that wait, are of the one
\* origin of their document.
VersionsFine ==
    \A b \in Ids : \A v \in DOMAIN stored[b] :
        stored[b][v].doc \in DocsOf(origin[b]) /\ stored[b][v].number <= writes
SetsFine ==
    \A n \in DOMAIN queue : queue[n].kind = "set" => queue[n].doc = Base(origin[queue[n].book])

\* Writes are told apart by their numbers.
NumbersApart ==
    /\ \A n \in DOMAIN queue : queue[n].number <= writes
    /\ \A m, n \in DOMAIN queue : queue[m].number = queue[n].number => m = n

\* The version that a queued write made is what that write makes of any.
Made(write) == IF write.kind = "set" THEN write.doc ELSE Marked(origin[write.book], write.number)
WritesMade ==
    \A n \in DOMAIN queue : \A v \in DOMAIN stored[queue[n].book] :
        stored[queue[n].book][v].number = queue[n].number
          => stored[queue[n].book][v].doc = Made(queue[n])

\* An answer names a version that its write made.
ResultsFine ==
    \A n \in DOMAIN results :
        /\ results[n] \in DOMAIN stored[queue[n].book]
        /\ stored[queue[n].book][results[n]].number = queue[n].number

CacheFine ==
    \A b \in Ids : cache[b].kind = "document" =>
        /\ cache[b].version \in DOMAIN stored[b]
        /\ cache[b].doc = stored[b][cache[b].version].doc

StoreInv ==
    /\ Typed
    /\ Untouched
    /\ VersionsFine /\ SetsFine
    /\ NumbersApart /\ WritesMade /\ ResultsFine
    /\ CacheFine /\ OwnWritesStay

-----------------------------------------------------------------------------
(* Documents.                                                              *)

LEMMA WithAgain ==
    ASSUME NEW d, NEW f, NEW x, NEW y
    PROVE  With(With(d, f, x), f, y) = With(d, f, y)
  <1> DEFINE e == With(d, f, x)
  <1>1. DOMAIN e = DOMAIN d \cup {f} /\ \A g \in DOMAIN d \ {f} : e[g] = d[g]
    BY DEF With
  <1> HIDE DEF e
  <1>2. DOMAIN e \cup {f} = DOMAIN d \cup {f}
    BY <1>1
  <1>3. \A g \in DOMAIN e \cup {f} : (IF g = f THEN y ELSE e[g]) = (IF g = f THEN y ELSE d[g])
    BY <1>1
  <1>4. With(e, f, y) = With(d, f, y)
    BY <1>2, <1>3 DEF With
  <1> QED BY <1>4 DEF e

\* Whatever version a request is written to, the outcome is the same.
LEMMA PatchMarks ==
    ASSUME NEW made, NEW doc \in DocsOf(made), NEW write
    PROVE  Patched(doc, write) = Marked(made, write.number)
  BY WithAgain DEF DocsOf, Patched, Marked

LEMMA Bounds == MaxWrites \in Nat /\ MaxFaults \in Nat /\ Nil \notin Origins /\ Here \in Accounts
  BY DocumentConstants

LEMMA DocsTyped ==
    ASSUME NEW made \in Origins, NEW k \in 0 .. MaxWrites
    PROVE  /\ Base(made) \in DocsOf(made) /\ Base(made) \in Docs
           /\ Marked(made, k) \in DocsOf(made) /\ Marked(made, k) \in Docs
  BY DEF DocsOf, Docs

-----------------------------------------------------------------------------
(* Queues and versions that grow.                                          *)

LEMMA QueueGrows ==
    ASSUME Typed, NEW write \in Writes, queue' = Append(queue, write)
    PROVE  /\ queue' \in Seq(Writes) /\ Len(queue') = Len(queue) + 1 /\ Len(queue) \in Nat
           /\ DOMAIN queue = 1 .. Len(queue)
           /\ DOMAIN queue' = DOMAIN queue \cup {Len(queue) + 1}
           /\ Len(queue) + 1 \notin DOMAIN queue
           /\ \A n \in DOMAIN queue : queue'[n] = queue[n]
           /\ queue'[Len(queue) + 1] = write
  <1>1. queue \in Seq(Writes) /\ Len(queue) \in Nat /\ DOMAIN queue = 1 .. Len(queue)
    BY DEF Typed
  <1>2. queue' \in Seq(Writes) /\ Len(queue') = Len(queue) + 1
    BY <1>1, AppendProperties
  <1>3. DOMAIN queue' = 1 .. Len(queue) + 1
    BY <1>2
  <1>4. 1 .. Len(queue) + 1 = (1 .. Len(queue)) \cup {Len(queue) + 1}
    BY <1>1
  <1> QED BY <1>1, <1>2, <1>3, <1>4, AppendProperties

LEMMA QueueShrinks ==
    ASSUME Typed, queue # <<>>, queue' = Tail(queue)
    PROVE  /\ queue' \in Seq(Writes) /\ Len(queue') = Len(queue) - 1 /\ Len(queue) \in Nat
           /\ 1 \in DOMAIN queue /\ Head(queue) = queue[1]
           /\ \A n \in DOMAIN queue' : n + 1 \in DOMAIN queue /\ queue'[n] = queue[n + 1] /\ n \in Nat
  <1>1. queue \in Seq(Writes) /\ Len(queue) \in Nat /\ DOMAIN queue = 1 .. Len(queue)
    BY DEF Typed
  <1>2. queue' \in Seq(Writes) /\ Len(queue') = Len(queue) - 1 /\ Len(queue) > 0
    BY <1>1
  <1>3. DOMAIN queue' = 1 .. Len(queue) - 1
    BY <1>2
  <1> QED BY <1>1, <1>2, <1>3

LEMMA StoreGrows ==
    ASSUME Typed, NEW b \in Ids, NEW doc \in Docs, NEW number \in Nat, Store(b, doc, number)
    PROVE  /\ stored' \in [Ids -> Seq(Versions)]
           /\ \A c \in Ids \ {b} : stored'[c] = stored[c]
           /\ Len(stored[b]) + 1 \in Nat
           /\ DOMAIN stored'[b] = DOMAIN stored[b] \cup {Len(stored[b]) + 1}
           /\ Len(stored'[b]) = Len(stored[b]) + 1
           /\ \A v \in DOMAIN stored[b] : stored'[b][v] = stored[b][v]
           /\ stored'[b][Len(stored[b]) + 1].doc = doc
           /\ stored'[b][Len(stored[b]) + 1].number = number
  <1> DEFINE new == [doc |-> doc, number |-> number]
             seq == stored[b]
  <1>1. new \in Versions /\ new.doc = doc /\ new.number = number
    BY DEF Versions
  <1>2. seq \in Seq(Versions) /\ Len(seq) \in Nat /\ DOMAIN seq = 1 .. Len(seq)
    BY DEF Typed
  <1>3. stored' = [stored EXCEPT ![b] = Append(seq, new)]
    BY DEF Store
  <1> HIDE DEF new, seq
  <1>4. /\ Append(seq, new) \in Seq(Versions) /\ Len(Append(seq, new)) = Len(seq) + 1
        /\ \A v \in 1 .. Len(seq) : Append(seq, new)[v] = seq[v]
        /\ Append(seq, new)[Len(seq) + 1] = new
    BY <1>1, <1>2, AppendProperties
  <1>5. DOMAIN Append(seq, new) = (1 .. Len(seq)) \cup {Len(seq) + 1}
    <2>1. DOMAIN Append(seq, new) = 1 .. Len(seq) + 1
      BY <1>4
    <2> QED BY <1>2, <2>1
  <1>6. /\ stored'[b] = Append(seq, new) /\ stored' \in [Ids -> Seq(Versions)]
        /\ \A c \in Ids \ {b} : stored'[c] = stored[c]
    BY <1>3, <1>4 DEF Typed
  <1> QED BY <1>1, <1>2, <1>4, <1>5, <1>6 DEF seq

-----------------------------------------------------------------------------
(* Steps of the device that write nothing.                                 *)

LEMMA QuietStep ==
    ASSUME StoreInv, UNCHANGED <<stored, queue, origin, writes>>,
           results' = results \/ results' = <<>>,
           \A book \in books' : book.id \in Ids,
           cache' \in [Ids -> Entries], acked' \in [Ids -> Nat], CacheFine', OwnWritesStay'
    PROVE  StoreInv'
  <1>1. /\ results' \in Seq(Nat) /\ Len(results') <= Len(queue)
        /\ \A n \in DOMAIN results' : n \in DOMAIN results /\ results'[n] = results[n]
    <2>1. CASE results' = results
      BY <2>1 DEF StoreInv, Typed
    <2>2. CASE results' = <<>>
      BY <2>2 DEF StoreInv, Typed
    <2> QED BY <2>1, <2>2
  <1>2. Typed'
    BY <1>1 DEF StoreInv, Typed
  <1>3. Untouched' /\ VersionsFine' /\ SetsFine' /\ NumbersApart'
    BY DEF StoreInv, Untouched, VersionsFine, SetsFine, NumbersApart
  <1>4. WritesMade'
    BY DEF StoreInv, WritesMade, Made
  <1>5. ResultsFine'
    BY <1>1 DEF StoreInv, ResultsFine
  <1> QED BY <1>2, <1>3, <1>4, <1>5 DEF StoreInv

LEMMA GetDocumentsStep ==
    ASSUME StoreInv, GetDocuments
    PROVE  StoreInv'
  <1>1. /\ UNCHANGED <<stored, cache, queue, results, origin, acked, writes>>
        /\ \/ books' = books
           \/ books' = {Book(b, View(b)) : b \in {d \in Ids : View(d) # Nil}}
    BY DEF GetDocuments
  <1>2. \A b, dict : Book(b, dict).id = b
    BY DEF Book
  <1>3. \A book \in books' : book.id \in Ids
    <2>1. CASE books' = books
      BY <2>1 DEF StoreInv, Typed
    <2>2. CASE books' = {Book(b, View(b)) : b \in {d \in Ids : View(d) # Nil}}
      <3> SUFFICES ASSUME NEW book \in books' PROVE book.id \in Ids
        OBVIOUS
      <3>1. PICK b \in Ids : book = Book(b, View(b))
        BY <2>2
      <3> QED BY <1>2, <3>1
    <2> QED BY <1>1, <2>1, <2>2
  <1>4. CacheFine' /\ OwnWritesStay' /\ cache' \in [Ids -> Entries] /\ acked' \in [Ids -> Nat]
    BY <1>1 DEF StoreInv, Typed, CacheFine, OwnWritesStay
  <1> QED BY <1>1, <1>3, <1>4, QuietStep

LEMMA ForgetStep ==
    ASSUME StoreInv, Relaunch \/ Break
    PROVE  StoreInv'
  <1>1. /\ UNCHANGED <<stored, cache, queue, origin, acked, writes>> /\ results' = <<>>
        /\ books' = books \/ books' = {}
    BY DEF Relaunch, Break
  <1>2. CacheFine' /\ OwnWritesStay' /\ cache' \in [Ids -> Entries] /\ acked' \in [Ids -> Nat]
    BY <1>1 DEF StoreInv, Typed, CacheFine, OwnWritesStay
  <1>3. \A book \in books' : book.id \in Ids
    BY <1>1 DEF StoreInv, Typed
  <1> QED BY <1>1, <1>2, <1>3, QuietStep

LEMMA VersionFacts ==
    ASSUME Typed, NEW b \in Ids, NEW v \in DOMAIN stored[b]
    PROVE  /\ v \in Nat /\ v \in 1 .. Len(stored[b])
           /\ stored[b][v].doc \in Docs /\ stored[b][v].number \in Nat
  <1>1. stored[b] \in Seq(Versions)
    BY DEF Typed
  <1>2. v \in 1 .. Len(stored[b])
    BY <1>1
  <1>3. stored[b][v] \in Versions
    BY <1>1, <1>2, ElementOfSeq
  <1> QED BY <1>2, <1>3 DEF Versions

LEMMA WatchUpdateStep ==
    ASSUME StoreInv, NEW b \in Ids, NEW v \in DOMAIN stored[b], WatchUpdate(b, v)
    PROVE  StoreInv'
  <1> DEFINE entry == Cached(stored[b][v].doc, v, TRUE)
  <1>1. /\ UNCHANGED <<stored, queue, results, books, origin, acked, writes>>
        /\ \/ cache' = cache
           \/ cache' = [cache EXCEPT ![b] = entry] /\ cache[b].version <= v
    <2>1. v \in Nat /\ cache[b].version \in Nat
      <3>1. cache[b] \in Entries
        BY DEF StoreInv, Typed
      <3>2. cache[b].version \in Nat
        BY <3>1 DEF Entries
      <3> QED BY <3>2, VersionFacts DEF StoreInv
    <2>2. CASE cache[b].version < v \/ (cache[b].version = v /\ ~ cache[b].synced)
      <3>1. cache[b].version <= v
        BY <2>1, <2>2
      <3> QED BY <2>2, <3>1 DEF WatchUpdate
    <2>3. CASE ~ (cache[b].version < v \/ (cache[b].version = v /\ ~ cache[b].synced))
      BY <2>3 DEF WatchUpdate
    <2> QED BY <2>2, <2>3
  <1>2. /\ entry \in Entries /\ entry.version = v /\ entry.doc = stored[b][v].doc
    BY VersionFacts DEF StoreInv, Cached, Entries
  <1> HIDE DEF entry
  <1>3. CASE cache' = cache
    <2>1. CacheFine' /\ OwnWritesStay' /\ cache' \in [Ids -> Entries] /\ acked' \in [Ids -> Nat]
      BY <1>1, <1>3 DEF StoreInv, Typed, CacheFine, OwnWritesStay
    <2> QED BY <1>1, <2>1, QuietStep DEF StoreInv, Typed
  <1>4. CASE cache' = [cache EXCEPT ![b] = entry] /\ cache[b].version <= v
    <2>1. /\ cache' \in [Ids -> Entries] /\ cache'[b] = entry
          /\ \A c \in Ids \ {b} : cache'[c] = cache[c]
      BY <1>2, <1>4 DEF StoreInv, Typed
    <2>2. CacheFine'
      BY <1>1, <1>2, <2>1 DEF StoreInv, CacheFine
    <2>3. acked[b] <= v
      BY <1>4, VersionFacts DEF StoreInv, Typed, OwnWritesStay, Entries
    <2>4. OwnWritesStay'
      BY <1>1, <1>2, <2>1, <2>3 DEF StoreInv, OwnWritesStay
    <2>5. acked' \in [Ids -> Nat]
      BY <1>1 DEF StoreInv, Typed
    <2> QED BY <1>1, <2>1, <2>2, <2>4, <2>5, QuietStep DEF StoreInv, Typed
  <1> QED BY <1>1, <1>3, <1>4

LEMMA RemoveStep ==
    ASSUME StoreInv, NEW b \in Ids, RemoveOrphanedDocument(b)
    PROVE  StoreInv'
  <1>1. /\ UNCHANGED <<stored, queue, results, books, origin, writes>>
        /\ cache' = [cache EXCEPT ![b] = NotCached] /\ acked' = [acked EXCEPT ![b] = 0]
    BY DEF RemoveOrphanedDocument
  <1>2. NotCached \in Entries /\ NotCached.kind = "none" /\ NotCached.version = 0
    BY DEF NotCached, Entries
  <1>3. /\ cache' \in [Ids -> Entries] /\ acked' \in [Ids -> Nat]
        /\ cache'[b] = NotCached /\ acked'[b] = 0
        /\ \A c \in Ids \ {b} : cache'[c] = cache[c] /\ acked'[c] = acked[c]
    BY <1>1, <1>2 DEF StoreInv, Typed
  <1>4. CacheFine'
    BY <1>1, <1>2, <1>3 DEF StoreInv, CacheFine
  <1>5. OwnWritesStay'
    BY <1>2, <1>3 DEF StoreInv, OwnWritesStay
  <1> QED BY <1>1, <1>3, <1>4, <1>5, QuietStep DEF StoreInv, Typed

-----------------------------------------------------------------------------
(* Writes leave the queue.                                                 *)

\* The first write leaves, with its answer if it has one.
LEMMA LeaveStep ==
    ASSUME StoreInv, queue # <<>>, queue' = Tail(queue), UNCHANGED <<stored, books, origin, writes>>,
           (results = <<>> /\ results' = <<>>) \/ (results # <<>> /\ results' = Tail(results)),
           cache' \in [Ids -> Entries], acked' \in [Ids -> Nat], CacheFine', OwnWritesStay'
    PROVE  StoreInv'
  <1>1. /\ queue' \in Seq(Writes) /\ Len(queue') = Len(queue) - 1 /\ Len(queue) \in Nat
        /\ 1 \in DOMAIN queue /\ Head(queue) = queue[1]
        /\ \A n \in DOMAIN queue' : n + 1 \in DOMAIN queue /\ queue'[n] = queue[n + 1] /\ n \in Nat
    BY QueueShrinks DEF StoreInv
  <1>2. /\ results' \in Seq(Nat) /\ Len(results') <= Len(queue')
        /\ \A n \in DOMAIN results' : /\ n + 1 \in DOMAIN results /\ results'[n] = results[n + 1]
                                      /\ n \in DOMAIN queue'
    <2>1. /\ results \in Seq(Nat) /\ Len(results) <= Len(queue) /\ Len(results) \in Nat
          /\ Len(queue) >= 1 /\ DOMAIN queue' = 1 .. Len(queue) - 1
      BY <1>1 DEF StoreInv, Typed
    <2>2. CASE results = <<>> /\ results' = <<>>
      BY <1>1, <2>1, <2>2
    <2>3. CASE results # <<>> /\ results' = Tail(results)
      <3>1. results' \in Seq(Nat) /\ Len(results') = Len(results) - 1
        BY <2>1, <2>3
      <3>2. \A n \in 1 .. Len(results) - 1 : n + 1 \in 1 .. Len(results) /\ results'[n] = results[n + 1]
        BY <2>1, <2>3
      <3>3. DOMAIN results = 1 .. Len(results) /\ DOMAIN results' = 1 .. Len(results) - 1
        BY <2>1, <3>1
      <3>4. \A n \in 1 .. Len(results) - 1 : n \in 1 .. Len(queue) - 1
        BY <2>1
      <3>5. Len(results') <= Len(queue')
        BY <1>1, <2>1, <3>1
      <3> QED BY <2>1, <3>1, <3>2, <3>3, <3>4, <3>5
    <2> QED BY <2>2, <2>3
  <1>3. Typed'
    BY <1>1, <1>2 DEF StoreInv, Typed
  <1>4. Untouched'
    BY <1>1 DEF StoreInv, Untouched
  <1>5. VersionsFine' /\ SetsFine'
    BY <1>1 DEF StoreInv, VersionsFine, SetsFine
  <1>6. NumbersApart'
    <2>1. \A n \in DOMAIN queue' : queue'[n].number <= writes'
      BY <1>1 DEF StoreInv, NumbersApart
    <2>2. ASSUME NEW m \in DOMAIN queue', NEW n \in DOMAIN queue', queue'[m].number = queue'[n].number
          PROVE  m = n
      <3>1. m + 1 = n + 1
        BY <1>1, <2>2 DEF StoreInv, NumbersApart
      <3> QED BY <1>1, <3>1
    <2> QED BY <2>1, <2>2 DEF NumbersApart
  <1>7. WritesMade'
    <2> SUFFICES ASSUME NEW n \in DOMAIN queue', NEW v \in DOMAIN stored[queue'[n].book],
                        stored[queue'[n].book][v].number = queue'[n].number
                 PROVE  stored[queue'[n].book][v].doc
                          = IF queue'[n].kind = "set" THEN queue'[n].doc
                            ELSE Marked(origin[queue'[n].book], queue'[n].number)
      BY DEF WritesMade, Made
    <2>1. n + 1 \in DOMAIN queue /\ queue'[n] = queue[n + 1]
      BY <1>1
    <2>2. stored[queue[n + 1].book][v].doc = Made(queue[n + 1])
      BY <2>1 DEF StoreInv, WritesMade
    <2> QED BY <2>1, <2>2 DEF Made
  <1>8. ResultsFine'
    BY <1>1, <1>2 DEF StoreInv, ResultsFine
  <1> QED BY <1>3, <1>4, <1>5, <1>6, <1>7, <1>8 DEF StoreInv

LEMMA RejectStep ==
    ASSUME StoreInv, RejectBatch
    PROVE  StoreInv'
  <1>1. /\ queue # <<>> /\ results = <<>> /\ queue' = Tail(queue)
        /\ UNCHANGED <<stored, cache, results, books, origin, acked, writes>>
    BY DEF RejectBatch
  <1>2. CacheFine' /\ OwnWritesStay' /\ cache' \in [Ids -> Entries] /\ acked' \in [Ids -> Nat]
    BY <1>1 DEF StoreInv, Typed, CacheFine, OwnWritesStay
  <1> QED BY <1>1, <1>2, LeaveStep

LEMMA EntryFacts ==
    ASSUME Typed, NEW b \in Ids
    PROVE  /\ cache[b] \in Entries /\ cache[b].version \in Nat /\ acked[b] \in Nat
           /\ cache[b].doc \in Docs \cup {Nil}
  <1>1. cache[b] \in Entries /\ acked[b] \in Nat
    BY DEF Typed
  <1> QED BY <1>1 DEF Entries

LEMMA WriteFacts ==
    ASSUME Typed, NEW n \in DOMAIN queue
    PROVE  /\ queue[n] \in Writes /\ queue[n].kind \in {"set", "patch"} /\ queue[n].book \in Ids
           /\ queue[n].number \in Nat /\ queue[n].doc \in Docs \cup {Nil}
  <1>1. queue \in Seq(Writes) /\ n \in 1 .. Len(queue)
    BY DEF Typed
  <1>2. queue[n] \in Writes
    BY <1>1, ElementOfSeq
  <1> QED BY <1>2 DEF Writes

\* A document that exists was made of something.
LEMMA OriginKnown ==
    ASSUME StoreInv, NEW b \in Ids, stored[b] # <<>>
    PROVE  origin[b] \in Origins
  BY DEF StoreInv, Typed, Untouched

\* What a write does to the cached document is what it did at the backend.
LEMMA AnswerCaches ==
    ASSUME StoreInv, results # <<>>
    PROVE  LET write == queue[1]
               b     == write.book
               v     == results[1]
               entry == ApplyToRemoteDocument(write, cache[b], v)
           IN  /\ b \in Ids /\ v \in DOMAIN stored[b] /\ v \in Nat
               /\ entry \in Entries /\ entry.version = v
               /\ entry.kind = "document" => entry.doc = stored[b][v].doc
  <1> DEFINE write == queue[1]
             b     == write.book
             v     == results[1]
             entry == ApplyToRemoteDocument(write, cache[b], v)
  <1>1. 1 \in DOMAIN results /\ 1 \in DOMAIN queue
    <2>1. results \in Seq(Nat) /\ queue \in Seq(Writes) /\ Len(results) <= Len(queue)
      BY DEF StoreInv, Typed
    <2> QED BY <2>1
  <1>2. /\ write.kind \in {"set", "patch"} /\ b \in Ids /\ write.number \in Nat
    BY <1>1, WriteFacts DEF StoreInv
  <1>3. v \in DOMAIN stored[b] /\ stored[b][v].number = write.number
    BY <1>1 DEF StoreInv, ResultsFine
  <1>4. stored[b][v].doc = Made(write)
    BY <1>1, <1>3 DEF StoreInv, WritesMade
  <1>5. v \in Nat /\ stored[b][v].doc \in Docs
    BY <1>2, <1>3, VersionFacts DEF StoreInv
  <1>6. origin[b] \in Origins
    <2>1. stored[b] # <<>>
      BY <1>3
    <2> QED BY <1>2, <2>1, OriginKnown
  <1> HIDE DEF write, b, v
  <1>7. CASE write.kind = "set"
    <2>1. entry = Cached(write.doc, v, FALSE)
      BY <1>7 DEF ApplyToRemoteDocument
    <2>3. stored[b][v].doc = write.doc
      BY <1>4, <1>7 DEF Made
    <2>2. entry \in Entries /\ entry.version = v /\ entry.doc = stored[b][v].doc
      BY <1>5, <2>1, <2>3 DEF Cached, Entries
    <2> QED BY <1>2, <1>3, <1>5, <2>2 DEF write, b, v
  <1>8. CASE write.kind = "patch" /\ cache[b].kind # "document"
    <2>1. entry = Unknown(v)
      BY <1>8 DEF ApplyToRemoteDocument
    <2>2. entry \in Entries /\ entry.version = v /\ entry.kind = "unknown"
      BY <1>5, <2>1 DEF Unknown, Entries
    <2> QED BY <1>2, <1>3, <1>5, <2>2 DEF write, b, v
  <1>9. CASE write.kind = "patch" /\ cache[b].kind = "document"
    <2>1. entry = Cached(Patched(cache[b].doc, write), v, FALSE)
      BY <1>9 DEF ApplyToRemoteDocument
    <2>2. cache[b].doc \in DocsOf(origin[b])
      BY <1>2, <1>9 DEF StoreInv, CacheFine, VersionsFine
    <2>3. Patched(cache[b].doc, write) = stored[b][v].doc
      BY <1>4, <1>9, <2>2, PatchMarks DEF Made, b
    <2>4. entry \in Entries /\ entry.version = v /\ entry.doc = stored[b][v].doc
      BY <1>5, <2>1, <2>3 DEF Cached, Entries
    <2> QED BY <1>2, <1>3, <1>5, <2>4 DEF write, b, v
  <1> QED BY <1>2, <1>7, <1>8, <1>9

LEMMA AcknowledgeStep ==
    ASSUME StoreInv, Acknowledge
    PROVE  StoreInv'
  <1> DEFINE write == queue[1]
             b     == write.book
             v     == results[1]
             entry == ApplyToRemoteDocument(write, cache[b], v)
  <1>1. /\ results # <<>> /\ queue # <<>> /\ queue' = Tail(queue) /\ results' = Tail(results)
        /\ UNCHANGED <<stored, books, origin, writes>>
    <2>1. results \in Seq(Nat) /\ queue \in Seq(Writes) /\ Len(results) <= Len(queue)
      BY DEF StoreInv, Typed
    <2>2. results # <<>>
      BY DEF Acknowledge
    <2>3. queue # <<>>
      BY <2>1, <2>2
    <2> QED BY <2>2, <2>3 DEF Acknowledge
  <1>2. /\ cache' = IF cache[b].version < v THEN [cache EXCEPT ![b] = entry] ELSE cache
        /\ acked' = [acked EXCEPT ![b] = IF acked[b] < v THEN v ELSE acked[b]]
    <2>1. Head(queue) = queue[1] /\ Head(results) = results[1]
      BY <1>1 DEF StoreInv, Typed
    <2>2. /\ cache' = IF cache[Head(queue).book].version < Head(results)
                      THEN [cache EXCEPT ![Head(queue).book] =
                              ApplyToRemoteDocument(Head(queue), cache[Head(queue).book], Head(results))]
                      ELSE cache
          /\ acked' = [acked EXCEPT ![Head(queue).book] =
                         IF acked[Head(queue).book] < Head(results) THEN Head(results)
                         ELSE acked[Head(queue).book]]
      BY DEF Acknowledge
    <2> QED BY <2>1, <2>2
  <1>3. /\ b \in Ids /\ v \in DOMAIN stored[b] /\ v \in Nat
        /\ entry \in Entries /\ entry.version = v
        /\ entry.kind = "document" => entry.doc = stored[b][v].doc
    BY <1>1, AnswerCaches
  <1> HIDE DEF b, v, entry
  <1>4. cache[b].version \in Nat /\ acked[b] \in Nat /\ acked[b] <= cache[b].version
    BY <1>3, EntryFacts DEF StoreInv, OwnWritesStay
  <1>5. /\ acked' \in [Ids -> Nat] /\ \A c \in Ids \ {b} : acked'[c] = acked[c]
        /\ acked'[b] = IF acked[b] < v THEN v ELSE acked[b]
    BY <1>2, <1>3, <1>4 DEF StoreInv, Typed
  <1>6. CASE cache[b].version < v
    <2>1. /\ cache' \in [Ids -> Entries] /\ cache'[b] = entry
          /\ \A c \in Ids \ {b} : cache'[c] = cache[c]
      BY <1>2, <1>3, <1>6 DEF StoreInv, Typed
    <2>2. CacheFine'
      BY <1>1, <1>3, <2>1 DEF StoreInv, CacheFine
    <2>3. acked'[b] <= v
      BY <1>3, <1>4, <1>5, <1>6
    <2>4. OwnWritesStay'
      BY <1>3, <1>5, <2>1, <2>3 DEF StoreInv, OwnWritesStay
    <2> QED BY <1>1, <1>5, <2>1, <2>2, <2>4, LeaveStep
  <1>7. CASE ~ (cache[b].version < v)
    <2>1. cache' = cache
      BY <1>2, <1>7
    <2>2. CacheFine' /\ cache' \in [Ids -> Entries]
      BY <1>1, <2>1 DEF StoreInv, Typed, CacheFine
    <2>3. acked'[b] <= cache[b].version
      BY <1>3, <1>4, <1>5, <1>7
    <2>4. OwnWritesStay'
      BY <1>5, <2>1, <2>3 DEF StoreInv, OwnWritesStay
    <2> QED BY <1>1, <1>5, <2>2, <2>4, LeaveStep
  <1> QED BY <1>6, <1>7

-----------------------------------------------------------------------------
(* Writes join the queue.                                                  *)

\* An origin, once there, stays.
OriginsStay == \A b \in Ids : origin[b] # Nil => origin'[b] = origin[b]

LEMMA EnqueueStep ==
    ASSUME StoreInv, NEW write \in Writes, queue' = Append(queue, write),
           write.number = writes + 1, writes' = writes + 1, writes' \in 0 .. MaxWrites,
           UNCHANGED <<stored, cache, results, books, acked>>,
           origin' \in [Ids -> Origins \cup {Nil}], OriginsStay,
           write.kind = "set" => /\ origin'[write.book] \in Origins
                                 /\ write.doc = Base(origin'[write.book])
    PROVE  StoreInv'
  <1> DEFINE new == Len(queue) + 1
  <1>1. /\ queue' \in Seq(Writes) /\ Len(queue') = Len(queue) + 1 /\ Len(queue) \in Nat
        /\ DOMAIN queue = 1 .. Len(queue)
        /\ DOMAIN queue' = DOMAIN queue \cup {new} /\ new \notin DOMAIN queue
        /\ \A n \in DOMAIN queue : queue'[n] = queue[n]
        /\ queue'[new] = write
    BY QueueGrows DEF StoreInv
  <1>2. writes \in Nat /\ write.book \in Ids /\ Len(results) \in Nat /\ Len(results) <= Len(queue)
    BY DEF StoreInv, Typed, Writes
  <1>3. \A n \in DOMAIN queue : /\ queue[n].book \in Ids /\ queue[n].number \in Nat
                                /\ queue[n].number <= writes
    BY WriteFacts DEF StoreInv, NumbersApart
  <1>4. Nil \notin Origins
    BY Bounds
  <1> HIDE DEF new
  <1>5. Typed'
    <2>1. Len(results') <= Len(queue')
      BY <1>1, <1>2
    <2> QED BY <1>1, <1>2, <2>1 DEF StoreInv, Typed
  <1>6. \A b \in Ids : stored[b] # <<>> => origin'[b] = origin[b]
    BY <1>4, OriginKnown DEF OriginsStay
  <1>7. Untouched'
    <2> SUFFICES ASSUME NEW b \in Ids, origin'[b] = Nil
                 PROVE  /\ stored[b] = <<>>
                        /\ \A n \in DOMAIN queue' : queue'[n].book = b => queue'[n].kind = "patch"
      BY DEF Untouched
    <2>1. origin[b] = Nil
      BY DEF OriginsStay
    <2>2. write.kind \in {"set", "patch"}
      BY DEF Writes
    <2>3. write.book = b => write.kind = "patch"
      BY <1>4, <2>2
    <2> QED BY <1>1, <2>1, <2>3 DEF StoreInv, Untouched
  <1>8. VersionsFine'
    <2> SUFFICES ASSUME NEW b \in Ids, NEW v \in DOMAIN stored[b]
                 PROVE  stored[b][v].doc \in DocsOf(origin'[b]) /\ stored[b][v].number <= writes'
      BY DEF VersionsFine, DocsOf, Base, Marked
    <2>1. stored[b] # <<>>
      OBVIOUS
    <2>2. stored[b][v].doc \in DocsOf(origin[b]) /\ stored[b][v].number <= writes
      BY DEF StoreInv, VersionsFine
    <2>3. stored[b][v].number \in Nat
      BY VersionFacts DEF StoreInv
    <2> QED BY <1>2, <1>6, <2>1, <2>2, <2>3
  <1>9. SetsFine'
    <2> SUFFICES ASSUME NEW n \in DOMAIN queue', queue'[n].kind = "set"
                 PROVE  queue'[n].doc = Base(origin'[queue'[n].book])
      BY DEF SetsFine, Base
    <2>1. CASE n = new
      BY <1>1, <2>1
    <2>2. CASE n \in DOMAIN queue
      <3>1. queue'[n] = queue[n] /\ queue[n].book \in Ids
        BY <1>1, <1>3, <2>2
      <3>2. origin[queue[n].book] # Nil
        BY <2>2, <3>1 DEF StoreInv, Untouched
      <3> QED BY <2>2, <3>1, <3>2 DEF StoreInv, SetsFine, OriginsStay
    <2> QED BY <1>1, <2>1, <2>2
  <1>10. NumbersApart'
    <2>1. \A n \in DOMAIN queue' : queue'[n].number <= writes'
      BY <1>1, <1>2, <1>3
    <2>2. ASSUME NEW m \in DOMAIN queue', NEW n \in DOMAIN queue', queue'[m].number = queue'[n].number
          PROVE  m = n
      <3>1. \A k \in DOMAIN queue : queue'[k].number # queue'[new].number
        BY <1>1, <1>2, <1>3
      <3>2. CASE m \in DOMAIN queue /\ n \in DOMAIN queue
        BY <1>1, <2>2, <3>2 DEF StoreInv, NumbersApart
      <3> QED BY <1>1, <2>2, <3>1, <3>2
    <2> QED BY <2>1, <2>2 DEF NumbersApart
  <1>11. WritesMade'
    <2> SUFFICES ASSUME NEW n \in DOMAIN queue', NEW v \in DOMAIN stored[queue'[n].book],
                        stored[queue'[n].book][v].number = queue'[n].number
                 PROVE  stored[queue'[n].book][v].doc
                          = IF queue'[n].kind = "set" THEN queue'[n].doc
                            ELSE Marked(origin'[queue'[n].book], queue'[n].number)
      BY DEF WritesMade, Made, Marked, Base
    <2>1. n # new
      <3> SUFFICES ASSUME n = new PROVE FALSE
        OBVIOUS
      <3>1. v \in DOMAIN stored[write.book] /\ stored[write.book][v].number = writes + 1
        BY <1>1
      <3>2. stored[write.book][v].number <= writes
        BY <1>2, <3>1 DEF StoreInv, VersionsFine
      <3> QED BY <1>2, <3>1, <3>2
    <2>2. n \in DOMAIN queue /\ queue'[n] = queue[n] /\ queue[n].book \in Ids
      BY <1>1, <1>3, <2>1
    <2>3. stored[queue[n].book][v].doc = Made(queue[n])
      BY <2>2 DEF StoreInv, WritesMade
    <2>4. origin'[queue[n].book] = origin[queue[n].book]
      <3>1. stored[queue[n].book] # <<>>
        BY <2>2
      <3> QED BY <1>6, <2>2, <3>1
    <2> QED BY <2>2, <2>3, <2>4 DEF Made
  <1>12. ResultsFine'
    <2>1. \A n \in DOMAIN results : n \in DOMAIN queue
      <3>1. results \in Seq(Nat)
        BY DEF StoreInv, Typed
      <3> QED BY <1>1, <1>2, <3>1
    <2> QED BY <1>1, <2>1 DEF StoreInv, ResultsFine
  <1>13. CacheFine' /\ OwnWritesStay'
    BY DEF StoreInv, CacheFine, OwnWritesStay
  <1> QED BY <1>5, <1>7, <1>8, <1>9, <1>10, <1>11, <1>12, <1>13 DEF StoreInv

\* What a document of an upload is made of.
LEMMA UploadMade ==
    ASSUME Typed, NEW b \in Ids, NEW form \in Forms, NEW account \in Accounts,
           origin[b] = Nil,
           origin' = [origin EXCEPT ![b] = [form |-> form, account |-> account, path |-> b]]
    PROVE  /\ origin' \in [Ids -> Origins \cup {Nil}] /\ OriginsStay
           /\ origin'[b] \in Origins
           /\ Document(form, account, b) = Base(origin'[b])
           /\ Document(form, account, b) \in Docs
           /\ Document(form, account, b) \in DocsOf(origin'[b])
  <1> DEFINE made == [form |-> form, account |-> account, path |-> b]
  <1>1. made \in Origins /\ Document(form, account, b) = Base(made)
    BY DEF Origins, Base
  <1> HIDE DEF made
  <1>2. /\ origin' \in [Ids -> Origins \cup {Nil}] /\ origin'[b] = made
        /\ \A c \in Ids \ {b} : origin'[c] = origin[c]
    BY <1>1 DEF Typed, made
  <1>3. OriginsStay
    BY <1>2 DEF OriginsStay
  <1>4. 0 \in 0 .. MaxWrites
    BY Bounds
  <1> QED BY <1>1, <1>2, <1>3, <1>4, DocsTyped

LEMMA UploadStep ==
    ASSUME StoreInv, NEW b \in Ids, NEW form \in Forms, Upload(b, form)
    PROVE  StoreInv'
  <1> DEFINE write == [kind |-> "set", book |-> b, number |-> writes', doc |-> Document(form, Here, b)]
  <1>1. /\ writes' = writes + 1 /\ writes < MaxWrites /\ origin[b] = Nil
        /\ origin' = [origin EXCEPT ![b] = [form |-> form, account |-> Here, path |-> b]]
        /\ queue' = Append(queue, write)
        /\ UNCHANGED <<stored, cache, results, books, acked>>
    BY DEF Upload, NextWrite
  <1>2. /\ origin' \in [Ids -> Origins \cup {Nil}] /\ OriginsStay
        /\ origin'[b] \in Origins
        /\ Document(form, Here, b) = Base(origin'[b])
        /\ Document(form, Here, b) \in Docs
    BY <1>1, UploadMade, Bounds DEF StoreInv
  <1>3. writes' \in Nat /\ writes' \in 0 .. MaxWrites
    BY <1>1, Bounds DEF StoreInv, Typed
  <1>4. write \in Writes /\ write.number = writes + 1 /\ write.book = b /\ write.doc = Base(origin'[b])
    BY <1>1, <1>2, <1>3 DEF Writes
  <1> HIDE DEF write
  <1> QED BY <1>1, <1>2, <1>3, <1>4, EnqueueStep

LEMMA RequestStep ==
    ASSUME StoreInv, NEW book \in books, Request(book)
    PROVE  StoreInv'
  <1> DEFINE write == [kind |-> "patch", book |-> book.id, number |-> writes', doc |-> Nil]
  <1>1. /\ writes' = writes + 1 /\ writes < MaxWrites /\ queue' = Append(queue, write)
        /\ UNCHANGED <<stored, cache, results, books, origin, acked>>
    BY DEF Request, NextWrite
  <1>2. writes' \in Nat /\ writes' \in 0 .. MaxWrites /\ book.id \in Ids
    BY <1>1, Bounds DEF StoreInv, Typed
  <1>3. write \in Writes /\ write.number = writes + 1 /\ write.kind # "set"
    BY <1>1, <1>2 DEF Writes
  <1>4. origin' \in [Ids -> Origins \cup {Nil}] /\ OriginsStay
    BY <1>1 DEF StoreInv, Typed, OriginsStay
  <1> HIDE DEF write
  <1> QED BY <1>1, <1>2, <1>3, <1>4, EnqueueStep

-----------------------------------------------------------------------------
(* The backend stores.                                                     *)

\* Versions that are there stay.
VersionsStay ==
    \A b \in Ids : \A v \in DOMAIN stored[b] :
        v \in DOMAIN stored'[b] /\ stored'[b][v] = stored[b][v]

\* The answers under way stay good, and one may be added for the next write.
LEMMA AnswersStep ==
    ASSUME StoreInv, VersionsStay, UNCHANGED queue,
           \/ results' = results
           \/ /\ Len(results) < Len(queue)
              /\ \E v \in Nat :
                    /\ results' = Append(results, v)
                    /\ v \in DOMAIN stored'[queue[Len(results) + 1].book]
                    /\ stored'[queue[Len(results) + 1].book][v].number
                         = queue[Len(results) + 1].number
    PROVE  results' \in Seq(Nat) /\ Len(results') <= Len(queue) /\ ResultsFine'
  <1>1. /\ results \in Seq(Nat) /\ Len(results) <= Len(queue) /\ Len(results) \in Nat
        /\ Len(queue) \in Nat /\ DOMAIN queue = 1 .. Len(queue) /\ DOMAIN results = 1 .. Len(results)
    BY DEF StoreInv, Typed
  <1>2. ASSUME NEW n \in DOMAIN results
        PROVE  /\ results[n] \in DOMAIN stored'[queue[n].book]
               /\ stored'[queue[n].book][results[n]].number = queue[n].number
    <2>1. n \in DOMAIN queue
      BY <1>1
    <2>2. queue[n].book \in Ids
      BY <2>1, WriteFacts DEF StoreInv
    <2> QED BY <2>2 DEF StoreInv, ResultsFine, VersionsStay
  <1>3. CASE results' = results
    BY <1>1, <1>2, <1>3 DEF ResultsFine
  <1>4. ASSUME Len(results) < Len(queue),
               NEW v \in Nat, results' = Append(results, v),
               v \in DOMAIN stored'[queue[Len(results) + 1].book],
               stored'[queue[Len(results) + 1].book][v].number = queue[Len(results) + 1].number
        PROVE  results' \in Seq(Nat) /\ Len(results') <= Len(queue) /\ ResultsFine'
    <2>1. /\ results' \in Seq(Nat) /\ Len(results') = Len(results) + 1
          /\ \A n \in 1 .. Len(results) : results'[n] = results[n]
          /\ results'[Len(results) + 1] = v
      <3>1. results' = Append(results, v) /\ results \in Seq(Nat)
        BY <1>1, <1>4
      <3> QED BY <3>1, AppendProperties
    <2>2. DOMAIN results' = 1 .. Len(results) + 1
      BY <2>1
    <2>3. 1 .. Len(results) + 1 = (1 .. Len(results)) \cup {Len(results) + 1}
      BY <1>1
    <2>4. ResultsFine'
      <3>1. \A n \in DOMAIN results' : n \in DOMAIN results \/ n = Len(results) + 1
        BY <1>1, <2>2, <2>3
      <3>2. \A n \in DOMAIN results : results'[n] = results[n]
        BY <1>1, <2>1
      <3> QED BY <1>2, <1>4, <2>1, <3>1, <3>2 DEF ResultsFine
    <2>5. Len(results') <= Len(queue)
      <3>1. Len(results) < Len(queue)
        BY <1>4
      <3> QED BY <1>1, <2>1, <3>1
    <2> QED BY <2>1, <2>4, <2>5
  <1> QED BY <1>3, <1>4

LEMMA StoredStep ==
    ASSUME StoreInv, NEW b \in Ids, NEW doc \in Docs, NEW number \in Nat, Store(b, doc, number),
           UNCHANGED <<cache, queue, books, acked>>,
           origin' \in [Ids -> Origins \cup {Nil}], OriginsStay,
           origin'[b] \in Origins, doc \in DocsOf(origin'[b]),
           writes' \in 0 .. MaxWrites, writes <= writes', number <= writes',
           \A n \in DOMAIN queue : queue[n].number = number =>
               /\ queue[n].book = b
               /\ doc = IF queue[n].kind = "set" THEN queue[n].doc
                        ELSE Marked(origin'[b], number),
           \/ results' = results
           \/ /\ Len(results) < Len(queue)
              /\ queue[Len(results) + 1].book = b /\ queue[Len(results) + 1].number = number
              /\ results' = Append(results, Len(stored'[b]))
    PROVE  StoreInv'
  <1> DEFINE new == Len(stored[b]) + 1
  <1>1. /\ stored' \in [Ids -> Seq(Versions)]
        /\ \A c \in Ids \ {b} : stored'[c] = stored[c]
        /\ new \in Nat /\ DOMAIN stored'[b] = DOMAIN stored[b] \cup {new}
        /\ Len(stored'[b]) = new
        /\ \A v \in DOMAIN stored[b] : stored'[b][v] = stored[b][v]
        /\ stored'[b][new].doc = doc /\ stored'[b][new].number = number
    BY StoreGrows DEF StoreInv
  <1> HIDE DEF new
  <1>2. VersionsStay
    BY <1>1 DEF VersionsStay
  <1>3. results' \in Seq(Nat) /\ Len(results') <= Len(queue) /\ ResultsFine'
    BY <1>1, <1>2, AnswersStep
  <1>4. Nil \notin Origins /\ writes \in Nat /\ writes' \in Nat
    BY Bounds DEF StoreInv, Typed
  <1>5. Typed'
    BY <1>1, <1>3 DEF StoreInv, Typed
  <1>6. Untouched'
    <2> SUFFICES ASSUME NEW c \in Ids, origin'[c] = Nil
                 PROVE  /\ stored'[c] = <<>>
                        /\ \A n \in DOMAIN queue' : queue'[n].book = c => queue'[n].kind = "patch"
      BY DEF Untouched
    <2>1. c # b /\ origin[c] = Nil
      BY <1>4 DEF OriginsStay
    <2> QED BY <1>1, <2>1 DEF StoreInv, Untouched
  <1>7. ASSUME NEW c \in Ids, NEW v \in DOMAIN stored[c]
        PROVE  /\ origin'[c] = origin[c] /\ origin[c] \in Origins
               /\ stored[c][v].number \in Nat /\ stored[c][v].number <= writes
               /\ stored[c][v].doc \in DocsOf(origin[c])
    <2>1. stored[c] # <<>>
      OBVIOUS
    <2>2. origin[c] \in Origins
      BY <2>1, OriginKnown
    <2> QED BY <1>4, <2>2, VersionFacts DEF StoreInv, OriginsStay, VersionsFine
  <1>8. VersionsFine'
    <2> SUFFICES ASSUME NEW c \in Ids, NEW v \in DOMAIN stored'[c]
                 PROVE  stored'[c][v].doc \in DocsOf(origin'[c]) /\ stored'[c][v].number <= writes'
      BY DEF VersionsFine, DocsOf, Base, Marked
    <2>1. CASE c = b /\ v = new
      BY <1>1, <2>1
    <2>2. CASE v \in DOMAIN stored[c]
      <3>1. stored'[c][v] = stored[c][v]
        BY <1>2, <2>2 DEF VersionsStay
      <3>2. stored[c][v].number <= writes'
        BY <1>4, <1>7, <2>2
      <3> QED BY <1>7, <2>2, <3>1, <3>2
    <2> QED BY <1>1, <2>1, <2>2
  <1>9. SetsFine'
    <2> SUFFICES ASSUME NEW n \in DOMAIN queue, queue[n].kind = "set"
                 PROVE  queue[n].doc = Base(origin'[queue[n].book])
      BY DEF SetsFine, Base
    <2>1. queue[n].book \in Ids
      BY WriteFacts DEF StoreInv
    <2>2. origin[queue[n].book] # Nil
      BY <2>1 DEF StoreInv, Untouched
    <2> QED BY <2>1, <2>2 DEF StoreInv, SetsFine, OriginsStay
  <1>10. NumbersApart'
    <2>1. \A n \in DOMAIN queue : queue[n].number \in Nat /\ queue[n].number <= writes
      BY WriteFacts DEF StoreInv, NumbersApart
    <2>2. \A n \in DOMAIN queue : queue[n].number <= writes'
      BY <1>4, <2>1
    <2> QED BY <2>2 DEF StoreInv, NumbersApart
  <1>11. WritesMade'
    <2> SUFFICES ASSUME NEW n \in DOMAIN queue, NEW v \in DOMAIN stored'[queue[n].book],
                        stored'[queue[n].book][v].number = queue[n].number
                 PROVE  stored'[queue[n].book][v].doc
                          = IF queue[n].kind = "set" THEN queue[n].doc
                            ELSE Marked(origin'[queue[n].book], queue[n].number)
      BY DEF WritesMade, Made, Marked, Base
    <2>1. queue[n].book \in Ids
      BY WriteFacts DEF StoreInv
    <2>2. CASE queue[n].book = b /\ v = new
      BY <1>1, <2>2
    <2>3. CASE v \in DOMAIN stored[queue[n].book]
      <3>1. stored'[queue[n].book][v] = stored[queue[n].book][v]
        BY <1>2, <2>1, <2>3 DEF VersionsStay
      <3>2. stored[queue[n].book][v].doc = Made(queue[n])
        BY <2>3, <3>1 DEF StoreInv, WritesMade
      <3>3. origin'[queue[n].book] = origin[queue[n].book]
        BY <1>7, <2>1, <2>3
      <3> QED BY <3>1, <3>2, <3>3 DEF Made
    <2>4. v \in DOMAIN stored[queue[n].book] \/ (queue[n].book = b /\ v = new)
      BY <1>1, <2>1
    <2> QED BY <2>2, <2>3, <2>4
  <1>12. CacheFine'
    <2> SUFFICES ASSUME NEW c \in Ids, cache[c].kind = "document"
                 PROVE  /\ cache[c].version \in DOMAIN stored'[c]
                        /\ cache[c].doc = stored'[c][cache[c].version].doc
      BY DEF CacheFine
    <2> QED BY <1>2 DEF StoreInv, CacheFine, VersionsStay
  <1>13. OwnWritesStay'
    BY DEF StoreInv, OwnWritesStay
  <1> QED BY <1>3, <1>5, <1>6, <1>8, <1>9, <1>10, <1>11, <1>12, <1>13 DEF StoreInv

\* No queued write has the number of a new one.
LEMMA NumberIsNew ==
    ASSUME StoreInv, NextWrite
    PROVE  /\ writes \in Nat /\ writes' \in Nat /\ writes <= writes'
           /\ writes' \in 0 .. MaxWrites
           /\ \A n \in DOMAIN queue : queue[n].number # writes'
  <1>1. writes \in Nat /\ writes' = writes + 1 /\ writes' \in 0 .. MaxWrites
    BY Bounds DEF NextWrite, StoreInv, Typed
  <1>2. \A n \in DOMAIN queue : queue[n].number \in Nat /\ queue[n].number <= writes
    BY WriteFacts DEF StoreInv, NumbersApart
  <1> QED BY <1>1, <1>2

LEMMA OtherUploadsStep ==
    ASSUME StoreInv, NEW b \in Ids, NEW form \in Forms, NEW account \in Accounts,
           OtherUploads(b, form, account)
    PROVE  StoreInv'
  <1>1. /\ NextWrite /\ origin[b] = Nil
        /\ origin' = [origin EXCEPT ![b] = [form |-> form, account |-> account, path |-> b]]
        /\ Store(b, Document(form, account, b), writes')
        /\ UNCHANGED <<cache, queue, results, books, acked>>
    BY DEF OtherUploads
  <1>2. /\ origin' \in [Ids -> Origins \cup {Nil}] /\ OriginsStay
        /\ origin'[b] \in Origins
        /\ Document(form, account, b) \in Docs
        /\ Document(form, account, b) \in DocsOf(origin'[b])
    BY <1>1, UploadMade DEF StoreInv
  <1>3. /\ writes' \in Nat /\ writes' \in 0 .. MaxWrites
        /\ writes <= writes' /\ writes' <= writes'
        /\ \A n \in DOMAIN queue : queue[n].number # writes'
    BY <1>1, NumberIsNew
  <1> QED BY <1>1, <1>2, <1>3, StoredStep

\* The newest version of a document that exists.
LEMMA CurrentFacts ==
    ASSUME StoreInv, NEW b \in Ids, stored[b] # <<>>
    PROVE  /\ origin[b] \in Origins /\ Current(b) \in DocsOf(origin[b])
  <1>1. stored[b] \in Seq(Versions)
    BY DEF StoreInv, Typed
  <1>2. Len(stored[b]) \in DOMAIN stored[b]
    BY <1>1
  <1>3. stored[b][Len(stored[b])].doc \in DocsOf(origin[b])
    BY <1>2 DEF StoreInv, VersionsFine
  <1> QED BY <1>3, OriginKnown DEF Current

LEMMA OtherRequestsStep ==
    ASSUME StoreInv, NEW b \in Ids, OtherRequests(b)
    PROVE  StoreInv'
  <1> DEFINE doc == Patched(Current(b), [number |-> writes'])
  <1>1. /\ NextWrite /\ stored[b] # <<>> /\ Store(b, doc, writes')
        /\ UNCHANGED <<cache, queue, results, books, origin, acked>>
    BY DEF OtherRequests
  <1>2. origin[b] \in Origins /\ Current(b) \in DocsOf(origin[b])
    BY <1>1, CurrentFacts
  <1>3. /\ writes' \in Nat /\ writes' \in 0 .. MaxWrites
        /\ writes <= writes' /\ writes' <= writes'
        /\ \A n \in DOMAIN queue : queue[n].number # writes'
    BY <1>1, NumberIsNew
  <1>4. doc = Marked(origin[b], writes')
    BY <1>2, PatchMarks
  <1>5. doc \in Docs /\ doc \in DocsOf(origin[b])
    BY <1>2, <1>3, <1>4, DocsTyped
  <1>6. origin' \in [Ids -> Origins \cup {Nil}] /\ OriginsStay /\ origin'[b] = origin[b]
    BY <1>1 DEF StoreInv, Typed, OriginsStay
  <1> HIDE DEF doc
  <1> QED BY <1>1, <1>2, <1>3, <1>5, <1>6, StoredStep

LEMMA CommitStep ==
    ASSUME StoreInv, Commit
    PROVE  StoreInv'
  <1> DEFINE next  == Len(results) + 1
             write == queue[next]
             b     == write.book
             doc   == IF write.kind = "set" THEN write.doc ELSE Patched(Current(b), write)
  <1>1. UNCHANGED <<cache, queue, books, origin, acked, writes>> /\ Len(results) < Len(queue)
    BY DEF Commit
  <1>2. \/ /\ write.kind = "set" \/ stored[b] # <<>>
           /\ Store(b, doc, write.number)
           /\ results' = Append(results, Len(stored'[b]))
        \/ /\ \E v \in DOMAIN stored[b] : /\ stored[b][v].number = write.number
                                          /\ results' = Append(results, v)
           /\ UNCHANGED stored
    BY DEF Commit
  <1>3. next \in DOMAIN queue
    <2>1. results \in Seq(Nat) /\ queue \in Seq(Writes)
      BY DEF StoreInv, Typed
    <2> QED BY <1>1, <2>1
  <1> HIDE DEF next
  <1>4. /\ write.kind \in {"set", "patch"} /\ b \in Ids /\ write.number \in Nat
        /\ write.number <= writes /\ write.number \in 0 .. MaxWrites
    <2>1. /\ write.kind \in {"set", "patch"} /\ b \in Ids /\ write.number \in Nat
          /\ write.number <= writes
      BY <1>3, WriteFacts DEF StoreInv, NumbersApart
    <2>2. writes \in 0 .. MaxWrites
      BY DEF StoreInv, Typed
    <2> HIDE DEF write
    <2> QED BY <2>1, <2>2, Bounds
  <1>5. writes' \in 0 .. MaxWrites /\ writes <= writes' /\ writes' = writes
    BY <1>1, Bounds DEF StoreInv, Typed
  <1>6. origin' \in [Ids -> Origins \cup {Nil}] /\ OriginsStay /\ origin'[b] = origin[b]
    BY <1>1 DEF StoreInv, Typed, OriginsStay
  <1>7. \A n \in DOMAIN queue : queue[n].number = write.number => n = next
    BY <1>3 DEF StoreInv, NumbersApart
  <1>8. CASE /\ write.kind = "set" \/ stored[b] # <<>>
             /\ Store(b, doc, write.number)
             /\ results' = Append(results, Len(stored'[b]))
    <2>1. /\ origin[b] \in Origins /\ doc \in DocsOf(origin[b]) /\ doc \in Docs
          /\ doc = IF write.kind = "set" THEN write.doc ELSE Marked(origin[b], write.number)
      <3>1. CASE write.kind = "set"
        <4>1. origin[b] \in Origins
          BY <1>3, <1>4, <3>1 DEF StoreInv, Typed, Untouched
        <4>2. write.doc = Base(origin[b])
          BY <1>3, <3>1 DEF StoreInv, SetsFine
        <4>3. 0 \in 0 .. MaxWrites
          BY Bounds
        <4> QED BY <3>1, <4>1, <4>2, <4>3, DocsTyped
      <3>2. CASE write.kind = "patch" /\ stored[b] # <<>>
        <4>1. origin[b] \in Origins /\ Current(b) \in DocsOf(origin[b])
          BY <1>4, <3>2, CurrentFacts
        <4>2. Patched(Current(b), write) = Marked(origin[b], write.number)
          BY <4>1, PatchMarks
        <4> QED BY <1>4, <3>2, <4>1, <4>2, DocsTyped
      <3> QED BY <1>4, <1>8, <3>1, <3>2
    <2> HIDE DEF doc
    <2>2. \A n \in DOMAIN queue : queue[n].number = write.number =>
              /\ queue[n].book = b
              /\ doc = IF queue[n].kind = "set" THEN queue[n].doc
                       ELSE Marked(origin'[b], write.number)
      BY <1>6, <1>7, <2>1
    <2>3. queue[Len(results) + 1] = write
      BY DEF next
    <2> HIDE DEF write, b
    <2>4. queue[Len(results) + 1].book = b /\ queue[Len(results) + 1].number = write.number
      BY <2>3 DEF b
    <2> QED BY <1>1, <1>4, <1>5, <1>6, <1>8, <2>1, <2>2, <2>4, StoredStep
  <1>9. CASE /\ \E v \in DOMAIN stored[b] : /\ stored[b][v].number = write.number
                                            /\ results' = Append(results, v)
             /\ UNCHANGED stored
    <2>1. VersionsStay
      BY <1>9 DEF VersionsStay
    <2>2. PICK v \in DOMAIN stored[b] : /\ stored[b][v].number = write.number
                                        /\ results' = Append(results, v)
      BY <1>9
    <2>3. v \in Nat
      BY <1>4, VersionFacts DEF StoreInv
    <2>4. results' \in Seq(Nat) /\ Len(results') <= Len(queue) /\ ResultsFine'
      BY <1>1, <1>9, <2>1, <2>2, <2>3, AnswersStep DEF next
    <2>5. Typed' /\ Untouched' /\ VersionsFine' /\ SetsFine' /\ NumbersApart'
      BY <1>1, <1>9, <2>4 DEF StoreInv, Typed, Untouched, VersionsFine, SetsFine, NumbersApart
    <2>6. WritesMade'
      BY <1>1, <1>9 DEF StoreInv, WritesMade, Made
    <2>7. CacheFine' /\ OwnWritesStay'
      BY <1>1, <1>9 DEF StoreInv, CacheFine, OwnWritesStay
    <2> QED BY <2>4, <2>5, <2>6, <2>7 DEF StoreInv
  <1> QED BY <1>2, <1>8, <1>9

-----------------------------------------------------------------------------
(* What is read of a document.                                             *)

LEMMA UserReads ==
    ASSUME NEW account
    PROVE  /\ As("string", UserData(account), "id") = account.id
           /\ As("string", UserData(account), "name")
                = IF account.name = Nil THEN "Some Student" ELSE account.name
  BY DEF UserData, As, With, String

LEMMA BaseReads ==
    ASSUME NEW made
    PROVE  /\ As("string", Base(made), "title") = made.form.title
           /\ As("string", Base(made), "grade") = made.form.grade
           /\ As("string", Base(made), "subject") = made.form.subject
           /\ As("string", Base(made), "condition") = made.form.condition
           /\ As("string", Base(made), "image") = made.path
           /\ As("map", Base(made), "user") = UserData(made.account)
           /\ "user" \in DOMAIN Base(made) /\ Base(made).user.is = UserData(made.account)
  BY DEF Base, Document, As, String, Map

\* The requests are not read into a book, and hide nothing that is.
LEMMA MarkReads ==
    ASSUME NEW dict, NEW value, NEW type, NEW field, field # "requests"
    PROVE  As(type, With(dict, "requests", value), field) = As(type, dict, field)
  BY DEF As, With

LEMMA MarkedUser ==
    ASSUME NEW dict, NEW value, "user" \in DOMAIN dict
    PROVE  With(dict, "requests", value).user = dict.user
  BY DEF With

LEMMA DocReads ==
    ASSUME NEW made, NEW doc \in DocsOf(made)
    PROVE  /\ As("string", doc, "title") = made.form.title
           /\ As("string", doc, "grade") = made.form.grade
           /\ As("string", doc, "subject") = made.form.subject
           /\ As("string", doc, "condition") = made.form.condition
           /\ As("string", doc, "image") = made.path
           /\ As("map", doc, "user") = UserData(made.account)
           /\ doc.user.is = UserData(made.account)
  <1>1. CASE doc = Base(made)
    BY <1>1, BaseReads
  <1>2. CASE \E k \in 0 .. MaxWrites : doc = Marked(made, k)
    <2>1. PICK k \in 0 .. MaxWrites : doc = With(Base(made), "requests", Array(k))
      BY <1>2 DEF Marked
    <2> DEFINE base == Base(made)
    <2> HIDE DEF base
    <2>2. \A type, field : field # "requests" => As(type, doc, field) = As(type, base, field)
      BY <2>1, MarkReads DEF base
    <2>3. doc.user = base.user
      BY <2>1, BaseReads, MarkedUser DEF base
    <2>4. /\ As("string", doc, "title") = As("string", base, "title")
          /\ As("string", doc, "grade") = As("string", base, "grade")
          /\ As("string", doc, "subject") = As("string", base, "subject")
          /\ As("string", doc, "condition") = As("string", base, "condition")
          /\ As("string", doc, "image") = As("string", base, "image")
          /\ As("map", doc, "user") = As("map", base, "user")
      BY <2>2
    <2> QED BY <2>3, <2>4, BaseReads DEF base
  <1> QED BY <1>1, <1>2 DEF DocsOf

\* No version of an upload makes Book or User stop the app.
LEMMA DocDecodes ==
    ASSUME NEW made \in Origins, NEW doc \in DocsOf(made)
    PROVE  Decodes(doc)
  <1>1. made.form \in Forms /\ made.account \in Accounts
    BY DEF Origins
  <1>2. /\ made.form.title # Nil /\ made.account.id # Nil /\ UserData(made.account) # Nil
        /\ Nil # "Some Student"
    BY <1>1, DocumentConstants
  <1>3. UserDecodes(UserData(made.account))
    BY <1>2, UserReads DEF UserDecodes
  <1> QED BY <1>2, <1>3, DocReads DEF Decodes

\* What a book shows of a version is what its uploader entered.
LEMMA BookShows ==
    ASSUME NEW made \in Origins, NEW doc \in DocsOf(made), NEW id
    PROVE  LET book == Book(id, doc)
           IN  /\ book.id = id
               /\ book.title = made.form.title
               /\ book.subject = made.form.subject
               /\ book.condition = made.form.condition
               /\ made.form.grade \in DOMAIN Numbers => book.grade = Numbers[made.form.grade]
               /\ book.image = made.path
               /\ book.user.id = made.account.id
  <1>1. made.form \in Forms
    BY DEF Origins
  <1>2. made.form.subject # Nil /\ made.form.condition # Nil
    BY <1>1, DocumentConstants
  <1>3. made.form.grade \in DOMAIN Numbers => GradeOf(doc) = Numbers[made.form.grade]
    BY DocReads DEF GradeOf
  <1> QED BY <1>2, <1>3, DocReads, UserReads DEF Book, Else

LEMMA DocIsThere ==
    ASSUME NEW doc \in Docs
    PROVE  doc # Nil
  <1>1. PICK made \in Origins : doc \in DocsOf(made)
    BY DEF Docs
  <1>2. /\ Base(made) # Nil
        /\ \A k \in 0 .. MaxWrites : Marked(made, k) # Nil
    BY DocumentConstants DEF Base, Marked
  <1> QED BY <1>1, <1>2 DEF DocsOf

-----------------------------------------------------------------------------
(* The overlay.                                                            *)

\* What holds of the cached document and is kept by each queued write of it
\* holds of the view: the recursion along the queue has a solution, and
\* what is a solution is in S at each step.
LEMMA ViewIn ==
    ASSUME queue \in Seq(Writes), NEW b \in Ids, NEW S, cache[b].doc \in S,
           \A n \in DOMAIN queue : queue[n].book = b =>
               \A doc \in S : ApplyToLocalView(queue[n], doc) \in S
    PROVE  View(b) \in S
  <1> DEFINE L == Len(queue)
             Over(f) == [n \in 0 .. Len(queue) |->
                           CASE n = 0 -> cache[b].doc
                             [] n > 0 /\ queue[n].book = b -> ApplyToLocalView(queue[n], f[n - 1])
                             [] OTHER -> f[n - 1]]
             step == [n \in 1 .. L |-> [doc \in S |-> IF queue[n].book = b
                                                      THEN ApplyToLocalView(queue[n], doc) ELSE doc]]
             after == CHOOSE f : f = Over(f)
  <1>1. L \in Nat /\ DOMAIN queue = 1 .. L
    OBVIOUS
  <1>2. step \in Steps(S, L)
    BY <1>1 DEF Steps
  <1>3. PICK g : Iterated(g, S, cache[b].doc, step, L)
    <2> HIDE DEF step, L
    <2> QED BY <1>1, <1>2, Iterates
  <1>4. \A n \in 0 .. L : g[n] = Over(g)[n]
    <2> SUFFICES ASSUME NEW n \in 0 .. L PROVE g[n] = Over(g)[n]
      OBVIOUS
    <2>1. CASE n = 0
      BY <1>3, <2>1 DEF Iterated
    <2>2. CASE n \in 1 .. L
      <3>1. n - 1 \in 0 .. L /\ n > 0 /\ n # 0
        BY <1>1, <2>2
      <3>2. g[n - 1] \in S
        BY <1>3, <3>1 DEF Iterated
      <3>3. g[n] = IF queue[n].book = b THEN ApplyToLocalView(queue[n], g[n - 1]) ELSE g[n - 1]
        BY <1>3, <2>2, <3>2 DEF Iterated
      <3> QED BY <3>1, <3>3
    <2> QED BY <1>1, <2>1, <2>2
  <1>5. g = Over(g)
    BY <1>3, <1>4 DEF Iterated
  <1>6. after = Over(after)
    BY <1>5
  <1>7. View(b) = after[L]
    BY DEF View
  <1> HIDE DEF after
  <1>8. after[0] \in S
    BY <1>1, <1>6
  <1>9. ASSUME NEW n \in 1 .. L, after[n - 1] \in S PROVE after[n] \in S
    <2>1. n \in 0 .. L /\ n > 0 /\ n # 0 /\ n \in DOMAIN queue
      BY <1>1
    <2>2. after[n] = IF queue[n].book = b THEN ApplyToLocalView(queue[n], after[n - 1])
                     ELSE after[n - 1]
      BY <1>6, <2>1
    <2> QED BY <1>9, <2>1, <2>2
  <1>10. L \in {n \in 0 .. L : after[n] \in S}
    <2> DEFINE P == {n \in 0 .. L : after[n] \in S}
    <2>1. 0 \in P /\ \A n \in 1 .. L : n - 1 \in P => n \in P
      BY <1>1, <1>8, <1>9
    <2> HIDE DEF P, L
    <2>2. \A n \in 0 .. L : n \in P
      BY <1>1, <2>1, Induct
    <2>3. L \in 0 .. L
      BY <1>1
    <2> QED BY <2>2, <2>3 DEF P
  <1> QED BY <1>7, <1>10

\* The view of a document is a version that could be: never a request without
\* the book it is for.
LEMMA ViewFine ==
    ASSUME StoreInv, NEW b \in Ids, cache[b].kind # "document" => cache[b].doc = Nil
    PROVE  View(b) = Nil \/ (origin[b] \in Origins /\ View(b) \in DocsOf(origin[b]))
  <1> DEFINE S == {Nil} \cup {doc \in DocsOf(origin[b]) : origin[b] \in Origins}
  <1>1. queue \in Seq(Writes)
    BY DEF StoreInv, Typed
  <1>2. cache[b].doc \in S
    <2>1. CASE cache[b].kind # "document"
      BY <2>1
    <2>2. CASE cache[b].kind = "document"
      <3>1. /\ cache[b].version \in DOMAIN stored[b]
            /\ cache[b].doc = stored[b][cache[b].version].doc
        BY <2>2 DEF StoreInv, CacheFine
      <3>2. stored[b] # <<>>
        BY <3>1
      <3>3. cache[b].doc \in DocsOf(origin[b])
        BY <3>1 DEF StoreInv, VersionsFine
      <3> QED BY <3>2, <3>3, OriginKnown
    <2> QED BY <2>1, <2>2
  <1>3. ASSUME NEW n \in DOMAIN queue, queue[n].book = b, NEW doc \in S
        PROVE  ApplyToLocalView(queue[n], doc) \in S
    <2>1. queue[n].kind \in {"set", "patch"} /\ queue[n].number \in 0 .. MaxWrites
      <3>1. /\ queue[n].kind \in {"set", "patch"} /\ queue[n].number \in Nat
            /\ queue[n].number <= writes
        BY WriteFacts DEF StoreInv, NumbersApart
      <3>2. writes \in 0 .. MaxWrites
        BY DEF StoreInv, Typed
      <3> QED BY <3>1, <3>2, Bounds
    <2>2. CASE queue[n].kind = "set"
      <3>1. origin[b] \in Origins
        BY <1>3, <2>2 DEF StoreInv, Typed, Untouched
      <3>2. queue[n].doc = Base(origin[b])
        BY <1>3, <2>2 DEF StoreInv, SetsFine
      <3>3. ApplyToLocalView(queue[n], doc) = queue[n].doc
        BY <2>2 DEF ApplyToLocalView
      <3> QED BY <3>1, <3>2, <3>3 DEF DocsOf
    <2>3. CASE queue[n].kind = "patch" /\ doc = Nil
      BY <2>3 DEF ApplyToLocalView
    <2>4. CASE queue[n].kind = "patch" /\ doc # Nil
      <3>1. ApplyToLocalView(queue[n], doc) = Patched(doc, queue[n])
        BY <2>4 DEF ApplyToLocalView
      <3>2. doc \in DocsOf(origin[b]) /\ origin[b] \in Origins
        BY <2>4
      <3>3. Patched(doc, queue[n]) = Marked(origin[b], queue[n].number)
        BY <3>2, PatchMarks
      <3> QED BY <2>1, <3>1, <3>2, <3>3 DEF DocsOf
    <2> QED BY <2>1, <2>2, <2>3, <2>4
  <1> HIDE DEF S
  <1>4. View(b) \in S
    BY <1>1, <1>2, <1>3, ViewIn
  <1> QED BY <1>4 DEF S

-----------------------------------------------------------------------------
(* The theorems.                                                           *)

LEMMA StoreInit ==
    ASSUME Init
    PROVE  StoreInv
  <1>1. \A b \in Ids : /\ stored[b] = <<>> /\ cache[b] = NotCached /\ origin[b] = Nil
                       /\ acked[b] = 0
    BY DEF Init
  <1>2. NotCached \in Entries /\ NotCached.kind = "none" /\ NotCached.version = 0
    BY DEF NotCached, Entries
  <1>3. Typed
    <2>1. stored \in [Ids -> Seq(Versions)] /\ origin \in [Ids -> Origins \cup {Nil}]
      BY DEF Init
    <2>2. cache \in [Ids -> Entries] /\ acked \in [Ids -> Nat]
      BY <1>2 DEF Init
    <2>3. /\ queue \in Seq(Writes) /\ results \in Seq(Nat) /\ Len(results) <= Len(queue)
          /\ books = {} /\ writes \in 0 .. MaxWrites
      BY Bounds DEF Init
    <2> QED BY <2>1, <2>2, <2>3 DEF Typed
  <1>4. queue = <<>> /\ results = <<>>
    BY DEF Init
  <1>5. Untouched /\ VersionsFine /\ SetsFine /\ NumbersApart /\ WritesMade /\ ResultsFine
    BY <1>1, <1>4 DEF Untouched, VersionsFine, SetsFine, NumbersApart, WritesMade, ResultsFine
  <1>6. CacheFine /\ OwnWritesStay
    BY <1>1, <1>2 DEF CacheFine, OwnWritesStay
  <1> QED BY <1>3, <1>5, <1>6 DEF StoreInv

LEMMA StoreStep ==
    ASSUME StoreInv, [Next]_vars
    PROVE  StoreInv'
  <1>1. ASSUME NEW b \in Ids, NEW form \in Forms, Upload(b, form)
        PROVE  StoreInv'
    BY <1>1, UploadStep
  <1>2. ASSUME NEW b \in Ids, NEW form \in Forms, NEW account \in Accounts,
               OtherUploads(b, form, account)
        PROVE  StoreInv'
    BY <1>2, OtherUploadsStep
  <1>3. ASSUME NEW book \in books, Request(book)
        PROVE  StoreInv'
    BY <1>3, RequestStep
  <1>4. ASSUME NEW b \in Ids, OtherRequests(b)
        PROVE  StoreInv'
    BY <1>4, OtherRequestsStep
  <1>5. ASSUME NEW b \in Ids, RemoveOrphanedDocument(b)
        PROVE  StoreInv'
    BY <1>5, RemoveStep
  <1>6. ASSUME NEW b \in Ids, NEW v \in DOMAIN stored[b], WatchUpdate(b, v)
        PROVE  StoreInv'
    BY <1>6, WatchUpdateStep
  <1>7. CASE GetDocuments
    BY <1>7, GetDocumentsStep
  <1>8. CASE Relaunch \/ Break
    BY <1>8, ForgetStep
  <1>9. CASE Acknowledge
    BY <1>9, AcknowledgeStep
  <1>10. CASE RejectBatch
    BY <1>10, RejectStep
  <1>11. CASE Commit
    BY <1>11, CommitStep
  <1>12. CASE UNCHANGED vars
    <2>1. UNCHANGED <<stored, cache, queue, results, books, origin, acked, writes>>
      BY <1>12 DEF vars
    <2>2. CacheFine' /\ OwnWritesStay' /\ cache' \in [Ids -> Entries] /\ acked' \in [Ids -> Nat]
      BY <2>1 DEF StoreInv, Typed, CacheFine, OwnWritesStay
    <2>3. \A book \in books' : book.id \in Ids
      BY <2>1 DEF StoreInv, Typed
    <2> QED BY <2>1, <2>2, <2>3, QuietStep
  <1> QED BY <1>1, <1>2, <1>3, <1>4, <1>5, <1>6, <1>7, <1>8, <1>9, <1>10, <1>11, <1>12 DEF Next

\* A cached document is the backend's of its version, also when an
\* acknowledgement made it here of an older one: AcknowledgeBatch and
\* ApplyRemoteEvent keep the remote document cache true.
THEOREM CacheTrue == Spec => []CacheIsTrue
  <1>1. Init => StoreInv
    BY StoreInit
  <1>2. StoreInv /\ [Next]_vars => StoreInv'
    BY StoreStep
  <1>3. StoreInv => CacheIsTrue
    BY DEF StoreInv, CacheFine, CacheIsTrue
  <1> QED BY <1>1, <1>2, <1>3, PTL DEF Spec

\* An update that comes late does not take a document back behind a write
\* that was acknowledged: the comparison of versions in ApplyRemoteEvent.
THEOREM WritesStay == Spec => []OwnWritesStay
  <1>1. Init => StoreInv
    BY StoreInit
  <1>2. StoreInv /\ [Next]_vars => StoreInv'
    BY StoreStep
  <1>3. StoreInv => OwnWritesStay
    BY DEF StoreInv
  <1> QED BY <1>1, <1>2, <1>3, PTL DEF Spec

-----------------------------------------------------------------------------
(* The cache against the backend, and the list.                            *)

EntriesFine ==
    \A b \in Ids : /\ cache[b].kind # "document" => cache[b].doc = Nil
                   /\ cache[b].version <= Len(stored[b])
                   /\ watched[b] \in 0 .. Len(stored[b])

\* A book of the list was decoded from a version its document could have.
BooksFine ==
    \A book \in books :
        /\ origin[book.id] \in Origins
        /\ \E doc \in DocsOf(origin[book.id]) : book = Book(book.id, doc)

ListInv ==
    /\ watched \in [Ids -> Nat] /\ faults \in 0 .. MaxFaults
    /\ EntriesFine
    /\ BooksFine /\ NeverStops

LEMMA LengthFacts ==
    ASSUME Typed, NEW b \in Ids
    PROVE  Len(stored[b]) \in Nat /\ DOMAIN stored[b] = 1 .. Len(stored[b])
  <1>1. stored[b] \in Seq(Versions)
    BY DEF Typed
  <1> QED BY <1>1

LEMMA StoreKeeps ==
    ASSUME Typed, NEW b \in Ids, NEW doc, NEW number, Store(b, doc, number)
    PROVE  VersionsStay
  <1> DEFINE new == [doc |-> doc, number |-> number]
             V   == Versions \cup {new}
  <1>1. stored[b] \in Seq(V) /\ new \in V
    <2>1. stored[b] \in Seq(Versions)
      BY DEF Typed
    <2> QED BY <2>1, SeqMonotonic
  <1>2. stored' = [stored EXCEPT ![b] = Append(stored[b], new)]
    BY DEF Store
  <1> HIDE DEF new, V
  <1>3. /\ Append(stored[b], new) \in Seq(V) /\ Len(Append(stored[b], new)) = Len(stored[b]) + 1
        /\ \A v \in 1 .. Len(stored[b]) : Append(stored[b], new)[v] = stored[b][v]
    BY <1>1, AppendProperties
  <1>4. /\ DOMAIN stored[b] = 1 .. Len(stored[b]) /\ Len(stored[b]) \in Nat
        /\ DOMAIN Append(stored[b], new) = 1 .. Len(stored[b]) + 1
    BY <1>1, <1>3
  <1>5. DOMAIN stored[b] \subseteq DOMAIN Append(stored[b], new)
    BY <1>4
  <1>6. stored'[b] = Append(stored[b], new) /\ \A c \in Ids \ {b} : stored'[c] = stored[c]
    BY <1>2 DEF Typed
  <1> QED BY <1>3, <1>4, <1>5, <1>6 DEF VersionsStay

\* The backend forgets nothing, and an id is uploaded to once.
LEMMA Keeps ==
    ASSUME StoreInv, [Next]_vars
    PROVE  VersionsStay /\ OriginsStay
  <1>1. UNCHANGED stored \/ \E b \in Ids : \E doc, number : Store(b, doc, number)
    <2>1. CASE Commit
      <3>1. CASE UNCHANGED stored
        BY <3>1
      <3>2. CASE ~ UNCHANGED stored
        <4> DEFINE write == queue[Len(results) + 1]
        <4>1. Len(results) + 1 \in DOMAIN queue
          <5>1. results \in Seq(Nat) /\ queue \in Seq(Writes) /\ Len(results) < Len(queue)
            BY <2>1 DEF Commit, StoreInv, Typed
          <5> QED BY <5>1
        <4>2. write.book \in Ids
          BY <4>1, WriteFacts DEF StoreInv
        <4>3. Store(write.book, IF write.kind = "set" THEN write.doc
                                ELSE Patched(Current(write.book), write), write.number)
          BY <2>1, <3>2 DEF Commit
        <4> HIDE DEF write
        <4> QED BY <4>2, <4>3
      <3> QED BY <3>1, <3>2
    <2>2. ASSUME NEW b \in Ids, NEW form \in Forms, NEW account \in Accounts,
                 OtherUploads(b, form, account)
          PROVE  \E doc, number : Store(b, doc, number)
      BY <2>2 DEF OtherUploads
    <2>3. ASSUME NEW b \in Ids, OtherRequests(b)
          PROVE  \E doc, number : Store(b, doc, number)
      BY <2>3 DEF OtherRequests
    <2>4. CASE UNCHANGED vars
      BY <2>4 DEF vars
    <2>5. CASE GetDocuments \/ Relaunch \/ Acknowledge \/ RejectBatch \/ Break
      BY <2>5 DEF GetDocuments, Relaunch, Acknowledge, RejectBatch, Break
    <2>6. ASSUME NEW b \in Ids, RemoveOrphanedDocument(b)
                                  \/ (\E form \in Forms : Upload(b, form))
                                  \/ (\E v \in DOMAIN stored[b] : WatchUpdate(b, v))
          PROVE  UNCHANGED stored
      BY <2>6 DEF RemoveOrphanedDocument, Upload, WatchUpdate
    <2>7. ASSUME NEW book \in books, Request(book)
          PROVE  UNCHANGED stored
      BY <2>7 DEF Request
    <2> QED BY <2>1, <2>2, <2>3, <2>4, <2>5, <2>6, <2>7 DEF Next
  <1>2. VersionsStay
    <2>1. CASE UNCHANGED stored
      BY <2>1 DEF VersionsStay
    <2>2. CASE \E b \in Ids : \E doc, number : Store(b, doc, number)
      BY <2>2, StoreKeeps DEF StoreInv
    <2> QED BY <1>1, <2>1, <2>2
  <1>3. UNCHANGED origin
        \/ \E b \in Ids, form \in Forms, account \in Accounts :
              /\ origin[b] = Nil
              /\ origin' = [origin EXCEPT ![b] = [form |-> form, account |-> account, path |-> b]]
    <2>1. ASSUME NEW b \in Ids, NEW form \in Forms, NEW account \in Accounts,
                 Upload(b, form) \/ OtherUploads(b, form, account)
          PROVE  \E a \in Accounts :
                    /\ origin[b] = Nil
                    /\ origin' = [origin EXCEPT ![b] = [form |-> form, account |-> a, path |-> b]]
      BY <2>1, Bounds DEF Upload, OtherUploads
    <2>2. ASSUME NEW b \in Ids, OtherRequests(b) \/ RemoveOrphanedDocument(b)
                                  \/ (\E v \in DOMAIN stored[b] : WatchUpdate(b, v))
          PROVE  UNCHANGED origin
      BY <2>2 DEF OtherRequests, RemoveOrphanedDocument, WatchUpdate
    <2>3. ASSUME NEW book \in books, Request(book)
          PROVE  UNCHANGED origin
      BY <2>3 DEF Request
    <2>4. CASE GetDocuments \/ Relaunch \/ Acknowledge \/ RejectBatch \/ Commit \/ Break
      BY <2>4 DEF GetDocuments, Relaunch, Acknowledge, RejectBatch, Commit, Break
    <2>5. CASE UNCHANGED vars
      BY <2>5 DEF vars
    <2> QED BY <2>1, <2>2, <2>3, <2>4, <2>5, Bounds DEF Next
  <1>4. OriginsStay
    <2>1. CASE UNCHANGED origin
      BY <2>1 DEF OriginsStay
    <2>2. ASSUME NEW b \in Ids, NEW form \in Forms, NEW account \in Accounts, origin[b] = Nil,
                 origin' = [origin EXCEPT ![b] = [form |-> form, account |-> account, path |-> b]]
          PROVE  OriginsStay
      BY <2>2, UploadMade DEF StoreInv
    <2> QED BY <1>3, <2>1, <2>2
  <1> QED BY <1>2, <1>4

\* What a list shows stays explained.
LEMMA BooksStayFine ==
    ASSUME StoreInv, ListInv, OriginsStay, books' = books \/ books' = {}
    PROVE  BooksFine'
  <1> SUFFICES ASSUME NEW book \in books
               PROVE  /\ origin'[book.id] \in Origins
                      /\ \E doc \in DocsOf(origin'[book.id]) : book = Book(book.id, doc)
    BY DEF BooksFine, DocsOf, Base, Marked
  <1>1. book.id \in Ids /\ origin[book.id] \in Origins
    BY DEF StoreInv, Typed, ListInv, BooksFine
  <1>2. origin'[book.id] = origin[book.id]
    BY <1>1, Bounds DEF OriginsStay
  <1> QED BY <1>1, <1>2 DEF ListInv, BooksFine

LEMMA ListedFine ==
    ASSUME StoreInv, ListInv, GetDocuments
    PROVE  BooksFine' /\ NeverStops'
  <1>1. \A b \in Ids : View(b) # Nil => origin[b] \in Origins /\ View(b) \in DocsOf(origin[b])
    BY ViewFine DEF ListInv, EntriesFine
  <1>2. \A b \in Ids : View(b) # Nil => Decodes(View(b))
    BY <1>1, DocDecodes
  <1>3. /\ books' = {Book(b, View(b)) : b \in {d \in Ids : View(d) # Nil}}
        /\ UNCHANGED <<stopped, origin>>
    BY <1>2 DEF GetDocuments
  <1>4. BooksFine'
    <2> SUFFICES ASSUME NEW book \in books'
                 PROVE  /\ origin[book.id] \in Origins
                        /\ \E doc \in DocsOf(origin[book.id]) : book = Book(book.id, doc)
      BY <1>3 DEF BooksFine, DocsOf, Base, Marked
    <2>1. PICK b \in Ids : View(b) # Nil /\ book = Book(b, View(b))
      BY <1>3
    <2>2. book.id = b
      BY <2>1 DEF Book
    <2> QED BY <1>1, <2>1, <2>2
  <1> QED BY <1>3, <1>4 DEF ListInv, NeverStops

\* The entry of a document whose write is acknowledged, or of which the
\* backend tells, is of a version that exists.
LEMMA EntryMoves ==
    ASSUME StoreInv, ListInv, StoreInv', VersionsStay, UNCHANGED watched,
           NEW b \in Ids, NEW entry,
           cache' = cache \/ cache' = [cache EXCEPT ![b] = entry],
           entry.kind # "document" => entry.doc = Nil,
           entry.version \in 0 .. Len(stored[b])
    PROVE  EntriesFine'
  <1> SUFFICES ASSUME NEW c \in Ids
               PROVE  /\ cache'[c].kind # "document" => cache'[c].doc = Nil
                      /\ cache'[c].version <= Len(stored'[c])
                      /\ watched[c] \in 0 .. Len(stored'[c])
    BY DEF EntriesFine
  <1>1. Len(stored[c]) \in Nat /\ Len(stored'[c]) \in Nat /\ Len(stored[c]) <= Len(stored'[c])
    <2>1. /\ Len(stored[c]) \in Nat /\ DOMAIN stored[c] = 1 .. Len(stored[c])
          /\ Len(stored'[c]) \in Nat /\ DOMAIN stored'[c] = 1 .. Len(stored'[c])
      BY LengthFacts, SMTT(30) DEF StoreInv, Typed
    <2>2. DOMAIN stored[c] \subseteq DOMAIN stored'[c]
      BY DEF VersionsStay
    <2> QED BY <2>1, <2>2
  <1>2. /\ cache[c].kind # "document" => cache[c].doc = Nil
        /\ cache[c].version <= Len(stored[c]) /\ cache[c].version \in Nat
        /\ watched[c] \in 0 .. Len(stored[c])
    BY EntryFacts DEF ListInv, EntriesFine, StoreInv
  <1>3. cache'[c] = cache[c] \/ (c = b /\ cache'[c] = entry)
    BY DEF StoreInv, Typed
  <1> QED BY <1>1, <1>2, <1>3

LEMMA ListStep ==
    ASSUME StoreInv, ListInv, StoreInv', [Next]_vars
    PROVE  ListInv'
  <1>1. VersionsStay /\ OriginsStay
    BY Keeps
  <1>2. faults \in 0 .. MaxFaults /\ watched \in [Ids -> Nat] /\ MaxFaults \in Nat
    BY Bounds DEF ListInv
  <1>3. ASSUME UNCHANGED <<cache, watched>>, stopped' = stopped \/ ~ stopped',
               books' = books \/ books' = {},
               faults' = faults \/ (faults < MaxFaults /\ faults' = faults + 1)
        PROVE  ListInv'
    <2>1. EntriesFine'
      <3> SUFFICES ASSUME NEW c \in Ids
                   PROVE  /\ cache[c].kind # "document" => cache[c].doc = Nil
                          /\ cache[c].version <= Len(stored'[c])
                          /\ watched[c] \in 0 .. Len(stored'[c])
        BY <1>3 DEF EntriesFine
      <3>1. /\ Len(stored[c]) \in Nat /\ DOMAIN stored[c] = 1 .. Len(stored[c])
            /\ Len(stored'[c]) \in Nat /\ DOMAIN stored'[c] = 1 .. Len(stored'[c])
        BY LengthFacts DEF StoreInv, Typed
      <3>2. DOMAIN stored[c] \subseteq DOMAIN stored'[c]
        BY <1>1 DEF VersionsStay
      <3>3. /\ cache[c].kind # "document" => cache[c].doc = Nil
            /\ cache[c].version <= Len(stored[c]) /\ cache[c].version \in Nat
            /\ watched[c] \in 0 .. Len(stored[c])
        BY EntryFacts DEF ListInv, EntriesFine, StoreInv
      <3> QED BY <3>1, <3>2, <3>3
    <2>2. BooksFine'
      BY <1>1, <1>3, BooksStayFine
    <2>3. faults' \in 0 .. MaxFaults
      BY <1>2, <1>3
    <2> QED BY <1>2, <1>3, <2>1, <2>2, <2>3 DEF ListInv, NeverStops
  <1>4. ASSUME NEW b \in Ids, NEW form \in Forms, NEW account \in Accounts,
               Upload(b, form) \/ OtherUploads(b, form, account)
        PROVE  ListInv'
    BY <1>3, <1>4 DEF Upload, OtherUploads
  <1>5. ASSUME NEW book \in books, Request(book)
        PROVE  ListInv'
    BY <1>3, <1>5 DEF Request
  <1>6. ASSUME NEW b \in Ids, OtherRequests(b)
        PROVE  ListInv'
    BY <1>3, <1>6 DEF OtherRequests
  <1>7. ASSUME NEW b \in Ids, RemoveOrphanedDocument(b)
        PROVE  ListInv'
    <2>1. /\ cache' = [cache EXCEPT ![b] = NotCached]
          /\ UNCHANGED <<watched, books, stopped>>
          /\ faults < MaxFaults /\ faults' = faults + 1
      BY <1>7 DEF RemoveOrphanedDocument, Fault
    <2>2. Len(stored[b]) \in Nat
      BY LengthFacts DEF StoreInv
    <2>3. NotCached.doc = Nil /\ NotCached.version \in 0 .. Len(stored[b])
      BY <2>2 DEF NotCached
    <2>4. EntriesFine'
      BY <1>1, <2>1, <2>3, EntryMoves
    <2>5. BooksFine'
      BY <1>1, <2>1, BooksStayFine
    <2> QED BY <1>2, <2>1, <2>4, <2>5 DEF ListInv, NeverStops
  <1>8. ASSUME NEW b \in Ids, NEW v \in DOMAIN stored[b], WatchUpdate(b, v)
        PROVE  ListInv'
    <2> DEFINE entry == Cached(stored[b][v].doc, v, TRUE)
    <2>1. /\ cache' = cache \/ cache' = [cache EXCEPT ![b] = entry]
          /\ watched' = [watched EXCEPT ![b] = v]
          /\ UNCHANGED <<stored, books, stopped, faults>>
      BY <1>8 DEF WatchUpdate
    <2>2. v \in 0 .. Len(stored[b]) /\ v \in Nat
      BY VersionFacts DEF StoreInv
    <2>3. entry.kind = "document" /\ entry.version = v
      BY DEF Cached
    <2> HIDE DEF entry
    <2>4. watched' \in [Ids -> Nat] /\ watched'[b] = v
          /\ \A c \in Ids \ {b} : watched'[c] = watched[c]
      BY <1>2, <2>1, <2>2
    <2>5. EntriesFine'
      <3> SUFFICES ASSUME NEW c \in Ids
                   PROVE  /\ cache'[c].kind # "document" => cache'[c].doc = Nil
                          /\ cache'[c].version <= Len(stored[c])
                          /\ watched'[c] \in 0 .. Len(stored[c])
        BY <2>1 DEF EntriesFine
      <3>1. cache'[c] = cache[c] \/ (c = b /\ cache'[c] = entry)
        BY <2>1 DEF StoreInv, Typed
      <3> QED BY <2>2, <2>3, <2>4, <3>1 DEF ListInv, EntriesFine
    <2>6. BooksFine'
      BY <1>1, <2>1, BooksStayFine
    <2> QED BY <1>2, <2>1, <2>4, <2>5, <2>6 DEF ListInv, NeverStops
  <1>9. CASE GetDocuments
    <2>1. UNCHANGED <<stored, cache, watched, faults>>
      BY <1>9 DEF GetDocuments
    <2>2. EntriesFine'
      BY <2>1 DEF ListInv, EntriesFine
    <2> QED BY <1>2, <1>9, <2>1, <2>2, ListedFine DEF ListInv
  <1>10. CASE Relaunch
    BY <1>3, <1>10 DEF Relaunch, Fault
  <1>11. CASE Acknowledge
    <2> DEFINE b     == queue[1].book
               v     == results[1]
               entry == ApplyToRemoteDocument(queue[1], cache[b], v)
    <2>1. results # <<>> /\ UNCHANGED <<watched, books, stopped, faults>>
      BY <1>11 DEF Acknowledge
    <2>2. /\ b \in Ids /\ v \in DOMAIN stored[b] /\ entry.version = v
      BY <2>1, AnswerCaches
    <2>3. cache' = cache \/ cache' = [cache EXCEPT ![b] = entry]
      <3>1. Head(queue) = queue[1] /\ Head(results) = results[1]
        <4>1. results \in Seq(Nat) /\ queue \in Seq(Writes) /\ Len(results) <= Len(queue)
          BY DEF StoreInv, Typed
        <4> QED BY <2>1, <4>1
      <3>2. \/ cache' = cache
            \/ cache' = [cache EXCEPT ![Head(queue).book] =
                   ApplyToRemoteDocument(Head(queue), cache[Head(queue).book], Head(results))]
        BY <1>11 DEF Acknowledge
      <3> QED BY <3>1, <3>2
    <2>4. entry.kind # "document" => entry.doc = Nil
      BY DEF ApplyToRemoteDocument, Cached, Unknown
    <2> HIDE DEF b, v, entry
    <2>5. v \in 0 .. Len(stored[b])
      BY <2>2, VersionFacts DEF StoreInv
    <2>6. EntriesFine'
      BY <1>1, <2>1, <2>2, <2>3, <2>4, <2>5, EntryMoves
    <2>7. BooksFine'
      BY <1>1, <2>1, BooksStayFine
    <2> QED BY <1>2, <2>1, <2>6, <2>7 DEF ListInv, NeverStops
  <1>12. CASE RejectBatch \/ Commit \/ Break
    BY <1>3, <1>12 DEF RejectBatch, Commit, Break, Fault
  <1>13. CASE UNCHANGED vars
    BY <1>3, <1>13 DEF vars
  <1> QED BY <1>4, <1>5, <1>6, <1>7, <1>8, <1>9, <1>10, <1>11, <1>12, <1>13, Bounds DEF Next

LEMMA ListInit ==
    ASSUME Init
    PROVE  ListInv
  <1>1. watched \in [Ids -> Nat] /\ faults \in 0 .. MaxFaults
    BY Bounds DEF Init
  <1>2. EntriesFine
    <2>1. \A b \in Ids : /\ cache[b].doc = Nil /\ cache[b].version = 0
                         /\ Len(stored[b]) = 0 /\ watched[b] = 0
      BY DEF Init, NotCached
    <2> QED BY <2>1 DEF EntriesFine
  <1> QED BY <1>1, <1>2 DEF Init, ListInv, BooksFine, NeverStops

LEMMA DeviceInvariant == Spec => [](StoreInv /\ ListInv)
  <1>1. Init => StoreInv /\ ListInv
    BY StoreInit, ListInit
  <1>2. StoreInv /\ ListInv /\ [Next]_vars => StoreInv' /\ ListInv'
    BY StoreStep, ListStep
  <1> QED BY <1>1, <1>2, PTL DEF Spec

\* The store is well formed: entries, versions, answers under way.
THEOREM DocumentsTyped == Spec => []TypeOK
  <1>1. StoreInv /\ ListInv => TypeOK
    <2> SUFFICES ASSUME StoreInv, ListInv PROVE TypeOK
      OBVIOUS
    <2>1. ASSUME NEW b \in Ids
          PROVE  /\ cache[b].kind \in {"none", "unknown", "document"}
                 /\ cache[b].doc = Nil <=> cache[b].kind # "document"
                 /\ cache[b].version \in 0 .. Len(stored[b])
                 /\ watched[b] \in 0 .. Len(stored[b])
      <3>1. cache[b] \in Entries /\ cache[b].version \in Nat /\ Len(stored[b]) \in Nat
        BY EntryFacts, LengthFacts DEF StoreInv
      <3>2. cache[b].kind \in {"none", "unknown", "document"}
        BY <3>1 DEF Entries
      <3>3. cache[b].kind = "document" => cache[b].doc # Nil
        <4> SUFFICES ASSUME cache[b].kind = "document" PROVE cache[b].doc # Nil
          OBVIOUS
        <4>1. cache[b].version \in DOMAIN stored[b]
              /\ cache[b].doc = stored[b][cache[b].version].doc
          BY DEF StoreInv, CacheFine
        <4>2. stored[b][cache[b].version].doc \in Docs
          BY <4>1, VersionFacts DEF StoreInv
        <4> QED BY <4>1, <4>2, DocIsThere
      <3> QED BY <3>1, <3>2, <3>3 DEF ListInv, EntriesFine
    <2>2. Len(results) <= Len(queue) /\ \A n \in DOMAIN results : results[n] \in DOMAIN stored[queue[n].book]
      BY DEF StoreInv, Typed, ResultsFine
    <2>3. writes \in 0 .. MaxWrites /\ faults \in 0 .. MaxFaults
      BY DEF StoreInv, Typed, ListInv
    <2> QED BY <2>1, <2>2, <2>3 DEF TypeOK
  <1> QED BY <1>1, DeviceInvariant, PTL

\* No document that reaches the list stops the app: the fatalErrors of
\* Book.init and User.init are not reached by what the form writes, whatever
\* the cache has lost and the queue adds.
THEOREM ListsDecode == Spec => []NeverStops
  <1>1. ListInv => NeverStops
    BY DEF ListInv
  <1> QED BY <1>1, DeviceInvariant, PTL

\* A book of the list shows what its uploader entered: neither updates of its
\* requests, here or elsewhere, nor the queue laid over the cache change the
\* fields that Book reads.
THEOREM FieldsShown == Spec => []FieldsSurvive
  <1>1. StoreInv /\ ListInv => FieldsSurvive
    <2> SUFFICES ASSUME StoreInv, ListInv, NEW book \in books
                 PROVE  LET made == origin[book.id]
                        IN  /\ book.title = made.form.title
                            /\ book.subject = made.form.subject
                            /\ book.condition = made.form.condition
                            /\ made.form.grade \in DOMAIN Numbers =>
                                  book.grade = Numbers[made.form.grade]
                            /\ book.image = made.path
                            /\ book.user.id = made.account.id
      BY DEF FieldsSurvive
    <2>1. PICK doc \in DocsOf(origin[book.id]) : book = Book(book.id, doc)
      BY DEF ListInv, BooksFine
    <2>2. origin[book.id] \in Origins
      BY DEF ListInv, BooksFine
    <2> QED BY <2>1, <2>2, BookShows
  <1> QED BY <1>1, DeviceInvariant, PTL

=============================================================================
