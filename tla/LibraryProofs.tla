--------------------------- MODULE LibraryProofs ---------------------------
(***************************************************************************)
(* The list, its filter and the filter's table, proved for any number of   *)
(* books, grades and rows on the screen.                                   *)
(***************************************************************************)
EXTENDS Library, SequenceTheorems, FiniteSetTheorems, TLAPS

-----------------------------------------------------------------------------
(* Sorting by place.                                                       *)

LEMMA PlaceType ==
    ASSUME NEW S \in SUBSET Int, IsFiniteSet(S), NEW x \in S
    PROVE  Place(x, S) \in 1 .. Cardinality(S)
  <1> DEFINE T == {y \in S : y <= x}
  <1>1. T \in SUBSET S /\ x \in T
    OBVIOUS
  <1> HIDE DEF T
  <1>2. IsFiniteSet(T) /\ Cardinality(T) <= Cardinality(S)
    BY <1>1, FS_Subset
  <1>3. Cardinality(T) \in Nat /\ Cardinality(S) \in Nat
    BY <1>2, FS_CardinalityType
  <1>4. Cardinality(T) # 0
    BY <1>1, <1>2, FS_EmptySet
  <1>5. Cardinality(T) \in 1 .. Cardinality(S)
    BY <1>2, <1>3, <1>4
  <1> QED BY <1>5 DEF Place, T

LEMMA PlaceGrows ==
    ASSUME NEW S \in SUBSET Int, IsFiniteSet(S), NEW x \in S, NEW z \in S, x < z
    PROVE  Place(x, S) < Place(z, S)
  <1> DEFINE T == {y \in S : y <= x}
             U == {y \in S : y <= z}
  <1>1. U \in SUBSET S /\ z \in U
    OBVIOUS
  <1>2. T \in SUBSET U /\ z \notin T
    <2>1. x \in Int /\ z \in Int /\ \A y \in S : y \in Int
      OBVIOUS
    <2>2. \A y \in S : y <= x => y <= z
      BY <2>1
    <2>3. ~ (z <= x)
      BY <2>1
    <2> QED BY <2>2, <2>3
  <1> HIDE DEF T, U
  <1>3. IsFiniteSet(U)
    BY <1>1, FS_Subset
  <1>4. /\ IsFiniteSet(T) /\ Cardinality(T) <= Cardinality(U)
        /\ Cardinality(U) = Cardinality(T) => U = T
    BY <1>2, <1>3, FS_Subset
  <1>5. Cardinality(T) \in Nat /\ Cardinality(U) \in Nat
    BY <1>3, <1>4, FS_CardinalityType
  <1>6. Cardinality(T) < Cardinality(U)
    BY <1>1, <1>2, <1>4, <1>5
  <1> QED BY <1>6 DEF Place, T, U

\* Each place up to the number of elements is taken, by one of them.
LEMMA PlacesTaken ==
    ASSUME NEW S \in SUBSET Int, IsFiniteSet(S)
    PROVE  \A i \in 1 .. Cardinality(S) : \E x \in S : Place(x, S) = i
  <1> DEFINE n     == Cardinality(S)
             place == [x \in S |-> Place(x, S)]
  <1>1. n \in Nat
    BY FS_CardinalityType
  <1>2. place \in [S -> 1 .. n]
    BY PlaceType
  <1>3. \A x, z \in S : place[x] = place[z] => x = z
    <2> SUFFICES ASSUME NEW x \in S, NEW z \in S, x # z
                 PROVE  Place(x, S) # Place(z, S)
      OBVIOUS
    <2>1. Place(x, S) \in Int /\ Place(z, S) \in Int
      BY PlaceType
    <2>2. x < z \/ z < x
      OBVIOUS
    <2> QED BY <2>1, <2>2, PlaceGrows
  <1>4. place \in Injection(S, 1 .. n)
    BY <1>2, <1>3 DEF Injection, IsInjective
  <1>5. IsFiniteSet(1 .. n) /\ Cardinality(1 .. n) = n
    BY <1>1, FS_Interval
  <1> HIDE DEF place
  <1>6. place \in Surjection(S, 1 .. n)
    BY <1>4, <1>5, FS_Injection
  <1>7. \A i \in 1 .. n : \E x \in S : place[x] = i
    BY <1>6 DEF Surjection
  <1> QED BY <1>7 DEF place

\* The order of a finite set of numbers: all of them, each once, ascending.
LEMMA Ascends ==
    ASSUME NEW S \in SUBSET Int, IsFiniteSet(S)
    PROVE  /\ Ascending(S) \in Seq(S)
           /\ Listed(Ascending(S)) = S
           /\ Ordered(Ascending(S))
  <1> DEFINE n == Cardinality(S)
             s == Ascending(S)
  <1>1. n \in Nat
    BY FS_CardinalityType
  <1>2. \A i \in 1 .. n : s[i] \in S /\ Place(s[i], S) = i
    BY PlacesTaken DEF Ascending
  <1>3. s = [i \in 1 .. n |-> s[i]] /\ DOMAIN s = 1 .. n
    BY DEF Ascending
  <1> HIDE DEF n, s
  <1>4. s \in [1 .. n -> S]
    BY <1>2, <1>3
  <1>5. s \in Seq(S)
    BY <1>1, <1>4
  <1>6. \A x \in S : \E i \in 1 .. n : s[i] = x
    <2> SUFFICES ASSUME NEW x \in S PROVE \E i \in 1 .. n : s[i] = x
      OBVIOUS
    <2> DEFINE i == Place(x, S)
    <2>1. i \in 1 .. n
      BY PlaceType DEF n
    <2>2. s[i] \in S /\ Place(s[i], S) = i /\ i \in Int
      BY <1>2, <2>1
    <2>3. ~ (s[i] < x)
      <3> SUFFICES ASSUME s[i] < x PROVE FALSE
        OBVIOUS
      <3>1. Place(s[i], S) < i
        BY <2>2, PlaceGrows
      <3> QED BY <2>2, <3>1
    <2>4. ~ (x < s[i])
      <3> SUFFICES ASSUME x < s[i] PROVE FALSE
        OBVIOUS
      <3>1. i < Place(s[i], S)
        BY <2>2, PlaceGrows
      <3> QED BY <2>2, <3>1
    <2>5. x \in Int /\ s[i] \in Int
      BY <2>2
    <2> HIDE DEF i
    <2>6. s[i] = x
      BY <2>3, <2>4, <2>5
    <2> QED BY <2>1, <2>6
  <1>7. Listed(s) = S
    BY <1>3, <1>2, <1>6 DEF Listed
  <1>8. Ordered(s)
    <2> SUFFICES ASSUME NEW i \in 1 .. n, NEW j \in 1 .. n, i < j
                 PROVE  s[i] < s[j]
      BY <1>3 DEF Ordered
    <2>1. s[i] \in S /\ s[j] \in S /\ Place(s[i], S) = i /\ Place(s[j], S) = j
      BY <1>2
    <2>2. s[i] # s[j]
      BY <2>1
    <2>3. ~ (s[j] < s[i])
      <3> SUFFICES ASSUME s[j] < s[i] PROVE FALSE
        OBVIOUS
      <3>1. Place(s[j], S) < Place(s[i], S)
        BY <2>1, PlaceGrows
      <3> QED BY <2>1, <3>1
    <2>4. s[i] \in Int /\ s[j] \in Int
      BY <2>1
    <2> QED BY <2>2, <2>3, <2>4
  <1> QED BY <1>5, <1>7, <1>8 DEF s

-----------------------------------------------------------------------------
(* The filter's table.                                                     *)

\* Rows are grades in ascending order, so a grade has one row, and all rows have
\* a cell when they fit on the screen.
RowsFine ==
    /\ grades \in Seq(Grades) /\ Ordered(grades)
    /\ displayed \subseteq DOMAIN grades
    /\ ticked \subseteq displayed
    /\ Len(grades) <= Window => displayed = DOMAIN grades
    /\ selected \in {0} \cup DOMAIN grades

\* The selected row was ticked when it was tapped, or viewDidAppear selected it.
SelectionTicked ==
    Len(grades) <= Window /\ selected # 0 => selected \in ticked \/ CellTicked(selected)

TableInv == RowsFine /\ SelectionInStep /\ SelectionTicked

LEMMA WindowsFine ==
    ASSUME NEW n \in Nat, NEW W \in Windows(n)
    PROVE  W \subseteq 1 .. n /\ (n <= Window => W = 1 .. n)
  <1>1. Window \in Nat \ {0}
    BY FilterConstants
  <1>2. CASE n <= Window
    BY <1>2 DEF Windows
  <1>3. CASE ~ (n <= Window)
    <2>1. PICK k \in 1 .. n - Window + 1 : W = k .. k + Window - 1
      BY <1>3 DEF Windows
    <2>2. \A i \in k .. k + Window - 1 : i \in 1 .. n
      BY <1>1, <2>1
    <2> QED BY <1>3, <2>1, <2>2
  <1> QED BY <1>2, <1>3

LEMMA TableCleared ==
    ASSUME grades = <<>>, selected = 0, previous = 0, displayed = {}, ticked = {}
    PROVE  TableInv
  <1>1. <<>> \in Seq(Grades) /\ Len(<<>>) = 0 /\ DOMAIN <<>> = {}
    OBVIOUS
  <1>2. RowsFine
    BY <1>1 DEF RowsFine, Ordered
  <1> QED BY <1>2 DEF TableInv, SelectionInStep, SelectionTicked

LEMMA PresentStep ==
    ASSUME NEW rows \in Seq(Grades), Ordered(rows), NEW grade, Present(rows, grade)
    PROVE  TableInv'
  <1>1. Len(rows) \in Nat /\ DOMAIN rows = 1 .. Len(rows)
    OBVIOUS
  <1>2. /\ grades' = rows /\ previous' = 0 /\ selected' = 0
        /\ displayed' \in Windows(Len(rows)) /\ ticked' \subseteq displayed'
    BY DEF Present
  <1>3. displayed' \subseteq DOMAIN rows /\ (Len(rows) <= Window => displayed' = DOMAIN rows)
    BY <1>1, <1>2, WindowsFine
  <1>4. RowsFine'
    BY <1>1, <1>2, <1>3 DEF RowsFine, Ordered
  <1> QED BY <1>2, <1>4 DEF TableInv, SelectionInStep, SelectionTicked

\* viewDidAppear, whenever it runs, selects the row that cellForRowAt would tick.
LEMMA AppearStep ==
    ASSUME TableInv, Appear
    PROVE  TableInv'
  <1>1. UNCHANGED <<grades, initialGrade, displayed, ticked>>
    BY DEF Appear
  <1>2. CASE \E row \in DOMAIN grades :
                CellTicked(row) /\ previous' = row /\ selected' = row
    <2>1. PICK row \in DOMAIN grades : CellTicked(row) /\ previous' = row /\ selected' = row
      BY <1>2
    <2>2. RowsFine'
      BY <1>1, <2>1 DEF TableInv, RowsFine, Ordered
    <2>3. SelectionTicked'
      BY <1>1, <2>1 DEF SelectionTicked, CellTicked
    <2> QED BY <2>1, <2>2, <2>3 DEF TableInv, SelectionInStep
  <1>3. CASE UNCHANGED <<previous, selected>>
    <2>1. RowsFine'
      BY <1>1, <1>3 DEF TableInv, RowsFine, Ordered
    <2> QED BY <1>1, <1>3, <2>1 DEF TableInv, SelectionInStep, SelectionTicked, CellTicked
  <1> QED BY <1>2, <1>3 DEF Appear

LEMMA TapRowStep ==
    ASSUME TableInv, NEW row, TapRow(row)
    PROVE  TableInv'
  <1> DEFINE marks == IF selected \in {0, row} THEN ticked ELSE DidDeselect(selected)
  <1>1. /\ row \in displayed /\ DidSelect(row, marks)
        /\ UNCHANGED <<grades, initialGrade, displayed>>
    BY DEF TapRow
  <1>2. row \in DOMAIN grades /\ row # 0 /\ previous = selected
    BY <1>1 DEF TableInv, RowsFine, SelectionInStep
  <1>3. marks \subseteq displayed
    BY DEF TableInv, RowsFine, DidDeselect
  <1> HIDE DEF marks
  <1>4. CASE selected = row
    <2>1. previous' = 0 /\ selected' = 0 /\ ticked' = marks \ {row}
      BY <1>1, <1>2, <1>4 DEF DidSelect
    <2>2. RowsFine'
      BY <1>1, <1>3, <2>1 DEF TableInv, RowsFine, Ordered
    <2> QED BY <2>1, <2>2 DEF TableInv, SelectionInStep, SelectionTicked
  <1>5. CASE selected # row
    <2>1. previous' = row /\ selected' = row /\ ticked' = marks \cup {row}
      BY <1>1, <1>2, <1>5 DEF DidSelect
    <2>2. RowsFine'
      BY <1>1, <1>2, <1>3, <2>1 DEF TableInv, RowsFine, Ordered
    <2>3. SelectionTicked'
      BY <2>1 DEF SelectionTicked
    <2> QED BY <2>1, <2>2, <2>3 DEF TableInv, SelectionInStep
  <1> QED BY <1>4, <1>5

LEMMA ScrollStep ==
    ASSUME TableInv, Scroll
    PROVE  TableInv'
  <1>1. /\ displayed' \in Windows(Len(grades))
        /\ ticked' = (ticked \cap displayed')
                       \cup {row \in displayed' \ displayed : CellTicked(row)}
        /\ UNCHANGED <<grades, initialGrade, previous, selected>>
    BY DEF Scroll
  <1>2. grades \in Seq(Grades) /\ Len(grades) \in Nat /\ DOMAIN grades = 1 .. Len(grades)
    BY DEF TableInv, RowsFine
  <1>3. displayed' \subseteq DOMAIN grades /\ (Len(grades) <= Window => displayed' = DOMAIN grades)
    BY <1>1, <1>2, WindowsFine
  <1>4. ticked' \subseteq displayed'
    BY <1>1
  <1>5. RowsFine'
    BY <1>1, <1>3, <1>4 DEF TableInv, RowsFine, Ordered
  <1>6. Len(grades) <= Window => ticked' = ticked
    BY <1>1, <1>3 DEF TableInv, RowsFine
  <1>7. SelectionTicked'
    BY <1>1, <1>6 DEF TableInv, SelectionTicked, CellTicked
  <1> QED BY <1>1, <1>5, <1>7 DEF TableInv, SelectionInStep

\* What the list hands to the filter is a sequence of rows as it should be.
LEMMA GradesAscend ==
    ASSUME Listed(originalBooks) \subseteq Ids
    PROVE  GetGradesFromBooks \in Seq(Grades) /\ Ordered(GetGradesFromBooks)
  <1> DEFINE S == Listed(originalBooks)
             G == {GradeOf[id] : id \in S}
             f == [id \in S |-> GradeOf[id]]
  <1>1. IsFiniteSet(S)
    BY LibraryConstants, FS_Subset
  <1>2. G \subseteq Grades /\ G \subseteq Int
    BY LibraryConstants, FilterConstants
  <1>3. f \in Surjection(S, G)
    BY DEF Surjection
  <1> HIDE DEF S, G, f
  <1>4. IsFiniteSet(G)
    BY <1>1, <1>3, FS_Surjection
  <1>5. Ascending(G) \in Seq(G) /\ Ordered(Ascending(G))
    BY <1>2, <1>4, Ascends
  <1>6. Ascending(G) \in Seq(Grades)
    BY <1>2, <1>5, SeqMonotonic
  <1> QED BY <1>5, <1>6 DEF GetGradesFromBooks, G, S

LEMMA TableStep ==
    ASSUME TableInv, Listed(originalBooks) \subseteq Ids, [Next]_vars
    PROVE  TableInv'
  <1>1. CASE UNCHANGED table
    BY <1>1 DEF table, TableInv, RowsFine, SelectionInStep, SelectionTicked, CellTicked, Ordered
  <1>2. CASE Relaunch
    BY <1>2 DEF Relaunch, TableInv, RowsFine, SelectionInStep, SelectionTicked, Ordered
  <1>3. CASE OpenFilter
    BY <1>3, GradesAscend, PresentStep DEF OpenFilter
  <1>4. CASE UseFilter
    BY <1>4, AppearStep, ScrollStep, TapRowStep DEF UseFilter
  <1> QED BY <1>1, <1>2, <1>3, <1>4
          DEF Next, vars, DoneButtonTapped, Dismiss, AnswerFromServer, AnswerFromCache,
              AnswerError, Callback, RemoveOrphanedDocuments, OpenForm, LeaveForm, AddDocument,
              UploadCompleted, Commit, Ack, Reject, SwitchNetwork

\* The filter that is open was opened with the grade that the list filters by.
FilterInStep == scene = "filter" => initialGrade = filterGrade

LEMMA FilterStep ==
    ASSUME FilterInStep, [Next]_vars
    PROVE  FilterInStep'
  <1>1. CASE OpenFilter
    BY <1>1 DEF OpenFilter, Present, FilterInStep, list
  <1>2. CASE UseFilter
    BY <1>2 DEF UseFilter, Appear, Scroll, TapRow, FilterInStep, list
  <1>3. CASE scene' # "filter"
    BY <1>3 DEF FilterInStep
  <1>4. CASE UNCHANGED <<scene, initialGrade, filterGrade>>
    BY <1>4 DEF FilterInStep
  <1> QED BY <1>1, <1>2, <1>3, <1>4
          DEF Next, vars, table, list, Relaunch, DoneButtonTapped, Dismiss, AnswerFromServer,
              AnswerFromCache, AnswerError, Callback, RemoveOrphanedDocuments, OpenForm,
              LeaveForm, ReleaseForm, AddDocument, UploadCompleted, Commit, Ack, Reject,
              SwitchNetwork

-----------------------------------------------------------------------------
(* Fetches and answers.                                                    *)

Documents == SUBSET Ids
Answers   == [ok : BOOLEAN, found : Documents, known : Documents, lost : Documents]

\* What has reached the device stays with the backend; what was announced was
\* acknowledged before, and is in the cache unless that has lost it.
Stored ==
    /\ documents \subseteq Ids /\ cache \subseteq documents /\ queued \subseteq Ids
    /\ alerts \subseteq cache \cup collected /\ announced \subseteq cache \cup collected
    /\ collected \subseteq documents \ (cache \cup queued)

\* Later answers rest on more than earlier ones, and on more than the one that
\* is shown, but for what they tell that the cache has lost.
AnswersGrow ==
    /\ callbacks \in Seq(Answers)
    /\ \A i \in DOMAIN callbacks :
         /\ callbacks[i].known \subseteq callbacks[i].found
         /\ callbacks[i].known \subseteq cache
         /\ ~ callbacks[i].ok => callbacks[i].known = {}
         /\ callbacks[i].ok => confirmed \subseteq callbacks[i].known \cup callbacks[i].lost
    /\ \A i, j \in DOMAIN callbacks :
         i < j /\ callbacks[i].ok /\ callbacks[j].ok
           => callbacks[i].known \subseteq callbacks[j].known \cup callbacks[j].lost
    /\ confirmed \subseteq cache \cup collected
    /\ confirmed \subseteq Listed(originalBooks)
    /\ fetches # <<>> => confirmed \subseteq fetches[1] \cup cache

\* Once nothing is asked for any more, the last answer has what was announced,
\* unless a fetch has failed or the cache has lost it.
LastAnswer == callbacks[Len(callbacks)]
AnnouncedComes ==
    fetches = <<>> =>
        /\ callbacks # <<>> /\ LastAnswer.ok => announced \subseteq LastAnswer.known \cup collected
        /\ callbacks = <<>> /\ ~failed => announced \subseteq Listed(originalBooks) \cup collected

ListInv ==
    /\ Stored /\ AnswersGrow /\ AnnouncedComes /\ ListIsView
    /\ fetches \in Seq(Documents)
    /\ Listed(originalBooks) \subseteq Ids

LEMMA ListedNothing == Listed(<<>>) = {}
  BY DEF Listed

\* An answer to everybody who waits: the client's cache and the callbacks
\* change, and what the cache has lost may come back, nothing else.
LEMMA RaiseStep ==
    ASSUME ListInv, NEW answer \in Answers, Raise(answer),
           answer.known \subseteq answer.found, answer.known \subseteq cache',
           ~ answer.ok => answer.known = {},
           answer.ok => /\ cache \subseteq answer.known
                        /\ confirmed \subseteq answer.known \cup answer.lost
                        /\ cache \cup collected \subseteq answer.known \cup collected',
           cache \subseteq cache', cache' \subseteq documents,
           cache \cup collected \subseteq cache' \cup collected',
           collected' \subseteq documents \ (cache' \cup queued),
           UNCHANGED <<documents, queued, form, list, announced, failed, confirmed>>
    PROVE  ListInv'
  <1> DEFINE new == [i \in DOMAIN fetches |-> answer]
             m == Len(callbacks)
             n == Len(fetches)
  <1>1. /\ callbacks \in Seq(Answers) /\ m \in Nat /\ n \in Nat /\ n > 0 /\ DOMAIN fetches = 1 .. n
        /\ DOMAIN callbacks = 1 .. m
    BY DEF Raise, ListInv, AnswersGrow
  <1>3. new \in Seq(Answers) /\ Len(new) = n /\ \A i \in 1 .. n : new[i] = answer
    <2>1. new = [i \in 1 .. n |-> answer]
      BY <1>1
    <2> HIDE DEF n
    <2> QED BY <1>1, <2>1
  <1>4. callbacks' = callbacks \o new /\ fetches' = <<>>
    BY DEF Raise
  <1> HIDE DEF new, m, n
  <1>5. /\ callbacks' \in Seq(Answers) /\ Len(callbacks') = m + n /\ DOMAIN callbacks' = 1 .. m + n
        /\ \A i \in 1 .. m : callbacks'[i] = callbacks[i]
        /\ \A i \in m + 1 .. m + n : callbacks'[i] = answer
    <2>1. Len(callbacks) = m
      BY DEF m
    <2>2. callbacks' \in Seq(Answers) /\ Len(callbacks') = m + n
      <3>1. callbacks \in Seq(Answers) /\ new \in Seq(Answers)
        BY <1>1, <1>3
      <3>2. /\ callbacks \o new \in Seq(Answers)
            /\ Len(callbacks \o new) = Len(callbacks) + Len(new)
        BY ONLY <3>1, ConcatProperties
      <3> QED BY <1>3, <1>4, <2>1, <3>2
    <2>3. DOMAIN callbacks' = 1 .. m + n
      BY <2>2
    <2>4. ASSUME NEW i \in 1 .. m
          PROVE  callbacks'[i] = callbacks[i]
      BY <1>1, <1>3, <1>4, <2>1, ConcatProperties
    <2>5. ASSUME NEW i \in m + 1 .. m + n
          PROVE  callbacks'[i] = answer
      <3>1. callbacks'[i] = new[i - m]
        BY <1>1, <1>3, <1>4, <2>1, ConcatProperties
      <3>2. i - m \in 1 .. n
        BY <1>1
      <3> QED BY <1>3, <3>1, <3>2
    <2> QED BY <2>2, <2>3, <2>4, <2>5
  <1>7. UNCHANGED <<documents, queued, alerts, announced, confirmed, originalBooks, books,
                    filterGrade, failed>>
    BY DEF form, list
  <1>8. Stored'
    BY <1>7 DEF ListInv, Stored
  <1>9. AnswersGrow'
    <2>1. \A i \in 1 .. m + n : i \in 1 .. m \/ i \in m + 1 .. m + n
      BY <1>1
    <2>2. ASSUME NEW i \in DOMAIN callbacks'
          PROVE  /\ callbacks'[i].known \subseteq callbacks'[i].found
                 /\ callbacks'[i].known \subseteq cache'
                 /\ ~ callbacks'[i].ok => callbacks'[i].known = {}
                 /\ callbacks'[i].ok
                      => confirmed \subseteq callbacks'[i].known \cup callbacks'[i].lost
      <3>1. CASE i \in 1 .. m
        BY <1>1, <1>5, <3>1 DEF ListInv, AnswersGrow
      <3>2. CASE i \in m + 1 .. m + n
        BY <1>5, <3>2
      <3> QED BY <1>5, <2>1, <3>1, <3>2
    <2>3. ASSUME NEW i \in DOMAIN callbacks', NEW j \in DOMAIN callbacks',
                 i < j, callbacks'[i].ok, callbacks'[j].ok
          PROVE  callbacks'[i].known \subseteq callbacks'[j].known \cup callbacks'[j].lost
      <3>1. CASE j \in 1 .. m
        <4>1. i \in 1 .. m
          BY <1>1, <1>5, <2>3, <3>1
        <4> QED BY <1>1, <1>5, <2>3, <3>1, <4>1 DEF ListInv, AnswersGrow
      <3>2. CASE j \in m + 1 .. m + n /\ i \in 1 .. m
        <4>1. callbacks'[i].known \subseteq cache
          BY <1>1, <1>5, <3>2 DEF ListInv, AnswersGrow
        <4> QED BY <1>5, <2>3, <3>2, <4>1
      <3>3. CASE j \in m + 1 .. m + n /\ i \in m + 1 .. m + n
        BY <1>5, <3>3
      <3> QED BY <1>5, <2>1, <3>1, <3>2, <3>3
    <2>4. fetches' = <<>> /\ confirmed \subseteq cache' \cup collected'
      BY <1>4 DEF ListInv, AnswersGrow
    <2> QED BY <1>5, <1>7, <2>2, <2>3, <2>4 DEF ListInv, AnswersGrow
  <1>10. AnnouncedComes'
    <2>1. LastAnswer' = answer
      BY <1>1, <1>5 DEF LastAnswer
    <2>2. callbacks' # <<>>
      BY <1>1, <1>5
    <2>3. announced \subseteq cache \cup collected
      BY DEF ListInv, Stored
    <2> QED BY <1>7, <2>1, <2>2, <2>3 DEF AnnouncedComes
  <1>11. ListIsView'
    BY <1>7 DEF ListInv, ListIsView
  <1>12. fetches' \in Seq(Documents)
    BY <1>4
  <1> QED BY <1>7, <1>8, <1>9, <1>10, <1>11, <1>12 DEF ListInv

LEMMA CallbackStep ==
    ASSUME ListInv, Callback
    PROVE  /\ ListInv'
           /\ \/ confirmed \subseteq Listed(originalBooks)'
              \/ confirmed \ Listed(originalBooks)' \subseteq Head(callbacks).lost
  <1> DEFINE answer == callbacks[1]
             m == Len(callbacks)
  <1>1. /\ callbacks # <<>> /\ callbacks' = Tail(callbacks) /\ Head(callbacks) = answer
        /\ UNCHANGED <<documents, cache, queued, collected, alerts, announced, fetches, filterGrade>>
    BY DEF Callback, cloud, form
  <1>2. /\ callbacks \in Seq(Answers) /\ m \in Nat /\ m > 0 /\ answer \in Answers /\ 1 \in DOMAIN callbacks
        /\ DOMAIN callbacks = 1 .. m
    BY <1>1 DEF ListInv, AnswersGrow
  <1>3. /\ callbacks' \in Seq(Answers) /\ Len(callbacks') = m - 1 /\ DOMAIN callbacks' = 1 .. m - 1
        /\ \A i \in 1 .. m - 1 : callbacks'[i] = callbacks[i + 1] /\ i + 1 \in DOMAIN callbacks
    <2>1. Tail(callbacks) \in Seq(Answers) /\ Len(Tail(callbacks)) = m - 1
      BY <1>1, <1>2
    <2>2. \A i \in 1 .. m - 1 : Tail(callbacks)[i] = callbacks[i + 1] /\ i + 1 \in 1 .. m
      BY <1>1, <1>2
    <2> HIDE DEF m
    <2> QED BY <1>1, <1>2, <2>1, <2>2
  <1>4. /\ answer.known \subseteq answer.found /\ answer.known \subseteq cache
        /\ answer.found \subseteq Ids
        /\ ~ answer.ok => answer.known = {}
        /\ answer.ok => confirmed \subseteq answer.known \cup answer.lost
    <2>1. answer.found \subseteq Ids
      BY <1>2 DEF Answers, Documents
    <2> QED BY <1>2, <2>1 DEF ListInv, AnswersGrow
  <1>5. UNCHANGED <<documents, cache, queued, collected, alerts, announced, fetches>>
    BY <1>1
  <1>6. Stored'
    BY <1>5 DEF ListInv, Stored
  <1>7. /\ answer.ok => /\ originalBooks' = Ascending(answer.found) /\ books' = originalBooks'
                        /\ confirmed' = answer.known /\ failed' = failed
        /\ ~ answer.ok => /\ failed' = TRUE /\ originalBooks' = originalBooks /\ books' = books
                          /\ confirmed' = confirmed
    BY <1>1 DEF Callback
  <1> HIDE DEF answer, m
  <1>8. answer.ok => Listed(originalBooks)' = answer.found
    <2>1. answer.found \in SUBSET Int /\ IsFiniteSet(answer.found)
      <3>1. IsFiniteSet(Ids) /\ Ids \subseteq Int
        BY LibraryConstants
      <3> QED BY <1>4, <3>1, FS_Subset
    <2>2. Listed(Ascending(answer.found)) = answer.found
      BY <2>1, Ascends
    <2> QED BY <1>7, <2>2
  <1>9. ~ answer.ok => Listed(originalBooks)' = Listed(originalBooks)
    BY <1>7
  <1>10. \/ confirmed \subseteq Listed(originalBooks)'
         \/ confirmed \ Listed(originalBooks)' \subseteq answer.lost
    <2>1. CASE answer.ok
      BY <1>4, <1>8, <2>1
    <2>2. CASE ~ answer.ok
      BY <1>9, <2>2 DEF ListInv, AnswersGrow
    <2> QED BY <2>1, <2>2
  <1>11. Listed(originalBooks)' \subseteq Ids
    BY <1>4, <1>8, <1>9 DEF ListInv
  <1>12. /\ confirmed' \subseteq cache' \cup collected' /\ confirmed' \subseteq Listed(originalBooks)'
         /\ fetches' # <<>> => confirmed' \subseteq fetches'[1] \cup cache'
    <2>1. CASE answer.ok
      BY <1>4, <1>5, <1>7, <1>8, <2>1
    <2>2. CASE ~ answer.ok
      BY <1>5, <1>7, <1>9, <2>2 DEF ListInv, AnswersGrow
    <2> QED BY <2>1, <2>2
  <1>13. ListIsView'
    BY <1>1, <1>7 DEF ListInv, ListIsView
  <1>14. AnswersGrow'
    <2>1. ASSUME NEW i \in DOMAIN callbacks'
          PROVE  /\ callbacks'[i].known \subseteq callbacks'[i].found
                 /\ callbacks'[i].known \subseteq cache'
                 /\ ~ callbacks'[i].ok => callbacks'[i].known = {}
                 /\ callbacks'[i].ok
                      => confirmed' \subseteq callbacks'[i].known \cup callbacks'[i].lost
      <3>1. callbacks'[i] = callbacks[i + 1] /\ i + 1 \in DOMAIN callbacks /\ i + 1 > 1
        BY <1>2, <1>3
      <3>2. callbacks[i + 1].ok /\ answer.ok
              => answer.known \subseteq callbacks[i + 1].known \cup callbacks[i + 1].lost
        BY <1>2, <3>1 DEF ListInv, AnswersGrow, answer
      <3> QED BY <1>5, <1>7, <3>1, <3>2 DEF ListInv, AnswersGrow
    <2>2. ASSUME NEW i \in DOMAIN callbacks', NEW j \in DOMAIN callbacks',
                 i < j, callbacks'[i].ok, callbacks'[j].ok
          PROVE  callbacks'[i].known \subseteq callbacks'[j].known \cup callbacks'[j].lost
      <3>1. i + 1 \in DOMAIN callbacks /\ j + 1 \in DOMAIN callbacks /\ i + 1 < j + 1
        BY <1>2, <1>3, <2>2
      <3> QED BY <1>3, <2>2, <3>1 DEF ListInv, AnswersGrow
    <2> QED BY <1>3, <1>12, <2>1, <2>2 DEF AnswersGrow
  <1>15. AnnouncedComes'
    <2> SUFFICES ASSUME fetches' = <<>>
                 PROVE  /\ callbacks' # <<>> /\ LastAnswer'.ok
                             => announced' \subseteq LastAnswer'.known \cup collected'
                        /\ callbacks' = <<>> /\ ~failed'
                             => announced' \subseteq Listed(originalBooks)' \cup collected'
      BY DEF AnnouncedComes
    <2>1. LastAnswer.ok => announced \subseteq LastAnswer.known \cup collected
      BY <1>1 DEF ListInv, AnnouncedComes
    <2>2. CASE m = 1
      <3>1. callbacks' = <<>> /\ LastAnswer = answer
        BY <1>3, <2>2 DEF LastAnswer, answer, m
      <3> QED BY <1>4, <1>5, <1>7, <1>8, <2>1, <3>1
    <2>3. CASE m > 1
      <3>1. callbacks' # <<>> /\ LastAnswer' = LastAnswer
        <4>1. m - 1 \in 1 .. m - 1 /\ (m - 1) + 1 = m
          BY <1>2, <2>3
        <4>2. callbacks'[m - 1] = callbacks[m]
          BY <1>3, <4>1
        <4> QED BY <1>3, <4>1, <4>2 DEF LastAnswer, m
      <3> QED BY <1>5, <2>1, <3>1
    <2> QED BY <1>2, <2>2, <2>3
  <1> QED BY <1>1, <1>6, <1>10, <1>11, <1>13, <1>14, <1>15 DEF ListInv

\* Steps that leave lists, fetches and answers alone; the cache may grow.
LEMMA QuietStep ==
    ASSUME ListInv, Stored', cache \subseteq cache',
           UNCHANGED <<fetches, callbacks, originalBooks, books, filterGrade, confirmed, announced,
                       failed, collected>>
    PROVE  ListInv'
  <1>1. AnswersGrow'
    BY DEF ListInv, AnswersGrow
  <1> QED BY <1>1 DEF ListInv, AnnouncedComes, LastAnswer, ListIsView

\* The collection finds no fetch, and no answer that holds a document.
LEMMA CollectionStep ==
    ASSUME ListInv, RemoveOrphanedDocuments
    PROVE  ListInv'
  <1>1. PICK orphans \in SUBSET (cache \ queued) :
           cache' = cache \ orphans /\ collected' = collected \cup orphans
    BY DEF RemoveOrphanedDocuments
  <1>2. /\ UNCHANGED <<documents, queued, fetches, callbacks, alerts, originalBooks, books,
                       filterGrade, announced, failed, confirmed>>
        /\ fetches = <<>>
    BY DEF RemoveOrphanedDocuments, calls, form, list
  <1>3. \A i \in DOMAIN callbacks : ~ callbacks[i].ok /\ callbacks[i].known = {}
    BY DEF RemoveOrphanedDocuments, Attached, ListInv, AnswersGrow
  <1>4. Stored'
    BY <1>1, <1>2 DEF ListInv, Stored
  <1>5. AnswersGrow'
    BY <1>1, <1>2, <1>3 DEF ListInv, AnswersGrow
  <1>6. AnnouncedComes'
    <2>1. callbacks # <<>> => ~ LastAnswer.ok
      <3>1. callbacks \in Seq(Answers)
        BY DEF ListInv, AnswersGrow
      <3>2. callbacks # <<>> => Len(callbacks) \in DOMAIN callbacks
        BY <3>1
      <3> QED BY <1>3, <3>2 DEF LastAnswer
    <2>2. LastAnswer' = LastAnswer
      BY <1>2 DEF LastAnswer
    <2> QED BY <1>1, <1>2, <2>1, <2>2 DEF ListInv, AnnouncedComes
  <1> QED BY <1>2, <1>4, <1>5, <1>6 DEF ListInv, ListIsView

LEMMA ListCleared ==
    ASSUME Stored', callbacks' = <<>>, fetches' = <<documents>>, documents \in Documents,
           originalBooks' = <<>>, books' = <<>>, confirmed' = {}
    PROVE  ListInv'
  <1>1. fetches' \in Seq(Documents) /\ fetches' # <<>>
    OBVIOUS
  <1>2. DOMAIN callbacks' = {} /\ callbacks' \in Seq(Answers)
    OBVIOUS
  <1>3. Listed(originalBooks)' = {}
    BY ListedNothing
  <1>4. AnswersGrow'
    BY <1>2, <1>3 DEF AnswersGrow
  <1> QED BY <1>1, <1>3, <1>4 DEF ListInv, AnnouncedComes, ListIsView

LEMMA AnswerStep ==
    ASSUME ListInv, AnswerFromServer \/ AnswerFromCache \/ AnswerError
    PROVE  ListInv'
  <1>1. /\ cache \in Documents /\ queued \in Documents /\ documents \in Documents
        /\ cache \subseteq documents /\ collected \subseteq documents \ (cache \cup queued)
        /\ confirmed \subseteq cache \cup collected /\ collected \in Documents
    BY DEF ListInv, Stored, AnswersGrow, Documents
  <1>2. ASSUME NEW known \in Documents, NEW lost \in Documents
        PROVE  /\ Answer(known, lost) \in Answers
               /\ Answer(known, lost).ok = TRUE /\ Answer(known, lost).known = known
               /\ Answer(known, lost).lost = lost /\ known \subseteq Answer(known, lost).found
    <2>1. known \cup queued \in Documents
      BY <1>1 DEF Documents
    <2> HIDE DEF Documents
    <2> QED BY <2>1 DEF Answer, Answers
  <1>3. CASE AnswerFromServer
    <2>1. PICK S \in SUBSET documents :
             /\ cache \subseteq S
             /\ ~Attached => fetches[1] \subseteq S
             /\ Raise(Answer(S, IF Attached THEN collected \ S ELSE {}))
             /\ cache' = S
             /\ collected' = collected \ S
      BY <1>3 DEF AnswerFromServer
    <2>2. UNCHANGED <<documents, queued, form, list, announced, failed, confirmed>>
      BY <1>3 DEF AnswerFromServer
    <2>3. PICK lost \in Documents : lost = IF Attached THEN collected \ S ELSE {}
      BY <1>1 DEF Documents
    <2>4. S \in Documents /\ fetches # <<>>
      BY <1>1, <2>1 DEF Documents, Raise
    <2>5. confirmed \subseteq S \cup lost
      <3>1. CASE Attached
        BY <1>1, <2>1, <2>3, <3>1
      <3>2. CASE ~Attached
        BY <2>1, <2>4, <3>2 DEF ListInv, AnswersGrow
      <3> QED BY <3>1, <3>2
    <2>6. Raise(Answer(S, lost))
      BY <2>1, <2>3
    <2>7. PICK answer \in Answers : answer = Answer(S, lost)
      BY <1>2, <2>4
    <2>8. /\ answer.ok = TRUE /\ answer.known = S /\ answer.lost = lost
          /\ answer.known \subseteq answer.found
      BY <1>2, <2>4, <2>7
    <2>9. Raise(answer)
      BY <2>6, <2>7
    <2>10. /\ cache' = S /\ cache \subseteq S /\ S \subseteq documents
           /\ collected' = collected \ S
      BY <2>1
    <2>11. /\ collected' \subseteq documents \ (cache' \cup queued)
           /\ cache \cup collected \subseteq S \cup collected'
      BY <1>1, <2>10
    <2> QED BY <2>2, <2>5, <2>8, <2>9, <2>10, <2>11, RaiseStep, SMTT(30)
  <1>4. CASE AnswerFromCache
    <2>1. /\ UNCHANGED <<documents, queued, cache, collected, form, list, announced, failed,
                         confirmed>>
          /\ Raise(Answer(cache, collected))
      BY <1>4 DEF AnswerFromCache, cloud, notes
    <2>2. cache \in Documents /\ collected \in Documents
      BY <1>1
    <2>3. PICK answer \in Answers : answer = Answer(cache, collected)
      BY <1>2, <2>2
    <2>4. /\ answer.ok = TRUE /\ answer.known = cache /\ answer.lost = collected
          /\ answer.known \subseteq answer.found
      BY <1>2, <2>2, <2>3
    <2>5. Raise(answer)
      BY <2>1, <2>3
    <2> QED BY <1>1, <2>1, <2>4, <2>5, RaiseStep, SMTT(30)
  <1>5. CASE AnswerError
    <2>1. /\ UNCHANGED <<documents, queued, cache, collected, form, list, announced, failed,
                         confirmed>>
          /\ Raise(Error)
      BY <1>5 DEF AnswerError, cloud, notes
    <2>2. /\ Error \in Answers /\ ~ Error.ok /\ Error.known = {} /\ Error.found = {}
      BY DEF Error, Answers, Documents
    <2>3. PICK answer \in Answers : answer = Error
      BY <2>2
    <2> QED BY <1>1, <2>1, <2>2, <2>3, RaiseStep, SMTT(30)
  <1> QED BY <1>3, <1>4, <1>5

LEMMA UploadCompletedStep ==
    ASSUME ListInv, UploadCompleted
    PROVE  ListInv'
  <1>1. /\ \E id \in alerts : announced' = announced \cup {id}
        /\ fetches' = Append(fetches, documents) /\ alerts' = {}
        /\ UNCHANGED <<documents, cache, queued, callbacks, originalBooks, books, filterGrade,
                       confirmed, collected>>
    BY DEF UploadCompleted, GetTextBooks, ReleaseForm, cloud, list
  <1>2. Stored'
    BY <1>1 DEF ListInv, Stored
  <1>3. fetches' \in Seq(Documents) /\ fetches' # <<>>
    BY <1>1, AppendProperties DEF ListInv, Stored, Documents
  <1>4. AnswersGrow'
    <2>1. confirmed \subseteq fetches'[1] \cup cache
      <3>1. fetches \in Seq(Documents) /\ documents \in Documents
        BY DEF ListInv, Stored, Documents
      <3> HIDE DEF Documents
      <3>2. CASE fetches = <<>>
        <4>1. fetches'[1] = documents
          BY <1>1, <3>2
        <4> QED BY <4>1 DEF ListInv, AnswersGrow, Stored
      <3>3. CASE fetches # <<>>
        <4>1. Len(fetches) \in Nat /\ Len(fetches) >= 1
          BY <3>1, <3>3, EmptySeq, LenProperties
        <4>2. fetches'[1] = fetches[1]
          BY <1>1, <3>1, <4>1, AppendProperties
        <4> QED BY <3>3, <4>2 DEF ListInv, AnswersGrow
      <3> QED BY <3>2, <3>3
    <2> QED BY <1>1, <2>1 DEF ListInv, AnswersGrow
  <1>5. ListIsView'
    BY <1>1 DEF ListInv, ListIsView
  <1> QED BY <1>1, <1>2, <1>3, <1>4, <1>5 DEF ListInv, AnnouncedComes

LEMMA DoneStep ==
    ASSUME ListInv, DoneButtonTapped
    PROVE  ListInv'
  <1>1. /\ UNCHANGED <<documents, cache, queued, fetches, callbacks, alerts, originalBooks, failed,
                       announced, confirmed, collected>>
        /\ filterGrade' = ChosenGrade
        /\ books' = IF ChosenGrade = NoGrade THEN originalBooks
                    ELSE OfGrade(ChosenGrade, originalBooks)
    BY DEF DoneButtonTapped, ShowBooksFor, cloud, calls, form, notes
  <1>2. Stored' /\ AnswersGrow' /\ AnnouncedComes'
    BY <1>1 DEF ListInv, Stored, AnswersGrow, AnnouncedComes, LastAnswer
  <1>3. ListIsView'
    BY <1>1 DEF ListIsView
  <1> QED BY <1>1, <1>2, <1>3 DEF ListInv

LEMMA RelaunchStep ==
    ASSUME ListInv, Relaunch
    PROVE  ListInv'
  <1>1. /\ UNCHANGED <<documents, cache, queued, announced, collected>> /\ alerts' = {}
        /\ callbacks' = <<>> /\ fetches' = <<documents>> /\ originalBooks' = <<>>
        /\ books' = <<>> /\ confirmed' = {}
    BY DEF Relaunch, cloud
  <1>2. Stored' /\ documents \in Documents
    BY <1>1 DEF ListInv, Stored, Documents
  <1> QED BY <1>1, <1>2, ListCleared

LEMMA ListStep ==
    ASSUME ListInv, [Next]_vars
    PROVE  ListInv'
  <1>1. CASE Callback
    BY <1>1, CallbackStep
  <1>2. CASE AnswerFromServer \/ AnswerFromCache \/ AnswerError
    BY <1>2, AnswerStep
  <1>3. CASE OpenFilter \/ UseFilter \/ Dismiss \/ OpenForm \/ SwitchNetwork \/ UNCHANGED vars
    <2>1. UNCHANGED <<cloud, calls, form, list, notes>>
      BY <1>3 DEF OpenFilter, UseFilter, Dismiss, OpenForm, SwitchNetwork, vars
    <2>2. Stored'
      BY <2>1 DEF ListInv, Stored, cloud, form, notes
    <2> QED BY <2>1, <2>2, QuietStep DEF cloud, calls, form, list, notes
  <1>4. CASE LeaveForm \/ AddDocument \/ Commit \/ Reject
    <2>1. /\ UNCHANGED <<calls, list, notes>>
          /\ cache' = cache /\ documents \subseteq documents' /\ documents' \subseteq documents \cup Ids
          /\ queued' \subseteq queued \cup (Ids \ documents) /\ alerts' \subseteq alerts
      BY <1>4, LibraryConstants
         DEF LeaveForm, ReleaseForm, AddDocument, Commit, Reject, cloud, form, ListInv, Stored
    <2>2. Stored'
      BY <2>1 DEF ListInv, Stored, notes
    <2> QED BY <2>1, <2>2, QuietStep DEF calls, list, notes
  <1>5. CASE Ack
    <2>1. PICK id \in queued \cap documents :
             /\ queued' = queued \ {id}
             /\ cache' = cache \cup {id}
             /\ alerts' = alerts \cup ({id} \cap added)
      BY <1>5 DEF Ack
    <2>2. UNCHANGED <<documents, calls, list, notes>>
      BY <1>5 DEF Ack
    <2>3. Stored'
      BY <2>1, <2>2 DEF ListInv, Stored, notes
    <2> QED BY <2>1, <2>2, <2>3, QuietStep DEF calls, list, notes
  <1>6. CASE Relaunch
    BY <1>6, RelaunchStep
  <1>7. CASE DoneButtonTapped
    BY <1>7, DoneStep
  <1>8. CASE UploadCompleted
    BY <1>8, UploadCompletedStep
  <1>9. CASE RemoveOrphanedDocuments
    BY <1>9, CollectionStep
  <1> QED BY <1>1, <1>2, <1>3, <1>4, <1>5, <1>6, <1>7, <1>8, <1>9 DEF Next

-----------------------------------------------------------------------------
(* The types of the list.                                                  *)

\* What the closure of filter keeps, it keeps in order.
LEMMA FilterKeepsOrder ==
    ASSUME NEW books_ \in Seq(Ids), Ordered(books_), NEW grade
    PROVE  OfGrade(grade, books_) \in Seq(Ids) /\ Ordered(OfGrade(grade, books_))
  <1> DEFINE K    == {i \in DOMAIN books_ : GradeOf[books_[i]] = grade}
             kept == Ascending(K)
             l    == Len(kept)
             some == [n \in DOMAIN kept |-> books_[kept[n]]]
  <1>1. Len(books_) \in Nat /\ DOMAIN books_ = 1 .. Len(books_)
    BY LenProperties
  <1>2. K \subseteq 1 .. Len(books_) /\ K \subseteq Int /\ K \subseteq DOMAIN books_
    BY <1>1
  <1>3. IsFiniteSet(K)
    <2>1. IsFiniteSet(1 .. Len(books_))
      BY <1>1, FS_Interval
    <2> HIDE DEF K
    <2> QED BY <1>2, <2>1, FS_Subset
  <1> HIDE DEF K
  <1>4. kept \in Seq(K) /\ Ordered(kept)
    BY <1>2, <1>3, Ascends
  <1> HIDE DEF kept
  <1>5. l \in Nat /\ DOMAIN kept = 1 .. l /\ \A n \in 1 .. l : kept[n] \in K
    BY <1>4, LenProperties, ElementOfSeq
  <1> HIDE DEF l
  <1>6. \A n \in 1 .. l : kept[n] \in DOMAIN books_ /\ books_[kept[n]] \in Ids
    BY <1>1, <1>2, <1>5, ElementOfSeq
  <1>7. /\ DOMAIN some = 1 .. l
        /\ \A n \in 1 .. l : some[n] = books_[kept[n]]
    BY <1>5
  <1>8. some \in Seq(Ids)
    <2>1. some \in [1 .. l -> Ids]
      BY <1>5, <1>6
    <2> HIDE DEF some
    <2> QED BY <1>5, <2>1
  <1>9. Ordered(some)
    <2> HIDE DEF some
    <2> SUFFICES ASSUME NEW i \in 1 .. l, NEW j \in 1 .. l, i < j
                 PROVE  some[i] < some[j]
      BY <1>7 DEF Ordered
    <2>1. kept[i] < kept[j]
      BY <1>4, <1>5 DEF Ordered
    <2> QED BY <1>6, <1>7, <2>1 DEF Ordered
  <1> QED BY <1>8, <1>9 DEF OfGrade, some, kept, K

ListTyped ==
    /\ originalBooks \in Seq(Ids) /\ Ordered(originalBooks)
    /\ books \in Seq(Ids) /\ Ordered(books)
    /\ filterGrade \in Grades \cup {NoGrade}

FetchesTyped == \A i \in DOMAIN fetches : fetches[i] \subseteq documents

FormTyped ==
    /\ scene \in {"list", "filter", "form"}
    /\ queued \subseteq Mine /\ added \subseteq Mine /\ announced \subseteq Mine
    /\ alerts \subseteq added

\* The list is only replaced by an answer or by what the filter lets through.
LEMMA ListTypedStep ==
    ASSUME ListInv, TableInv, ListTyped, [Next]_vars
    PROVE  ListTyped'
  <1>1. CASE UNCHANGED list
    BY <1>1 DEF list, ListTyped, Ordered
  <1>2. CASE Relaunch
    <2>1. <<>> \in Seq(Ids) /\ DOMAIN <<>> = {}
      OBVIOUS
    <2> QED BY <1>2, <2>1 DEF Relaunch, ListTyped, Ordered
  <1>3. CASE Callback
    <2> DEFINE S == callbacks[1].found
    <2>1. CASE callbacks[1].ok
      <3>1. callbacks \in Seq(Answers) /\ callbacks # <<>>
        BY <1>3 DEF Callback, ListInv, AnswersGrow
      <3>2. callbacks[1] \in Answers /\ Head(callbacks) = callbacks[1]
        BY <3>1, EmptySeq, LenProperties, ElementOfSeq, HeadTailProperties
      <3>3. S \subseteq Ids /\ S \in SUBSET Int /\ IsFiniteSet(S)
        <4>1. S \subseteq Ids
          BY <3>2 DEF Answers, Documents
        <4>2. Ids \subseteq Int /\ IsFiniteSet(Ids)
          BY LibraryConstants
        <4> QED BY <4>1, <4>2, FS_Subset
      <3>4. originalBooks' = Ascending(S) /\ books' = Ascending(S) /\ filterGrade' = filterGrade
        BY <1>3, <2>1, <3>2 DEF Callback
      <3> HIDE DEF S
      <3>5. Ascending(S) \in Seq(S) /\ Ordered(Ascending(S))
        BY <3>3, Ascends
      <3>6. Ascending(S) \in Seq(Ids)
        BY <3>3, <3>5, SeqMonotonic
      <3> QED BY <3>4, <3>5, <3>6 DEF ListTyped, Ordered
    <2>2. CASE ~ callbacks[1].ok
      <3>1. Head(callbacks) = callbacks[1]
        OBVIOUS
      <3>2. UNCHANGED <<originalBooks, books, filterGrade>>
        BY <1>3, <2>2, <3>1 DEF Callback
      <3> QED BY <3>2 DEF ListTyped, Ordered
    <2> QED BY <2>1, <2>2
  <1>4. CASE DoneButtonTapped
    <2>1. /\ originalBooks' = originalBooks /\ filterGrade' = ChosenGrade
          /\ books' = IF ChosenGrade = NoGrade THEN originalBooks
                      ELSE OfGrade(ChosenGrade, originalBooks)
      BY <1>4 DEF DoneButtonTapped, ShowBooksFor
    <2>2. ChosenGrade \in Grades \cup {NoGrade}
      <3>1. grades \in Seq(Grades) /\ selected \in {0} \cup DOMAIN grades
        BY DEF TableInv, RowsFine
      <3>2. \A i \in DOMAIN grades : grades[i] \in Grades
        BY <3>1, LenProperties, ElementOfSeq
      <3> QED BY <3>1, <3>2 DEF ChosenGrade
    <2>3. books' \in Seq(Ids) /\ Ordered(books')
      BY <2>1, FilterKeepsOrder DEF ListTyped
    <2> QED BY <2>1, <2>2, <2>3 DEF ListTyped, Ordered
  <1> QED BY <1>1, <1>2, <1>3, <1>4
          DEF Next, vars, list, OpenFilter, UseFilter, Dismiss, AnswerFromServer, AnswerFromCache,
              AnswerError, RemoveOrphanedDocuments, OpenForm, LeaveForm, AddDocument, UploadCompleted, Commit, Ack, Reject,
              SwitchNetwork

\* A fetch saw what there was then, and nothing is ever removed.
LEMMA FetchesTypedStep ==
    ASSUME ListInv, FetchesTyped, [Next]_vars
    PROVE  FetchesTyped'
  <1>1. documents \subseteq documents'
    BY DEF Next, vars, cloud, Relaunch, OpenFilter, UseFilter, DoneButtonTapped, Dismiss,
           AnswerFromServer, AnswerFromCache, AnswerError, RemoveOrphanedDocuments, Callback, OpenForm, LeaveForm,
           AddDocument, UploadCompleted, Commit, Ack, Reject, SwitchNetwork
  <1>2. CASE UNCHANGED fetches
    BY <1>1, <1>2 DEF FetchesTyped
  <1>3. CASE fetches' = <<>>
    BY <1>3 DEF FetchesTyped
  <1>4. CASE Relaunch
    <2>1. fetches' = <<documents>>
      BY <1>4 DEF Relaunch
    <2> QED BY <1>1, <2>1 DEF FetchesTyped
  <1>5. CASE UploadCompleted
    <2>1. fetches \in Seq(Documents) /\ documents \in Documents
      BY DEF ListInv, Stored, Documents
    <2>2. fetches' = Append(fetches, documents)
      BY <1>5 DEF UploadCompleted, GetTextBooks
    <2> HIDE DEF Documents
    <2>3. /\ DOMAIN fetches' = 1 .. Len(fetches) + 1 /\ fetches'[Len(fetches) + 1] = documents
          /\ \A i \in 1 .. Len(fetches) : fetches'[i] = fetches[i]
          /\ Len(fetches) \in Nat /\ DOMAIN fetches = 1 .. Len(fetches)
      BY <2>1, <2>2, AppendProperties, LenProperties
    <2> QED BY <1>1, <2>3 DEF FetchesTyped
  <1> QED BY <1>2, <1>3, <1>4, <1>5
          DEF Next, vars, calls, OpenFilter, UseFilter, DoneButtonTapped, Dismiss, Raise,
              AnswerFromServer, AnswerFromCache, AnswerError, RemoveOrphanedDocuments, Callback, OpenForm, LeaveForm,
              AddDocument, Commit, Ack, Reject, SwitchNetwork

\* The form only knows of what it added, and only adds the device's own books.
LEMMA FormTypedStep ==
    ASSUME FormTyped, [Next]_vars
    PROVE  FormTyped'
  <1>1. CASE UNCHANGED <<queued, added, alerts, announced>>
    <2>1. scene' \in {"list", "filter", "form"}
      BY DEF FormTyped, Next, vars, Relaunch, OpenFilter, UseFilter, DoneButtonTapped, Dismiss,
             AnswerFromServer, AnswerFromCache, AnswerError, RemoveOrphanedDocuments, Callback, OpenForm, LeaveForm,
             ReleaseForm, AddDocument, UploadCompleted, Commit, Ack, Reject, SwitchNetwork
    <2> QED BY <1>1, <2>1 DEF FormTyped
  <1>2. CASE Relaunch \/ LeaveForm
    BY <1>2 DEF FormTyped, Relaunch, LeaveForm, ReleaseForm, cloud, notes
  <1>3. CASE AddDocument
    BY <1>3 DEF FormTyped, AddDocument, notes
  <1>4. CASE UploadCompleted
    BY <1>4 DEF FormTyped, UploadCompleted, ReleaseForm, cloud
  <1>5. CASE Ack \/ Reject
    BY <1>5 DEF FormTyped, Ack, Reject, form, notes
  <1> QED BY <1>1, <1>2, <1>3, <1>4, <1>5
          DEF Next, vars, cloud, form, notes, OpenFilter, UseFilter, DoneButtonTapped, Dismiss,
              AnswerFromServer, AnswerFromCache, AnswerError, RemoveOrphanedDocuments, Callback, OpenForm, Commit,
              SwitchNetwork

-----------------------------------------------------------------------------
(* The theorems.                                                           *)

LibraryInv == ListInv /\ TableInv /\ FilterInStep /\ ListTyped /\ FetchesTyped /\ FormTyped

LEMMA LibraryInvariance == Spec => []LibraryInv
  <1>1. Init => LibraryInv
    <2> SUFFICES ASSUME Init
                 PROVE  ListInv /\ TableInv /\ FilterInStep /\ ListTyped /\ FetchesTyped /\ FormTyped
      BY DEF LibraryInv
    <2>1. TableInv
      BY TableCleared DEF Init, TableInit
    <2>2. Stored
      BY LibraryConstants DEF Init, Stored
    <2>3. fetches \in Seq(Documents) /\ fetches # <<>>
      BY DEF Init, Documents
    <2>4. DOMAIN callbacks = {} /\ callbacks \in Seq(Answers)
      BY DEF Init
    <2>5. Listed(originalBooks) = {}
      BY ListedNothing DEF Init
    <2>6. AnswersGrow
      BY <2>4, <2>5 DEF Init, AnswersGrow
    <2>7. ListInv
      BY <2>2, <2>3, <2>5, <2>6 DEF Init, ListInv, AnnouncedComes, ListIsView
    <2>8. ListTyped
      <3>1. <<>> \in Seq(Ids) /\ DOMAIN <<>> = {}
        OBVIOUS
      <3> QED BY <3>1 DEF Init, ListTyped, Ordered
    <2>9. FetchesTyped
      <3>1. fetches = <<documents>>
        BY DEF Init
      <3> QED BY <3>1 DEF FetchesTyped
    <2>10. FormTyped
      BY DEF Init, FormTyped
    <2>11. FilterInStep
      BY DEF Init, FilterInStep
    <2> QED BY <2>1, <2>7, <2>8, <2>9, <2>10, <2>11
  <1>2. LibraryInv /\ [Next]_vars => LibraryInv'
    <2> SUFFICES ASSUME ListInv, TableInv, FilterInStep, ListTyped, FetchesTyped, FormTyped,
                        [Next]_vars
                 PROVE  LibraryInv'
      BY DEF LibraryInv
    <2>1. Listed(originalBooks) \subseteq Ids
      BY DEF ListInv
    <2>2. ListInv' /\ TableInv' /\ FilterInStep'
      BY <2>1, ListStep, TableStep, FilterStep
    <2>3. ListTyped' /\ FetchesTyped' /\ FormTyped'
      BY ListTypedStep, FetchesTypedStep, FormTypedStep
    <2> QED BY <2>2, <2>3 DEF LibraryInv
  <1> QED BY <1>1, <1>2, PTL DEF Spec

\* Every state is well typed; in particular the list and what the filter shows
\* of it are always in the order of the IDs and without duplicates, and the rows
\* of the filter ascend.
THEOREM LibraryTyped == Spec => []TypeOK
  <1>1. LibraryInv => TypeOK
    <2> SUFFICES ASSUME LibraryInv PROVE TypeOK
      OBVIOUS
    <2>1. SelectionInStep /\ selected \in {0} \cup DOMAIN grades /\ grades \in Seq(Grades)
      BY DEF LibraryInv, TableInv, RowsFine
    <2>2. previous \in 0 .. Len(grades) /\ selected \in 0 .. Len(grades)
      <3>1. Len(grades) \in Nat /\ DOMAIN grades = 1 .. Len(grades)
        BY <2>1, LenProperties
      <3> QED BY <2>1, <3>1 DEF SelectionInStep
    <2>3. \A i \in DOMAIN callbacks : callbacks[i].found \subseteq Ids
      <3>1. callbacks \in Seq(Answers)
        BY DEF LibraryInv, ListInv, AnswersGrow
      <3>2. \A i \in DOMAIN callbacks : callbacks[i] \in Answers
        BY <3>1, LenProperties, ElementOfSeq
      <3> QED BY <3>2 DEF Answers, Documents
    <2> QED BY <2>2, <2>3 DEF LibraryInv, TypeOK, ListInv, Stored, AnswersGrow, TableInv, RowsFine,
                          ListTyped, FetchesTyped, FormTyped
  <1> QED BY <1>1, LibraryInvariance, PTL

\* The controller's and the table's idea of the selected row agree, whatever is
\* tapped and scrolled.
THEOREM SelectionsAgree == Spec => []SelectionInStep
  <1>1. LibraryInv => SelectionInStep
    BY DEF LibraryInv, TableInv
  <1> QED BY <1>1, LibraryInvariance, PTL

\* When all rows fit, Done changes the filter only to a grade whose row has a
\* checkmark, or to none, for any grades, taps and returns of the sheet.
THEOREM ChangesShown == Spec => ChangesAreTicked
  <1> DEFINE A == filterGrade' # filterGrade /\ Len(grades) <= Window
                    => \/ filterGrade' = NoGrade
                       \/ \E row \in ticked : grades[row] = filterGrade'
  <1>1. LibraryInv /\ [Next]_vars => [A]_vars
    <2> SUFFICES ASSUME LibraryInv, Next, filterGrade' # filterGrade, Len(grades) <= Window,
                        filterGrade' # NoGrade
                 PROVE  \E row \in ticked : grades[row] = filterGrade'
      OBVIOUS
    <2>1. DoneButtonTapped
      BY DEF Next, list, Relaunch, OpenFilter, UseFilter, Dismiss, AnswerFromServer,
             AnswerFromCache, AnswerError, Callback, RemoveOrphanedDocuments, OpenForm, LeaveForm,
             AddDocument, UploadCompleted, Commit, Ack, Reject, SwitchNetwork
    <2>2. initialGrade = filterGrade /\ filterGrade' = ChosenGrade
      BY <2>1 DEF DoneButtonTapped, LibraryInv, FilterInStep
    <2>3. selected # 0 /\ grades[selected] = filterGrade'
      BY <2>2 DEF ChosenGrade
    <2>4. ~ CellTicked(selected)
      BY <2>2, <2>3 DEF CellTicked
    <2>5. selected \in ticked
      BY <2>3, <2>4 DEF LibraryInv, TableInv, SelectionTicked
    <2> QED BY <2>3, <2>5
  <1> QED BY <1>1, LibraryInvariance, PTL DEF Spec, ChangesAreTicked

\* The list is one fetch, whole or of one grade, whenever answers arrive.
THEOREM ListShowsOneFetch == Spec => []ListIsView
  <1>1. LibraryInv => ListIsView
    BY DEF LibraryInv, ListInv
  <1> QED BY <1>1, LibraryInvariance, PTL

\* A book whose upload was announced is in the list as soon as the fetches have
\* come back, unless one of them failed or the cache has lost it.
THEOREM AnnouncedAreListed == Spec => []UploadsListed
  <1>1. LibraryInv => UploadsListed
    BY DEF LibraryInv, ListInv, AnnouncedComes, UploadsListed
  <1> QED BY <1>1, LibraryInvariance, PTL

\* What the backend has sent or acknowledged is not taken from the list by a
\* later answer, unless the cache had lost it when that was made.
THEOREM ListedBooksStay == Spec => BooksStay
  <1> DEFINE A == \/ Relaunch
                  \/ confirmed \subseteq Listed(originalBooks')
                  \/ /\ callbacks # <<>>
                     /\ confirmed \ Listed(originalBooks') \subseteq Head(callbacks).lost
  <1>1. LibraryInv /\ [Next]_vars => [A]_vars
    <2> SUFFICES ASSUME ListInv, Next
                 PROVE  A
      BY DEF LibraryInv
    <2>1. CASE Callback
      <3>1. callbacks # <<>>
        BY <2>1 DEF Callback
      <3> QED BY <2>1, <3>1, CallbackStep
    <2>2. CASE UNCHANGED originalBooks
      BY <2>2 DEF ListInv, AnswersGrow
    <2> QED BY <2>1, <2>2
            DEF Next, OpenFilter, UseFilter, DoneButtonTapped, Dismiss, AnswerFromServer,
                AnswerFromCache, AnswerError, RemoveOrphanedDocuments, OpenForm, LeaveForm,
                AddDocument, UploadCompleted, Commit, Ack, Reject, SwitchNetwork, list
  <1> QED BY <1>1, LibraryInvariance, PTL DEF Spec, BooksStay
=============================================================================
