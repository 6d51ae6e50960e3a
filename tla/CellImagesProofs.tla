-------------------------- MODULE CellImagesProofs ---------------------------
(***************************************************************************)
(* Proofs about module CellImages, for any cells, books, images and any    *)
(* number of configurations and faults.                                    *)
(***************************************************************************)
EXTENDS CellImages, SequenceTheorems, TLAPS

LoadsTyped == [view : Views, path : Paths, cancelled : BOOLEAN, phase : Phases]

\* Types, and what a load has found out about its path.
Typed ==
    /\ shows \in [Views -> Books \cup {Nil}]
    /\ picture \in [Views -> Paths \cup {Nil}]
    /\ loads \in Seq(LoadsTyped)
    /\ current \in [Views -> 0 .. Len(loads)]
    /\ told \in [Views -> {"nothing", "image", "error"}]
    /\ memory \subseteq Kept /\ disk \subseteq Kept /\ failedURLs \subseteq Paths
    /\ configured \in 0 .. MaxLoads /\ Len(loads) <= configured
    /\ \A n \in DOMAIN loads : loads[n].phase = "image" => loads[n].path \in Kept

HasCover(c) == shows[c] # Nil /\ ImageOf[shows[c]] # Nil

\* Only the load a view knows is alive, and it is for the view's book.
OneLoad ==
    /\ \A n \in DOMAIN loads : ~ loads[n].cancelled => n = current[loads[n].view]
    /\ \A c \in Views : HasCover(c) => /\ current[c] \in DOMAIN loads
                                       /\ loads[current[c]].path = ImageOf[shows[c]]

\* A load a view knows is its own, and for a cell with a cover it is not
\* cancelled: when it is done, the cell shows the cover or was told of an error.
Answered ==
    /\ \A c \in Views : current[c] # 0 => loads[current[c]].view = c
    /\ \A c \in Views : HasCover(c) =>
          /\ ~ loads[current[c]].cancelled
          /\ loads[current[c]].phase = "done" =>
                picture[c] = ImageOf[shows[c]] \/ told[c] = "error"

Inv == Typed /\ OneLoad /\ Answered /\ CoverMatches

-----------------------------------------------------------------------------
(* The loads.                                                              *)

LEMMA LoadType ==
    ASSUME Typed, NEW n \in DOMAIN loads
    PROVE  /\ loads[n] \in LoadsTyped /\ n \in 1 .. Len(loads)
           /\ loads[n].view \in Views /\ loads[n].path \in Paths
           /\ loads[n].cancelled \in BOOLEAN /\ loads[n].phase \in Phases
  <1>1. loads \in Seq(LoadsTyped)
    BY DEF Typed
  <1>2. n \in 1 .. Len(loads)
    BY <1>1
  <1>3. loads[n] \in LoadsTyped
    BY <1>1, <1>2
  <1> QED BY <1>2, <1>3 DEF LoadsTyped

\* Cancelling keeps everything but the flag.
LEMMA CancelledType ==
    ASSUME Typed, NEW c \in Views
    PROVE  /\ Cancelled(c) \in Seq(LoadsTyped)
           /\ Len(Cancelled(c)) = Len(loads)
           /\ DOMAIN Cancelled(c) = DOMAIN loads
           /\ \A n \in DOMAIN loads :
                 /\ Cancelled(c)[n].view = loads[n].view
                 /\ Cancelled(c)[n].path = loads[n].path
                 /\ Cancelled(c)[n].phase = loads[n].phase
                 /\ Cancelled(c)[n].cancelled = (loads[n].cancelled \/ n = current[c])
  <1>1. loads \in Seq(LoadsTyped) /\ Len(loads) \in Nat /\ DOMAIN loads = 1 .. Len(loads)
    BY DEF Typed
  <1>2. DOMAIN Cancelled(c) = 1 .. Len(loads)
    BY <1>1 DEF Cancelled
  <1>3. ASSUME NEW n \in DOMAIN loads
        PROVE  /\ Cancelled(c)[n] \in LoadsTyped
               /\ Cancelled(c)[n].view = loads[n].view
               /\ Cancelled(c)[n].path = loads[n].path
               /\ Cancelled(c)[n].phase = loads[n].phase
               /\ Cancelled(c)[n].cancelled = (loads[n].cancelled \/ n = current[c])
    <2>1. loads[n] \in LoadsTyped
      BY LoadType
    <2>2. CASE n = current[c]
      BY <2>1, <2>2 DEF Cancelled, LoadsTyped
    <2>3. CASE n # current[c]
      BY <2>1, <2>3 DEF Cancelled, LoadsTyped
    <2> QED BY <2>2, <2>3
  <1>4. Cancelled(c) \in [1 .. Len(loads) -> LoadsTyped]
    BY <1>1, <1>2, <1>3 DEF Cancelled
  <1>5. Cancelled(c) \in Seq(LoadsTyped) /\ Len(Cancelled(c)) = Len(loads)
    BY <1>1, <1>4
  <1> QED BY <1>1, <1>2, <1>3, <1>5

\* A step of one load changes its phase only.
LEMMA GoesType ==
    ASSUME Typed, NEW n \in DOMAIN loads, NEW phase \in Phases, Goes(n, phase)
    PROVE  /\ loads' \in Seq(LoadsTyped)
           /\ Len(loads') = Len(loads) /\ DOMAIN loads' = DOMAIN loads
           /\ \A k \in DOMAIN loads :
                 /\ loads'[k].view = loads[k].view
                 /\ loads'[k].path = loads[k].path
                 /\ loads'[k].cancelled = loads[k].cancelled
                 /\ loads'[k].phase = IF k = n THEN phase ELSE loads[k].phase
  <1>1. loads \in Seq(LoadsTyped) /\ Len(loads) \in Nat /\ DOMAIN loads = 1 .. Len(loads)
    BY DEF Typed
  <1>2. ASSUME NEW k \in DOMAIN loads
        PROVE  /\ loads'[k] \in LoadsTyped
               /\ loads'[k].view = loads[k].view
               /\ loads'[k].path = loads[k].path
               /\ loads'[k].cancelled = loads[k].cancelled
               /\ loads'[k].phase = IF k = n THEN phase ELSE loads[k].phase
    <2>1. loads[k] \in LoadsTyped
      BY LoadType
    <2> QED BY <2>1 DEF Goes, LoadsTyped
  <1>3. loads' \in [1 .. Len(loads) -> LoadsTyped]
    BY <1>1, <1>2 DEF Goes
  <1>4. loads' \in Seq(LoadsTyped) /\ Len(loads') = Len(loads)
    BY <1>1, <1>3
  <1> QED BY <1>1, <1>2, <1>4

-----------------------------------------------------------------------------
(* The actions.                                                            *)

\* What a step of load n does to the views: nothing, or what Shows or Fails
\* does to that of a load that was not cancelled.  Unless it was cancelled, a
\* load is not done without one of them.
LoadStep(n, phase) ==
    /\ Goes(n, phase)
    /\ loads[n].phase # "done"
    /\ phase = "done" => loads[n].cancelled \/ Shows(n) \/ Fails(n)
    /\ \/ UNCHANGED <<picture, told>>
       \/ ~ loads[n].cancelled /\ (Shows(n) \/ Fails(n))
    /\ UNCHANGED <<shows, current, configured>>

\* Such a step keeps the invariant, if the caches and phases stay typed.
LEMMA LoadStepInv ==
    ASSUME Inv, NEW n \in DOMAIN loads, NEW phase \in Phases, LoadStep(n, phase),
           phase = "image" => loads[n].path \in Kept,
           memory' \subseteq Kept, disk' \subseteq Kept, failedURLs' \subseteq Paths
    PROVE  Inv'
  <1>1. /\ loads' \in Seq(LoadsTyped)
        /\ Len(loads') = Len(loads) /\ DOMAIN loads' = DOMAIN loads
        /\ \A k \in DOMAIN loads :
              /\ loads'[k].view = loads[k].view
              /\ loads'[k].path = loads[k].path
              /\ loads'[k].cancelled = loads[k].cancelled
              /\ loads'[k].phase = IF k = n THEN phase ELSE loads[k].phase
    BY GoesType DEF Inv, LoadStep
  <1>2. loads[n].view \in Views /\ loads[n].path \in Paths
    BY LoadType DEF Inv
  <1>3. picture' \in [Views -> Paths \cup {Nil}]
        /\ told' \in [Views -> {"nothing", "image", "error"}]
    BY <1>2 DEF Inv, Typed, LoadStep, Shows, Fails
  <1>4. Typed'
    <2>1. \A k \in DOMAIN loads' : loads'[k].phase = "image" => loads'[k].path \in Kept
      BY <1>1 DEF Inv, Typed
    <2> QED BY <1>1, <1>3, <2>1 DEF Inv, Typed, LoadStep
  <1>5. OneLoad'
    BY <1>1 DEF Inv, OneLoad, HasCover, LoadStep
  <1>6. CoverMatches'
    <2>1. CASE UNCHANGED picture
      BY <2>1 DEF Inv, CoverMatches, LoadStep
    <2>2. CASE ~ loads[n].cancelled /\ Shows(n)
      <3>1. n = current[loads[n].view]
        BY <2>2 DEF Inv, OneLoad
      <3>2. HasCover(loads[n].view) => loads[n].path = ImageOf[shows[loads[n].view]]
        BY <1>2, <3>1 DEF Inv, OneLoad
      <3> QED BY <1>2, <2>2, <3>2 DEF Inv, Typed, CoverMatches, LoadStep, Shows, HasCover
    <2> QED BY <2>1, <2>2 DEF LoadStep, Fails
  <1>7. Answered'
    <2>1. \A c \in Views : current'[c] # 0 => loads'[current'[c]].view = c
      <3>1. \A c \in Views : current[c] # 0 => current[c] \in DOMAIN loads
        BY DEF Inv, Typed
      <3> QED BY <1>1, <3>1 DEF Inv, Answered, LoadStep
    <2>2. ASSUME NEW c \in Views, shows[c] # Nil, ImageOf[shows[c]] # Nil
          PROVE  /\ ~ loads'[current[c]].cancelled
                 /\ loads'[current[c]].phase = "done" =>
                       picture'[c] = ImageOf[shows[c]] \/ told'[c] = "error"
      <3>1. /\ current[c] \in DOMAIN loads /\ loads[current[c]].path = ImageOf[shows[c]]
            /\ ~ loads[current[c]].cancelled
            /\ loads[current[c]].phase = "done" =>
                  picture[c] = ImageOf[shows[c]] \/ told[c] = "error"
        BY <2>2 DEF Inv, OneLoad, Answered, HasCover
      <3>2. loads'[current[c]].cancelled = loads[current[c]].cancelled
        BY <1>1, <3>1
      <3>3. CASE n = current[c]
        <4>1. loads[n].view = c
          BY <1>2, <3>3, <3>1 DEF Inv, Answered, Typed
        <4>2. phase = "done" => Shows(n) \/ Fails(n)
          BY <3>1, <3>3 DEF LoadStep
        <4>3. phase = "done" => picture'[c] = ImageOf[shows[c]] \/ told'[c] = "error"
          BY <3>1, <3>3, <4>1, <4>2 DEF Inv, Typed, Shows, Fails
        <4> QED BY <1>1, <3>1, <3>2, <3>3, <4>3
      <3>4. CASE n # current[c]
        <4>1. loads'[current[c]].phase = loads[current[c]].phase
          BY <1>1, <3>1, <3>4
        <4>2. UNCHANGED <<picture, told>> \/ loads[n].view # c
          <5>1. loads[n].cancelled \/ loads[n].view # c
            BY <3>4 DEF Inv, OneLoad
          <5> QED BY <5>1 DEF LoadStep
        <4>3. picture'[c] = picture[c] /\ told'[c] = told[c]
          BY <1>2, <4>2 DEF Inv, Typed, LoadStep, Shows, Fails
        <4> QED BY <3>1, <3>2, <4>1, <4>3
      <3> QED BY <3>3, <3>4
    <2> QED BY <2>1, <2>2 DEF Answered, HasCover, LoadStep
  <1> QED BY <1>4, <1>5, <1>6, <1>7 DEF Inv

\* A cell is configured for a book, whatever its view was loading.
LEMMA ConfigureInv ==
    ASSUME ImageConstants, Inv, NEW c \in Views, NEW b \in Books, Configure(c, b)
    PROVE  Inv'
  <1>1. CASE ImageOf[b] = Nil
    <2>1. UNCHANGED <<loads, current, told, caches>>
      BY <1>1 DEF Configure
    <2>2. Typed'
      BY <1>1, <2>1 DEF Inv, Typed, Configure, caches, ImageConstants
    <2>3. OneLoad'
      BY <1>1, <2>1 DEF Inv, Typed, OneLoad, HasCover, Configure
    <2>4. CoverMatches'
      BY <1>1, <2>1 DEF Inv, Typed, CoverMatches, Configure
    <2>5. Answered'
      BY <1>1, <2>1 DEF Inv, Typed, Answered, HasCover, Configure
    <2> QED BY <2>2, <2>3, <2>4, <2>5 DEF Inv
  <1>2. CASE ImageOf[b] # Nil
    <2> DEFINE path == ImageOf[b]
               start == ~ Refused(path) /\ ~ Found(path)
               load == [view |-> c, path |-> path, cancelled |-> FALSE,
                        phase |-> IF start THEN "disk" ELSE "done"]
    <2>1. /\ loads' = Append(Cancelled(c), load)
          /\ current' = [current EXCEPT ![c] = Len(loads) + 1]
          /\ picture' = [picture EXCEPT ![c] = IF Found(path) THEN path ELSE Nil]
          /\ told' = [told EXCEPT ![c] = IF start THEN "nothing"
                                         ELSE IF Found(path) THEN "image" ELSE "error"]
          /\ shows' = [shows EXCEPT ![c] = b]
          /\ configured' = configured + 1 /\ configured < MaxLoads
          /\ UNCHANGED <<memory, disk, failedURLs>>
      BY <1>2 DEF Configure, SetImage, caches
    <2>2. path \in Paths
      BY <1>2 DEF Paths
    <2>3. load \in LoadsTyped
      BY <2>2 DEF LoadsTyped, Phases
    <2>4. loads \in Seq(LoadsTyped) /\ Len(loads) \in Nat /\ DOMAIN loads = 1 .. Len(loads)
      BY DEF Inv, Typed
    <2>5. /\ Cancelled(c) \in Seq(LoadsTyped)
          /\ Len(Cancelled(c)) = Len(loads)
          /\ \A n \in 1 .. Len(loads) :
                /\ Cancelled(c)[n].view = loads[n].view
                /\ Cancelled(c)[n].path = loads[n].path
                /\ Cancelled(c)[n].phase = loads[n].phase
                /\ Cancelled(c)[n].cancelled = (loads[n].cancelled \/ n = current[c])
      BY <2>4, CancelledType DEF Inv
    <2> HIDE DEF load
    <2>6. /\ loads' \in Seq(LoadsTyped) /\ Len(loads') = Len(loads) + 1
          /\ DOMAIN loads' = 1 .. Len(loads) + 1
          /\ loads'[Len(loads) + 1] = load
          /\ \A n \in 1 .. Len(loads) : loads'[n] = Cancelled(c)[n]
      BY <2>1, <2>3, <2>4, <2>5
    <2>7. /\ load.view = c /\ load.path = path /\ load.phase # "image" /\ ~ load.cancelled
          /\ load.phase = "done" => ~ start
      BY DEF load
    <2>8. Typed'
      <3>1. ASSUME NEW n \in DOMAIN loads', loads'[n].phase = "image"
            PROVE  loads'[n].path \in Kept
        <4>1. n # Len(loads) + 1
          BY <2>6, <2>7, <3>1
        <4>2. n \in 1 .. Len(loads) /\ n \in DOMAIN loads
          BY <2>4, <2>6, <4>1
        <4>3. loads[n].phase = "image" /\ loads'[n].path = loads[n].path
          BY <2>5, <2>6, <3>1, <4>2
        <4> QED BY <4>2, <4>3 DEF Inv, Typed
      <3>2. current' \in [Views -> 0 .. Len(loads')]
        BY <2>1, <2>4, <2>6 DEF Inv, Typed
      <3>3. picture' \in [Views -> Paths \cup {Nil}]
            /\ told' \in [Views -> {"nothing", "image", "error"}]
            /\ shows' \in [Views -> Books \cup {Nil}]
        BY <2>1, <2>2 DEF Inv, Typed
      <3>4. configured' \in 0 .. MaxLoads /\ Len(loads') <= configured'
        BY <2>1, <2>4, <2>6 DEF Inv, Typed, ImageConstants
      <3> QED BY <2>1, <2>6, <3>1, <3>2, <3>3, <3>4 DEF Inv, Typed
    <2>9. OneLoad'
      <3>1. ASSUME NEW n \in DOMAIN loads', ~ loads'[n].cancelled
            PROVE  n = current'[loads'[n].view]
        <4>1. CASE n = Len(loads) + 1
          BY <2>1, <2>6, <2>7, <4>1 DEF Inv, Typed
        <4>2. CASE n \in 1 .. Len(loads)
          <5>1. ~ loads[n].cancelled /\ n # current[c] /\ loads'[n].view = loads[n].view
            BY <2>5, <2>6, <3>1, <4>2
          <5>2. n = current[loads[n].view]
            BY <2>4, <4>2, <5>1 DEF Inv, OneLoad
          <5> QED BY <2>1, <5>1, <5>2 DEF Inv, Typed
        <4> QED BY <2>4, <2>6, <4>1, <4>2
      <3>2. ASSUME NEW d \in Views, shows'[d] # Nil, ImageOf[shows'[d]] # Nil
            PROVE  /\ current'[d] \in DOMAIN loads'
                   /\ loads'[current'[d]].path = ImageOf[shows'[d]]
        <4>1. CASE d = c
          BY <2>1, <2>4, <2>6, <2>7, <4>1 DEF Inv, Typed
        <4>2. CASE d # c
          <5>1. shows'[d] = shows[d] /\ current'[d] = current[d]
            BY <2>1, <4>2 DEF Inv, Typed
          <5>2. current[d] \in DOMAIN loads /\ loads[current[d]].path = ImageOf[shows[d]]
            BY <3>2, <5>1 DEF Inv, OneLoad, HasCover
          <5> QED BY <2>4, <2>5, <2>6, <5>1, <5>2
        <4> QED BY <4>1, <4>2
      <3> QED BY <3>1, <3>2 DEF OneLoad, HasCover
    <2>10. CoverMatches'
      BY <2>1 DEF Inv, Typed, CoverMatches
    <2>11. Answered'
      <3>1. ASSUME NEW d \in Views, current'[d] # 0
            PROVE  loads'[current'[d]].view = d
        <4>1. CASE d = c
          BY <2>1, <2>4, <2>6, <2>7, <4>1 DEF Inv, Typed
        <4>2. CASE d # c
          <5>1. current'[d] = current[d] /\ current[d] \in 1 .. Len(loads)
            BY <2>1, <2>4, <3>1, <4>2 DEF Inv, Typed
          <5>2. loads[current[d]].view = d
            BY <3>1, <5>1 DEF Inv, Answered
          <5> QED BY <2>5, <2>6, <5>1, <5>2
        <4> QED BY <4>1, <4>2
      <3>2. ASSUME NEW d \in Views, shows'[d] # Nil, ImageOf[shows'[d]] # Nil
            PROVE  /\ ~ loads'[current'[d]].cancelled
                   /\ loads'[current'[d]].phase = "done" =>
                         picture'[d] = ImageOf[shows'[d]] \/ told'[d] = "error"
        <4>1. CASE d = c
          <5>1. current'[c] = Len(loads) + 1 /\ loads'[current'[c]] = load /\ shows'[c] = b
            BY <2>1, <2>4, <2>6 DEF Inv, Typed
          <5>2. /\ picture'[c] = IF Found(path) THEN path ELSE Nil
                /\ told'[c] = IF start THEN "nothing"
                              ELSE IF Found(path) THEN "image" ELSE "error"
            BY <2>1 DEF Inv, Typed
          <5> QED BY <2>7, <4>1, <5>1, <5>2
        <4>2. CASE d # c
          <5>1. /\ shows'[d] = shows[d] /\ current'[d] = current[d]
                /\ picture'[d] = picture[d] /\ told'[d] = told[d]
            BY <2>1, <4>2 DEF Inv, Typed
          <5>2. /\ current[d] \in 1 .. Len(loads) /\ ~ loads[current[d]].cancelled
                /\ loads[current[d]].phase = "done" =>
                      picture[d] = ImageOf[shows[d]] \/ told[d] = "error"
            BY <2>4, <3>2, <5>1 DEF Inv, OneLoad, Answered, HasCover
          <5>3. current[d] # current[c]
            <6>1. current[d] # 0 /\ loads[current[d]].view = d
              BY <2>4, <5>2 DEF Inv, Answered
            <6>2. current[c] # 0 => loads[current[c]].view = c
              BY DEF Inv, Answered
            <6> QED BY <4>2, <6>1, <6>2
          <5>4. /\ loads'[current[d]].phase = loads[current[d]].phase
                /\ ~ loads'[current[d]].cancelled
            BY <2>5, <2>6, <5>2, <5>3
          <5> QED BY <5>1, <5>2, <5>4
        <4> QED BY <4>1, <4>2
      <3> QED BY <3>1, <3>2 DEF Answered, HasCover
    <2> QED BY <2>8, <2>9, <2>10, <2>11 DEF Inv
  <1> QED BY <1>1, <1>2

\* The invariant holds at first.
LEMMA InitInv == ASSUME ImageConstants, Init PROVE Inv
  <1>1. Typed
    <2>1. loads \in Seq(LoadsTyped) /\ Len(loads) = 0 /\ DOMAIN loads = {}
      BY DEF Init
    <2> QED BY <2>1 DEF Init, Typed, ImageConstants
  <1>2. OneLoad
    BY DEF Init, OneLoad, HasCover
  <1>3. CoverMatches
    BY DEF Init, CoverMatches
  <1>4. Answered
    BY DEF Init, Answered, HasCover
  <1> QED BY <1>1, <1>2, <1>3, <1>4 DEF Inv

\* Every step keeps the invariant.
LEMMA NextInv == ASSUME ImageConstants, Inv, [Next]_vars PROVE Inv'
  <1>1. ASSUME NEW c \in Views, NEW b \in Books, Configure(c, b)
        PROVE  Inv'
    BY <1>1, ConfigureInv
  <1>2. ASSUME NEW n \in DOMAIN loads, QueryDisk(n)
        PROVE  Inv'
    <2> DEFINE phase == IF loads[n].cancelled THEN "done"
                        ELSE IF loads[n].path \in disk THEN "hit" ELSE "miss"
    <2>1. phase \in Phases /\ phase # "image"
      BY DEF Phases
    <2>2. LoadStep(n, phase)
      BY <1>2 DEF QueryDisk, LoadStep, Goes
    <2>3. memory' \subseteq Kept /\ disk' \subseteq Kept /\ failedURLs' \subseteq Paths
      BY <1>2 DEF QueryDisk, Inv, Typed
    <2> HIDE DEF phase
    <2> QED BY <2>1, <2>2, <2>3, LoadStepInv
  <1>3. ASSUME NEW n \in DOMAIN loads, CacheAnswered(n)
        PROVE  Inv'
    <2>1. PICK phase \in {"done", "download"} : LoadStep(n, phase)
      <3>1. loads[n].cancelled \in BOOLEAN
        BY LoadType DEF Inv
      <3> QED BY <1>3, <3>1 DEF CacheAnswered, LoadStep
    <2>2. phase \in Phases /\ phase # "image"
      BY DEF Phases
    <2>3. memory' \subseteq Kept /\ disk' \subseteq Kept /\ failedURLs' \subseteq Paths
      BY <1>3 DEF CacheAnswered, caches, Inv, Typed
    <2> QED BY <2>1, <2>2, <2>3, LoadStepInv
  <1>4. ASSUME NEW n \in DOMAIN loads, StorageAnswers(n) \/ DownloadFails(n)
        PROVE  Inv'
    <2>1. PICK phase \in {"absent", "error", "image"} :
              LoadStep(n, phase) /\ (phase = "image" => loads[n].path \in Kept)
      BY <1>4 DEF StorageAnswers, DownloadFails, LoadStep
    <2>2. phase \in Phases
      BY DEF Phases
    <2>3. memory' \subseteq Kept /\ disk' \subseteq Kept /\ failedURLs' \subseteq Paths
      BY <1>4 DEF StorageAnswers, DownloadFails, caches, Inv, Typed
    <2> QED BY <2>1, <2>2, <2>3, LoadStepInv
  <1>5. ASSUME NEW n \in DOMAIN loads, Downloaded(n)
        PROVE  Inv'
    <2>1. LoadStep(n, "done")
      BY <1>5 DEF Downloaded, LoadStep
    <2>2. memory' \subseteq Kept /\ disk' \subseteq Kept
      BY <1>5 DEF Downloaded, caches, Inv, Typed
    <2>3. failedURLs' \subseteq Paths
      BY <1>5, LoadType DEF Downloaded, Blocked, caches, Inv, Typed
    <2>4. "done" \in Phases
      BY DEF Phases
    <2> QED BY <2>1, <2>2, <2>3, <2>4, LoadStepInv
  <1>6. ASSUME NEW p \in Paths, Evict(p)
        PROVE  Inv'
    BY <1>6 DEF Evict, Inv, Typed, OneLoad, Answered, HasCover, CoverMatches
  <1>7. CASE UNCHANGED vars
    BY <1>7 DEF vars, caches, Inv, Typed, OneLoad, Answered, HasCover, CoverMatches
  <1> QED BY <1>1, <1>2, <1>3, <1>4, <1>5, <1>6, <1>7 DEF Next, Step

\* The invariant has the properties.
LEMMA InvProperties == ASSUME ImageConstants, Inv PROVE TypeOK /\ CoverMatches
  <1>1. \A n \in DOMAIN loads : /\ loads[n].view \in Views /\ loads[n].path \in Paths
                                /\ loads[n].cancelled \in BOOLEAN /\ loads[n].phase \in Phases
    BY LoadType DEF Inv
  <1>2. Len(loads) <= MaxLoads
    <2>1. Len(loads) \in Nat /\ configured \in 0 .. MaxLoads /\ Len(loads) <= configured
      BY DEF Inv, Typed
    <2> QED BY <2>1 DEF ImageConstants
  <1> QED BY <1>1, <1>2 DEF Inv, Typed, TypeOK

-----------------------------------------------------------------------------
\* The states of the cells, the loads and the caches are well typed, for any
\* number of cells, books and loads.
THEOREM TypeCorrect == Spec => []TypeOK
  <1>1. Init => Inv
    BY InitInv, ImageConstants
  <1>2. Inv /\ [Next]_vars => Inv'
    BY NextInv, ImageConstants
  <1>3. Inv => TypeOK
    BY InvProperties, ImageConstants
  <1> QED BY <1>1, <1>2, <1>3, PTL DEF Spec

\* CollectionViewCell.configure: however many cells there are and however
\* often they are reused, none shows the cover of another book.
THEOREM CoversMatch == Spec => []CoverMatches
  <1>1. Init => Inv
    BY InitInv, ImageConstants
  <1>2. Inv /\ [Next]_vars => Inv'
    BY NextInv, ImageConstants
  <1>3. Inv => CoverMatches
    BY InvProperties, ImageConstants
  <1> QED BY <1>1, <1>2, <1>3, PTL DEF Spec

\* What CoverOrError rests on, for any cells and loads: a cell whose book has a
\* cover shows it, was told that it cannot be had, or knows a load that is
\* under way and will be heard.  Reuse of cells, a path that was refused and
\* the cancelling of other cells' loads never leave a cell waiting for nothing.
CoverComes ==
    \A c \in Views : HasCover(c) =>
        \/ picture[c] = ImageOf[shows[c]]
        \/ told[c] = "error"
        \/ /\ current[c] \in DOMAIN loads /\ loads[current[c]].view = c
           /\ loads[current[c]].path = ImageOf[shows[c]]
           /\ ~ loads[current[c]].cancelled /\ loads[current[c]].phase # "done"

\* CollectionViewCell.configure and sd_internalSetImageWithURL: no cell is left
\* empty without a load that will fill it or report.
THEOREM NoCellWaitsInVain == Spec => []CoverComes
  <1>1. Init => Inv
    BY InitInv, ImageConstants
  <1>2. Inv /\ [Next]_vars => Inv'
    BY NextInv, ImageConstants
  <1>3. Inv => CoverComes
    <2>1. ASSUME Inv, NEW c \in Views, HasCover(c) PROVE current[c] # 0
      BY <2>1 DEF Inv, Typed, OneLoad
    <2> QED BY <2>1 DEF Inv, OneLoad, Answered, CoverComes
  <1> QED BY <1>1, <1>2, <1>3, PTL DEF Spec
=============================================================================
