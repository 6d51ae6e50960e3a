----------------------------- MODULE CellImages ------------------------------
(***************************************************************************)
(* The covers of the list: CollectionViewCell.configure and the loading    *)
(* behind sd_setImage, by SDWebImage and FirebaseUI's storage loader.      *)
(*                                                                         *)
(* A cell is configured again for another book whenever it is reused, with *)
(* a load of the previous cover possibly under way.  A load looks in the   *)
(* memory cache at once, in the disk cache on the I/O queue, asks Storage  *)
(* if both miss, and decodes on another queue; each result goes to the     *)
(* main queue, where it is dropped if the load has been cancelled.  Covers *)
(* that Storage does not have are remembered and not asked for again.      *)
(*                                                                         *)
(* The image of the details of a book is such a view too, configured once. *)
(* A definition with an underscore in its name is a deliberately wrong     *)
(* variant of the one below it: see README.                                *)
(***************************************************************************)
EXTENDS Naturals, Sequences

CONSTANTS
    Views,          \* image views of cells
    Books,
    ImageOf,        \* the path of a book's image, or Nil
    Kept,           \* paths that Storage has
    Large,          \* those that exceed the loader's maximal size
    Nil,
    MaxLoads,       \* bound: configurations of cells
    MaxFaults       \* bound: failed downloads, evictions

ASSUME ImageConstants ==
    /\ DOMAIN ImageOf = Books
    /\ Large \subseteq Kept /\ Nil \notin Kept
    /\ MaxLoads \in Nat /\ MaxFaults \in Nat

VARIABLES
    shows,          \* the book of a cell, whose title it shows
    picture,        \* the image of its view, as the path it came from
    current,        \* the view's load operation, as an index of loads
    loads,          \* the load operations
    told,           \* what the completion of the view's load has brought
    memory, disk,   \* paths in the two caches
    failedURLs,
    configured, faults

caches == <<memory, disk, failedURLs>>
vars   == <<shows, picture, current, loads, told, caches, configured, faults>>

Paths  == {ImageOf[b] : b \in Books} \ {Nil}
Phases == {"disk", "hit", "miss", "download", "image", "absent", "error", "done"}

Init ==
    /\ shows = [c \in Views |-> Nil]
    /\ picture = [c \in Views |-> Nil]
    /\ current = [c \in Views |-> 0]
    /\ loads = <<>>
    /\ told = [c \in Views |-> "nothing"]
    /\ memory = {}
    /\ disk \in SUBSET (Kept \ Large)
    /\ failedURLs = {}
    /\ configured = 0
    /\ faults = 0

-----------------------------------------------------------------------------
(* The main queue: the cell.                                               *)

\* sd_cancelImageLoadOperationWithKey
Cancelled_None(c) == loads
Cancelled(c) == [n \in DOMAIN loads |->
                    IF n = current[c] THEN [loads[n] EXCEPT !.cancelled = TRUE] ELSE loads[n]]

\* loadImageWithURL gives up on such a path, and the memory cache answers at once.
Refused(path) == path \in failedURLs
Found(path)   == ~ Refused(path) /\ path \in memory

\* sd_internalSetImageWithURL and loadImageWithURL, up to the I/O queue.
SetImage_CancelsAfter(c, path) ==
    /\ current' = [current EXCEPT ![c] = Len(loads) + 1]
    /\ loads' = Append(Cancelled(c), [view |-> c, path |-> path, cancelled |-> TRUE,
                                      phase |-> "disk"])
    /\ picture' = [picture EXCEPT ![c] = Nil]
    /\ told' = [told EXCEPT ![c] = "nothing"]
SetImage(c, path) ==
    LET start == ~ Refused(path) /\ ~ Found(path)
    IN  /\ current' = [current EXCEPT ![c] = Len(loads) + 1]
        /\ loads' = Append(Cancelled(c), [view |-> c, path |-> path, cancelled |-> FALSE,
                                          phase |-> IF start THEN "disk" ELSE "done"])
        /\ picture' = [picture EXCEPT ![c] = IF Found(path) THEN path ELSE Nil]
        /\ told' = [told EXCEPT ![c] = IF start THEN "nothing"
                                       ELSE IF Found(path) THEN "image" ELSE "error"]

\* A book without an image only empties the view: a load under way goes on.
Configure(c, b) ==
    /\ configured < MaxLoads
    /\ configured' = configured + 1
    /\ shows' = [shows EXCEPT ![c] = b]
    /\ IF ImageOf[b] # Nil THEN SetImage(c, ImageOf[b])
       ELSE picture' = [picture EXCEPT ![c] = Nil] /\ UNCHANGED <<current, loads, told>>
    /\ UNCHANGED <<caches, faults>>

-----------------------------------------------------------------------------
(* A load.                                                                 *)

Goes(n, phase) == loads' = [loads EXCEPT ![n].phase = phase]
Fault == faults < MaxFaults /\ faults' = faults + 1

\* queryDiskBlock, on the I/O queue: an image that is found goes to memory.
QueryDisk(n) ==
    LET found == ~ loads[n].cancelled /\ loads[n].path \in disk
    IN  /\ loads[n].phase = "disk"
        /\ Goes(n, IF loads[n].cancelled THEN "done" ELSE IF found THEN "hit" ELSE "miss")
        /\ memory' = IF found THEN memory \cup {loads[n].path} ELSE memory
        /\ UNCHANGED <<shows, picture, current, told, disk, failedURLs, configured, faults>>

\* The completion the view gave to the load, on the main queue.
Shows(n) ==
    /\ picture' = [picture EXCEPT ![loads[n].view] = loads[n].path]
    /\ told' = [told EXCEPT ![loads[n].view] = "image"]
Fails(n) ==
    /\ told' = [told EXCEPT ![loads[n].view] = "error"]
    /\ UNCHANGED picture

\* callCacheProcess and callDownloadProcess.
CacheAnswered(n) ==
    /\ loads[n].phase \in {"hit", "miss"}
    /\ CASE loads[n].cancelled      -> Goes(n, "done") /\ UNCHANGED <<picture, told>>
         [] ~ loads[n].cancelled /\ loads[n].phase = "hit"  -> Goes(n, "done") /\ Shows(n)
         [] ~ loads[n].cancelled /\ loads[n].phase = "miss" ->
                Goes(n, "download") /\ UNCHANGED <<picture, told>>
    /\ UNCHANGED <<shows, current, caches, configured, faults>>

\* dataWithMaxSize, and the decoding.
StorageAnswers_NoError(n) ==
    /\ loads[n].phase = "download"
    /\ Goes(n, "image")
    /\ UNCHANGED <<shows, picture, current, told, caches, configured, faults>>
StorageAnswers(n) ==
    LET p == loads[n].path
    IN  /\ loads[n].phase = "download"
        /\ Goes(n, CASE p \notin Kept -> "absent" [] p \in Large -> "error" [] OTHER -> "image")
        /\ UNCHANGED <<shows, picture, current, told, caches, configured, faults>>

DownloadFails(n) ==
    /\ loads[n].phase = "download"
    /\ Fault
    /\ Goes(n, "error")
    /\ UNCHANGED <<shows, picture, current, told, caches, configured>>

\* shouldBlockFailedURLWithURL: only for a path that Storage does not have.
Blocked(n) == IF loads[n].phase = "absent" THEN {loads[n].path} ELSE {}

\* The loader's completion: a result of a cancelled load is dropped, an image
\* is stored and shown.
Downloaded(n) ==
    LET p == loads[n].path
    IN  /\ loads[n].phase \in {"image", "absent", "error"}
        /\ Goes(n, "done")
        /\ IF loads[n].cancelled THEN UNCHANGED <<picture, told, caches>>
           ELSE IF loads[n].phase = "image"
           THEN /\ Shows(n)
                /\ memory' = memory \cup {p} /\ disk' = disk \cup {p} /\ UNCHANGED failedURLs
           ELSE /\ Fails(n)
                /\ failedURLs' = failedURLs \cup Blocked(n)
                /\ UNCHANGED <<memory, disk>>
        /\ UNCHANGED <<shows, current, configured, faults>>

\* Memory is short, or a file is too old.
Evict(p) ==
    /\ Fault
    /\ \/ p \in memory /\ memory' = memory \ {p} /\ UNCHANGED disk
       \/ p \in disk /\ disk' = disk \ {p} /\ UNCHANGED memory
    /\ UNCHANGED <<shows, picture, current, loads, told, failedURLs, configured>>

-----------------------------------------------------------------------------
Step(n) == QueryDisk(n) \/ CacheAnswered(n) \/ StorageAnswers(n) \/ Downloaded(n)

Next ==
    \/ \E c \in Views, b \in Books : Configure(c, b)
    \/ \E n \in DOMAIN loads : Step(n) \/ DownloadFails(n)
    \/ \E p \in Paths : Evict(p)

Spec == Init /\ [][Next]_vars

\* Every queue is served, and a download ends.
FairSpec == Spec /\ \A n \in 1 .. MaxLoads : WF_vars(n \in DOMAIN loads /\ Step(n))

-----------------------------------------------------------------------------
TypeOK ==
    /\ shows \in [Views -> Books \cup {Nil}]
    /\ picture \in [Views -> Paths \cup {Nil}]
    /\ current \in [Views -> 0 .. Len(loads)]
    /\ Len(loads) <= MaxLoads
    /\ \A n \in DOMAIN loads : /\ loads[n].view \in Views /\ loads[n].path \in Paths
                               /\ loads[n].cancelled \in BOOLEAN /\ loads[n].phase \in Phases
    /\ told \in [Views -> {"nothing", "image", "error"}]
    /\ memory \subseteq Kept /\ disk \subseteq Kept /\ failedURLs \subseteq Paths

\* A cell whose book has a cover never shows that of another book, however
\* often it was reused and in whatever order loads end.
CoverMatches ==
    \A c \in Views : shows[c] # Nil /\ ImageOf[shows[c]] # Nil =>
        picture[c] \in {Nil, ImageOf[shows[c]]}

\* A cell that keeps its book gets the cover, or the load has failed.
CoverOrError ==
    \A c \in Views, b \in {x \in Books : ImageOf[x] # Nil} :
        shows[c] = b
            ~> (shows[c] # b \/ picture[c] = ImageOf[b] \/ told[c] = "error")
=============================================================================
