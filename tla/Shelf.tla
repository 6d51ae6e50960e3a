------------------------------- MODULE Shelf -------------------------------
(***************************************************************************)
(* What uploading a book promises: the students' shared shelf only ever    *)
(* gains books, each of them one that somebody submitted, complete, with   *)
(* the picture it was submitted with, and each submission at most once.    *)
(***************************************************************************)
CONSTANTS
    Ids,        \* submissions
    Texts,      \* complete descriptions of a book
    Images      \* pictures

VARIABLES
    offered,    \* the books that were submitted
    shelf       \* the books that everybody can see

svars == <<offered, shelf>>

Books == [id : Ids, text : Texts, image : Images]

SInit == offered = {} /\ shelf = {}

Offer ==
    \E book \in Books :
        /\ \A other \in offered : other.id # book.id
        /\ offered' = offered \cup {book}
        /\ UNCHANGED shelf

Place ==
    \E book \in offered \ shelf :
        /\ shelf' = shelf \cup {book}
        /\ UNCHANGED offered

SSpec == SInit /\ [][Offer \/ Place]_svars
=============================================================================
