--------------------------- MODULE MCBookRequests ---------------------------
(***************************************************************************)
(* Two devices of two readers, or of a reader and the owner of the book.   *)
(***************************************************************************)
EXTENDS BookRequests, TLC

CONSTANTS phone, tablet, ann, bob, eve

\* Two readers who may race for the book; its owner is not watching.
TwoReaders == (phone :> ann) @@ (tablet :> bob)

\* A reader and the owner, who looks at the details of her own book.
ReaderAndOwner == (phone :> ann) @@ (tablet :> eve)
=============================================================================
