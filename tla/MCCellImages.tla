---------------------------- MODULE MCCellImages -----------------------------
(* Two cells, a book whose cover can be loaded, one whose cover is too     *)
(* large, one whose cover is not in Storage, and one without any.          *)
EXTENDS CellImages

MCBooks   == {"small", "large", "absent", "none"}
MCImageOf == [b \in MCBooks |-> IF b = "none" THEN Nil ELSE b]
=============================================================================
