----------------------------- MODULE MCLibrary -----------------------------
(***************************************************************************)
(* Three books, two of them uploaded by this device, of three grades, one  *)
(* unreadable; two rows of the filter fit on the screen.                   *)
(***************************************************************************)
EXTENDS Library

MCGrades == {6, 7, -1}
MCGradeOf == <<7, 6, -1>>
=============================================================================
