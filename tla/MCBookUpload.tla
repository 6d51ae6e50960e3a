---------------------------- MODULE MCBookUpload ----------------------------
(***************************************************************************)
(* Two descriptions and two pictures, so that a document or a file made    *)
(* from the wrong version of the form is told apart.                       *)
(***************************************************************************)
EXTENDS BookUpload

CONSTANTS algebra, physics, cover, page
=============================================================================
