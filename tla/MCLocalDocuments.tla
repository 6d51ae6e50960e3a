-------------------------- MODULE MCLocalDocuments ---------------------------
(* Two documents, the reader of this device and another account with       *)
(* neither name nor photo; a grade from the picker and one pasted.         *)
EXTENDS LocalDocuments, TLC

Form(grade) == [title |-> "title", author |-> "author", grade |-> grade,
                subject |-> "subject", condition |-> "Good"]
MCForms   == {Form("12"), Form("pasted")}
MCNumbers == "12" :> 12
MCHere    == [id |-> "ann", name |-> "Ann", photo |-> "/ann"]
MCAccounts == {MCHere, [id |-> "bob", name |-> Nil, photo |-> Nil]}
=============================================================================
