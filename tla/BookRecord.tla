----------------------------- MODULE BookRecord ------------------------------
(***************************************************************************)
(* A book as a Firestore document: what the upload form writes, what       *)
(* Book.init(with:dict:) and User.init(with:) read, and what of it         *)
(* survives.  A field has a type, because `as? String` and `as? [String]`  *)
(* look at it; what is in a field is a value of no structure.              *)
(* A definition with an underscore in its name is a deliberately wrong     *)
(* variant of the one below it: see README.                                *)
(***************************************************************************)
EXTENDS Integers, Sequences

CONSTANTS
    Forms,          \* what the five text fields may hold at the tap
    Numbers,        \* the integers that some texts are the numeral of
    Nil             \* a value that is not there

String(s) == [type |-> "string", is |-> s]
Map(m)    == [type |-> "map",    is |-> m]
Array(a)  == [type |-> "array",  is |-> a]

\* dict[field] = value
With(dict, field, value) ==
    [f \in DOMAIN dict \cup {field} |-> IF f = field THEN value ELSE dict[f]]

\* userData: the photo is left out if the account has none.
UserData(account) ==
    LET name == IF account.name = Nil THEN "Some Student" ELSE account.name
        data == [id |-> String(account.id), name |-> String(name)]
    IN  IF account.photo = Nil THEN data
        ELSE With(data, "photo", String(account.photo))

\* doc, with the path of the stored picture.
Document(form, account, path) ==
    [title     |-> String(form.title),
     author    |-> String(form.author),
     grade     |-> String(form.grade),
     subject   |-> String(form.subject),
     condition |-> String(form.condition),
     user      |-> Map(UserData(account)),
     image     |-> String(path)]

\* dict[field] as? <type>
As(type, dict, field) ==
    IF field \in DOMAIN dict /\ dict[field].type = type THEN dict[field].is ELSE Nil
Else(value, default) == IF value = Nil THEN default ELSE value

\* The initialisers get past their fatalErrors.
UserDecodes(dict) == As("string", dict, "name") # Nil /\ As("string", dict, "id") # Nil
Decodes(dict) ==
    /\ As("string", dict, "title") # Nil
    /\ As("map", dict, "user") # Nil
    /\ UserDecodes(dict.user.is)

\* Int(grade) ?? -1
GradeOf_Number(dict) == Else(As("number", dict, "grade"), -1)
GradeOf(dict) ==
    LET text == As("string", dict, "grade")
    IN  IF text \in DOMAIN Numbers THEN Numbers[text] ELSE -1

Book(id, dict) ==
    [id        |-> id,
     title     |-> As("string", dict, "title"),
     author    |-> Else(As("array", dict, "author"), <<"None Given">>),
     image     |-> As("string", dict, "image"),
     grade     |-> GradeOf(dict),
     subject   |-> Else(As("string", dict, "subject"), "-"),
     condition |-> Else(As("string", dict, "condition"), "-"),
     user      |-> [name  |-> As("string", dict.user.is, "name"),
                    id    |-> As("string", dict.user.is, "id"),
                    photo |-> As("string", dict.user.is, "photo")]]
=============================================================================
