SPECIFICATION Spec
CONSTANTS
    Forms <- MCForms
    Numbers <- MCNumbers
    Nil = Nil
    Ids = {"b1", "b2"}
    Accounts <- MCAccounts
    Here <- MCHere
    MaxWrites = 3
    MaxFaults = 2
INVARIANTS
    TypeOK
    NeverStops
    FieldsSurvive
    CacheIsTrue
    OwnWritesStay
CHECK_DEADLOCK FALSE
