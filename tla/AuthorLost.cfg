SPECIFICATION Spec
CONSTANTS
    Forms <- MCForms
    Numbers <- MCNumbers
    Nil = Nil
    Ids = {"b1", "b2"}
    Accounts <- MCAccounts
    Here <- MCHere
    MaxWrites = 3
    MaxFaults = 2
INVARIANT AuthorSurvives
CHECK_DEADLOCK FALSE
