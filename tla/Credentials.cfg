SPECIFICATION FairSpec
CONSTANTS
    ann = ann
    bob = bob
    Users <- MCUsers
    NoUser = NoUser
    Unread = Unread
    MaxChanges = 2
    MaxBreaks = 1
INVARIANTS
    TypeOK
    SentByTheirUser
    LabelsAreTrue
    OneTokenAtATime
PROPERTY CatchesUp
CHECK_DEADLOCK FALSE
