SPECIFICATION FairSpec
CONSTANTS
    Views = {"first", "second"}
    Books <- MCBooks
    ImageOf <- MCImageOf
    Kept = {"small", "large"}
    Large = {"large"}
    Nil = Nil
    MaxLoads = 3
    MaxFaults = 1
INVARIANTS
    TypeOK
    CoverMatches
PROPERTY CoverOrError
CHECK_DEADLOCK FALSE
