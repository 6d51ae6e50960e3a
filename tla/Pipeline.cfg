SPECIFICATION FairSpec
CONSTANTS
    u1 = u1
    u2 = u2
    w1 = w1
    w2 = w2
    w3 = w3
    w4 = w4
    Users <- MCUsers
    Writes <- MCWrites
    NoOne = NoOne
    Handshake = Handshake
    MaxPending = 2
    MaxFaults = 2
INVARIANTS
    TypeOK
    PipelineIsFront
    AnswersAreInOrder
    CallbacksMatch
    NothingIsLost
    StreamInStep
PROPERTIES
    ImplementsQueue
    QueueDrains
CHECK_DEADLOCK FALSE
