SPECIFICATION Spec
CONSTANTS
    u1 = u1
    u2 = u2
    w1 = w1
    w2 = w2
    w3 = w3
    w4 = w4
    Users <- MCUsers
    Writes <- FourWrites
    NoOne = NoOne
    Handshake = Handshake
    MaxPending = 4
    MaxFaults = 0
SYMMETRY FourSymmetry
INVARIANT ErrorIsTrue
CHECK_DEADLOCK FALSE
