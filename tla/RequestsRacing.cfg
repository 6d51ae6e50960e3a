CONSTANTS
    phone = phone
    tablet = tablet
    ann = ann
    bob = bob
    eve = eve
    Clients = {phone, tablet}
    Users = {ann, bob, eve}
    UserOf <- TwoReaders
    Owner = eve
    MaxTaps = 2
    MaxFaults = 2
SPECIFICATION Spec
INVARIANTS
    TypeOK
    StandingRequestsSurvive
    Basis
    AtMostOncePerTap
PROPERTY ImplementsArray
