CONSTANTS
    phone = phone
    tablet = tablet
    ann = ann
    bob = bob
    eve = eve
    Clients = {phone, tablet}
    Users = {ann, bob, eve}
    UserOf <- ReaderAndOwner
    Owner = eve
    MaxTaps = 2
    MaxFaults = 2
SPECIFICATION FairSpec
INVARIANT OwnerNeverRequests
PROPERTY TapsSettle
