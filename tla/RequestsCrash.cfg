CONSTANTS
    phone = phone
    tablet = tablet
    ann = ann
    bob = bob
    eve = eve
    Clients = {phone, tablet}
    Users = {ann, bob, eve}
    UserOf <- TwoReaders
    Owner = eve
    MaxTaps = 1
    MaxFaults = 1
SPECIFICATION Spec
INVARIANT NeverCrashes
