SPECIFICATION Spec
CONSTANTS
    kMaxSpawnAttempts = 2
    MaxFaults = 2
    MaxSurprises = 1
INVARIANTS TypeOK SingleOwner OwnedIsReal
PROPERTY OwnerSettles
