SPECIFICATION Spec
CONSTANTS
    Route = {"r1", "r2"}
    Snapshot <- MCSnapshot
    NoSnapshot = NoSnapshot
    Torn = Torn
    Kept <- MCKept
    NoRoute = NoRoute
    CachedRoute = "r1"
    Oversized = Oversized
    MaxCorruptions = 1
    MaxFrames = 5
    MaxFaults = 1
INVARIANTS TypeOK StoredAcceptedOrUnsent ToldMeansStored SidesAgree SurvivesCorruption
PROPERTY ImplementsAtomicStore
CHECK_DEADLOCK FALSE
