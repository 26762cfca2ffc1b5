\* Safety: two contexts, a driver crash, a late answer, a route change.
SPECIFICATION Spec
CONSTANTS
    r1 = r1
    r2 = r2
    c1 = c1
    c2 = c2
    Route <- MCRoute
    Context <- TwoContexts
    Stored <- EqualGenerations
    NoRoute = NoRoute
    NoSnapshot = NoSnapshot
    MaxAnnounceAttempts = 2
    ReadyAtCreation = FALSE
    MaxConnections = 2
    MaxCreations = 2
    MaxReports = 1
    MaxCrashes = 1
    MaxRestarts = 0
    MaxTimeouts = 1
INVARIANT TypeOK
PROPERTY AcceptedMeansAdopted
SYMMETRY ContextSymmetry
CHECK_DEADLOCK FALSE
