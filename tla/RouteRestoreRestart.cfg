\* The daemon restarts once and the route changes.
SPECIFICATION Spec
CONSTANTS
    r1 = r1
    r2 = r2
    c1 = c1
    c2 = c2
    Route <- MCRoute
    Context <- OneContext
    Stored <- EqualGenerations
    NoRoute = NoRoute
    NoSnapshot = NoSnapshot
    MaxAnnounceAttempts = 2
    ReadyAtCreation = TRUE
    MaxConnections = 2
    MaxCreations = 2
    MaxReports = 1
    MaxCrashes = 0
    MaxRestarts = 1
    MaxTimeouts = 0
PROPERTY AcceptedMeansAdopted
CHECK_DEADLOCK FALSE
