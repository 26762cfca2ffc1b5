\* A second effect is created on the same connection.
SPECIFICATION FairSpec
CONSTANTS
    r1 = r1
    r2 = r2
    c1 = c1
    c2 = c2
    Route <- MCRoute
    Context <- TwoContexts
    Stored <- EqualGenerations
    NoRoute = NoRoute
    NoSnapshot = NoSnapshot
    MaxAnnounceAttempts = 2
    ReadyAtCreation = TRUE
    MaxConnections = 1
    MaxCreations = 2
    MaxReports = 0
    MaxCrashes = 0
    MaxRestarts = 0
    MaxTimeouts = 0
PROPERTY NewContextRestored
CHECK_DEADLOCK FALSE
