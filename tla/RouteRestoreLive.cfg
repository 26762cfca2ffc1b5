\* Liveness of the control loop under every fault, and of the restore.
SPECIFICATION FairSpec
CONSTANTS
    r1 = r1
    r2 = r2
    c1 = c1
    c2 = c2
    Route <- MCRoute
    Context <- OneContext
    Stored <- OlderGeneration
    NoRoute = NoRoute
    NoSnapshot = NoSnapshot
    MaxAnnounceAttempts = 2
    ReadyAtCreation = TRUE
    MaxConnections = 2
    MaxCreations = 2
    MaxReports = 1
    MaxCrashes = 1
    MaxRestarts = 1
    MaxTimeouts = 0
PROPERTIES LoopNeverWedges RouteEventuallyRestored
CHECK_DEADLOCK FALSE
