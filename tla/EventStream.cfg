\* A publishing thread next to the bridge thread, and one disturbance: a snapshot
\* command, a restart of the daemon or of the driver.
SPECIFICATION FairSpec
CONSTANTS
    Thread = {t1}
    NoEvent = NoEvent
    QueueCapacity = 1
    SocketCapacity = 4
    MaxContexts = 2
    MaxPublications = 3
    MaxDisturbances = 1
INVARIANTS TypeOK NoContextLost WrongOnlyIfOvertaken
PROPERTY ViewSettles
CHECK_DEADLOCK FALSE
