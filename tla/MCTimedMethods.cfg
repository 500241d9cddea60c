SPECIFICATION TimedSpec
CONSTANTS
    MaxTimers = 3
    CallsMayFail = TRUE
    r1 = r1
    r2 = r2
    r3 = r3
    t1 = t1
    t2 = t2
    t3 = t3
    f1 = f1
    f2 = f2
    f3 = f3
    Requests <- ThreeRequests
    Tracks <- ThreeTracks
    Files <- ThreeFiles
    Namings <- OwnOrShared
    DeletionEnabled = TRUE
    ManagerDeletes = TRUE
    SendMayThrow = TRUE
    Loads <- SomeLoads
INVARIANTS
    SchedulerTypeOK
    OnlyCurrentWaits
    RemovalTypeOK
    OneWaits
    SuccessMeansGone
    DeletedForACall
PROPERTIES
    PauseNeverStarts
    EachTimerEnds
    EventuallyAnswered
\* Once every call is answered and AIMP plays nothing, nothing is left to do.
CHECK_DEADLOCK FALSE
