SPECIFICATION FairSpec
CONSTANTS
    None = None
    r1 = r1  r2 = r2
    Requests = {r1, r2}
    PoolSize = 1
    HeaderLimit = 1
    HandlerLimit = 3
    RollbackLimit = 1
    CleanupLimit = 3
    WriteLimit = 4
    ShutdownLimit = 3
    LastSignal = 3
    MaxClock = 11
INVARIANTS IInv CutOnlyLate CleanExitAnswersAll ExitsInTime
PROPERTIES SignalEnds
CHECK_DEADLOCK FALSE
