SPECIFICATION FairSpec
CONSTANTS
    MaxExec = 3
    MaxBoot = 2
    LongTimeout = FALSE
INVARIANTS
    TypeOK
    TimeoutIsOwn
    ExpiredIsReported
    KillIsOwn
    SessionKept
    
PROPERTIES
    FinishedNeverTimesOut
    ExecutionReturns
    ImplementsTimedCall
