\* Liveness: trace and stop, no limit is reached.
CONSTANTS
    CPU_available = 2
    NumJobs = 3
    NumPixels = 1
    MaxIterations = 10
    ElapsedTimes = {1}
    Calls <- StartStop
    MaxCalls = 2
    Iterations = {1,2}
    Times = {0}
    StartWhileBusy = FALSE
SPECIFICATION FairSpec
INVARIANT TypeOK
PROPERTIES
    StopDrains
    TraceCompletes
    RendersAllRounds
CHECK_DEADLOCK FALSE
