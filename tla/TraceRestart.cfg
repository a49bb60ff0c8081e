\* start_trace after stop_trace.
CONSTANTS
    CPU_available = 1
    NumJobs = 1
    NumPixels = 1
    MaxIterations = 4
    ElapsedTimes = {0}
    Calls <- StartStop
    MaxCalls = 2
    Iterations = {1}
    Times = {0}
    StartWhileBusy = FALSE
SPECIFICATION FairSpec
PROPERTY LockedTracerRestarts
CHECK_DEADLOCK FALSE
