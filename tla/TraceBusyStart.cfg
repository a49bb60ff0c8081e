\* start_trace called while an iteration runs.
CONSTANTS
    CPU_available = 2
    NumJobs = 3
    NumPixels = 1
    MaxIterations = 3
    ElapsedTimes = {0}
    Calls <- StartStop
    MaxCalls = 2
    Iterations = {1}
    Times = {0}
    StartWhileBusy = TRUE
SPECIFICATION Spec
INVARIANTS
    BusyCountsInFlight
    FirstIterationSafe
CHECK_DEADLOCK FALSE
