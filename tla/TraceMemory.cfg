\* Safety with every call, buckets of two pixels, timed traces.
CONSTANTS
    CPU_available = 2
    NumJobs = 3
    NumPixels = 2
    MaxIterations = 4
    ElapsedTimes = {0,2}
    Calls <- AllCalls
    MaxCalls = 2
    Iterations = {1}
    Times = {0,2}
    StartWhileBusy = FALSE
SPECIFICATION Spec
INVARIANTS
    BusyCountsWorkers
    QueuesKeepJobs
    BucketsExclusive
    ExposureCorrect
    BucketsComplete
    HandshakeOrdered
    IInv
PROPERTIES
    StopBoundsWrites
    RendersInRounds
CHECK_DEADLOCK FALSE
