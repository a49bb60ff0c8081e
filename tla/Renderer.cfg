\* Every operation, more rows than goroutines, adaptive sampling, failing saves.
CONSTANTS
    NumCPU = 2
    Width = 1
    Height = 3
    SamplesPerPixel = 1
    sppRoot = 1
    StratifiedSampling = FALSE
    AdaptiveSamples = 1
    FireflySamples = 1
    Operations <- AllOperations
    Iterations = {0, 2}
    PathTemplates = {TRUE, FALSE}
    SavesFail = TRUE
    MaxRuns = 2
SPECIFICATION FairSpec
INVARIANTS
    TypeOK
    RowsExclusive
    SendNeverBlocks
    RunInv
    ImagesWhole
    FilesComplete
PROPERTIES
    RowsInRounds
    CallCompletes
    RunReturns
CHECK_DEADLOCK FALSE
