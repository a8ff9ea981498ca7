SPECIFICATION Spec
CONSTANTS
    MaxRecords = 2
    Batch = 1
    MaxJobs = 1
    MaxSignals = 2
    MaxFaults = 1
    MaxShifts = 1
    MaxEpochs = 2
    MaxManifests = 2
    Roles = {"raw", "normalized"}
    Allowance = 1
    StagingLimit = 2
    MaxTroubles = 1
    HasModel = TRUE
    MaxCancels = 2
    MaxMishaps = 1
INVARIANTS
    HistoryIsWhole
    CleanExitIsComplete
    ReleasedWhenUnused
    QuietAfterReturn
PROPERTIES
    AnchorsOnlyAdvance
    CloseCompletes
    RecoveryAnswered
    Progress
    EverythingPublished
    CatchesUp
    StopEnds
    WorkerReturns
CHECK_DEADLOCK FALSE
