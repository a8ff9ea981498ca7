SPECIFICATION Spec
CONSTANTS
    MaxUpdates = 4
    MaxBreaks = 2
    IntakeLimit = 2
    SeenLimit = 2
    Capacity = 3
    Reserve = 1
    Page = 2
    Shifts <- ClockShifts
    MaxOffset = 1
    MaxUncertainty = 6
    MaxAge = 6
    MaxStep = 2
    MaxGap = 2
    Holdover = 4
    MaxNow = 3
    MaxShifts = 2
    MaxSamples = 3
    Span = 2
    MaxCandles = 3
    MaxInputs = 3
    Times = {1, 4, 7}
    Radius = 0
    Policies <- RecipePolicies
    Configs <- ReplayConfigs
    Captures <- CoverageCaptures
    Horizons = {1}
    Deadline = 0
    End = 1
    Versions = 1
    MaxEvents = 8
    Attempts = 1
    MaxTime = 2
    MaxShakes = 1
    MaxCrashes = 1
    MaxFetches = 2
    Holdouts = {1}
    Snapshots = {"candles", "labels"}
    Development = {"candles"}
    QualifiedInputs = {"candles"}
    Pilots = {"p"}
    PilotAttempts = {1}
    PilotBudget = 1
    MaxEntries = 3
    MaxHour = 1
    MaxDamages = 1
INVARIANTS
    NothingLostSilently
    HeadroomKept
    FinalityIsNotEarly
    ReplaySeesNoFuture
    
    CertificatesAreEarned
    SuccessIsPublished
    AuditStands
PROPERTY
    EveryPublicationCertified
CHECK_DEADLOCK FALSE
