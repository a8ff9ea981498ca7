SPECIFICATION Spec
CONSTANTS
    N = 2
    Deadline <- Deadlines
    MaxAttempts = 2
    MaxActive = 1
    TrialBudget = 3
    MaxTime = 2
    MaxTroubles = 2
INVARIANTS
    SucceededIsEarned
    RunningIsHeld
    JournalHasNoHoles
PROPERTIES
    ShutdownNeverCancels
CHECK_DEADLOCK FALSE
