SPECIFICATION ResearchSpec
CONSTANTS
    Holdouts = {1}
    Snapshots = {"candles", "labels"}
    Development = {"candles"}
    QualifiedInputs = {"candles"}
    Pilots = {"p"}
    PilotAttempts = {1}
    PilotBudget = 1
    MaxEntries = 3
    MaxHour = 1
    MaxDamages = 1
INVARIANT
    HeadIsSynced
CHECK_DEADLOCK FALSE
