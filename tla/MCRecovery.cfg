SPECIFICATION FairSpec
CONSTANTS
    Families = {"candle", "trade", "book", "other"}
    Baselines = {0, 1}
    Interval = 2
    SpanLimit = 3
    RepairCandles = 2
    PageRecords = 2
    MaxPages = 2
    MaxCandles = 2
    MaxRejections = 1
    MaxHead = 4
    MaxSequence = 3
INVARIANTS
    NoSilentGap
    CoverageIsEarned
PROPERTIES
    LossStaysVisible
    RepairSettles
CHECK_DEADLOCK TRUE
