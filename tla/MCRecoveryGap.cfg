SPECIFICATION Spec
CONSTANTS
    Families = {"candle", "trade", "book", "other"}
    Baselines = {0, 1}
    Interval = 2
    SpanLimit = 3
    RepairCandles = 2
    PageRecords = 2
    MaxPages = 2
    MaxCandles = 2
    MaxRejections = 1
    MaxHead = 4
    MaxSequence = 3
PROPERTIES
    NoInventedGap
CHECK_DEADLOCK TRUE
