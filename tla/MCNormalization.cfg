SPECIFICATION Spec
CONSTANTS
    k1 = k1
    k2 = k2
    p1 = p1
    p2 = p2
    CandleKeys = {k1, k2}
    Prices = {p1, p2}
    MaxRaw = 3
    MaxFailures = 2
SYMMETRY DataSymmetry
INVARIANTS
    OutcomesMatchTable
    OneOutcomePerRecord
    ReopenSucceeds
CHECK_DEADLOCK TRUE
