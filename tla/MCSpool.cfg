SPECIFICATION Spec
CONSTANTS
    c1 = c1
    c2 = c2
    k1 = k1
    k2 = k2
    Callers = {c1, c2}
    Keys = {k1, k2}
    Capacity = 1
    MetaCapacity = 1
    MetaStreams = 1
    MaxEnvelopes = 1
    MaxRecords = 2
    MaxVersion = 2
    MaxCrashes = 1
SYMMETRY CallerSymmetry
INVARIANTS
    AcceptedIsDurable
    StoredOnceUnlessAnswerLost
    NoLostUpdate
    NoStrandedCaller
CHECK_DEADLOCK TRUE
