SPECIFICATION Spec
CONSTANTS
    e1 = e1
    e2 = e2
    p1 = p1
    p2 = p2
    w1 = w1
    w2 = w2
    Epochs = {e1, e2}
    Partitions = {p1, p2}
    Encoders = {w1, w2}
    MaxBatch = 2
    MaxRaw = 3
    MaxFailures = 3
SYMMETRY DataSymmetry
INVARIANTS
    NeverRefusesItself
    ReaderResolves
    NamedFilesAreDurable
PROPERTIES
    ImplementsPublishedLog
CHECK_DEADLOCK TRUE
