SPECIFICATION Spec
CONSTANTS
    NULL = NULL
    f1 = f1
    s1 = s1
    Fingerprint = {f1}
    Service = {s1}
    AlertId = {1, 2}
    Worker = {w1, w2}
    Firers = {w1, w2}
    Resolvers = {w1, w2}
    Expirers = {w1, w2}
    Sweepers = {w1, w2}
    Operators = {w1, w2}
    Problems <- WatcherProblem
    FLAP_WINDOW = 1
    REPEAT_BACKOFF <- Backoff12
    STALE_ALERT = 0
    MaxOccurrence = 3
    SourcePeriod = 0
    MaxOpTicks = 1
    MaxTime = 1
    MaxFaults = 0
    MaxRequests = 1
SYMMETRY WorkerSymmetry
INVARIANTS
    TypeOK
    OneActivePerFingerprint
    RowsWellFormed
