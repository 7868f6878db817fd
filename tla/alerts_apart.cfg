SPECIFICATION MCSpec
CONSTANTS
    NULL = NULL
    f1 = f1
    s1 = s1
    Fingerprint = {f1}
    Service = {s1}
    AlertId = {1, 2}
    Worker = {w1, w2}
    Firers = {w1}
    Resolvers = {w1}
    Expirers = {w1}
    Sweepers = {w2}
    Operators = {w2}
    Problems <- WatcherProblem
    FLAP_WINDOW = 1
    REPEAT_BACKOFF <- Backoff12
    STALE_ALERT = 2
    MaxOccurrence = 3
    SourcePeriod = 1
    MaxOpTicks = 1
    MaxTime = 4
    MaxFaults = 1
    MaxRequests = 1
INVARIANTS
    OpenAlertsKnown
    ErrorLogTypesOK
PROPERTIES
    KeepsPromise
    RecoveryRetractsReport
    RepeatsSpaced
    NoFalseRecovery
