SPECIFICATION FairSpec
CONSTANTS
    Watcher = {w1}
    ErrorLog = w1
    Signature = {s1, s2}
    Poison = {s2}
    Ingest = ingest
    WINDOW = 1
    MIN_OCCURRENCES = 1
    SilentAfter = 1
    MaxElapsed = 0
    MaxFaults = 1
PROPERTIES
    FailingReported
    RecoveryFound
    SilenceReported
    SilenceCleared
    IngestGapReported
