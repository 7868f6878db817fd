SPECIFICATION MCFairSpec
CONSTANTS
    NONE = NONE
    Worker = {w1, w2}
    Fingerprint = {"job", "watcher", "janitor"}
    About <- Alerts
    Poison = {"janitor"}
    WINDOW = 2
    STALE = 3
    MaxFaults = 1
    Principal = {p1}
    TTL = 1
    HORIZON = 1
    LIFE = 4
    MaxIds = 2
    MaxKeys = 3
    Name = {n1}
    Event = {e1}
    Handler = {h1, h2}
    Ingest = {s1, s2}
    Service = {s1}
INVARIANTS
    TypesOK
    DecisionsBounded
    OptInOnly
    AnnouncedOnce
    FailsClosed
    AcceptedWorked
    ExpiryForewarned
    StoredOnce
    BaselineWasHeard
PROPERTIES
    AlertsDecided
    QuietWhenSeen
    SilenceShows
    NoSilentDay
