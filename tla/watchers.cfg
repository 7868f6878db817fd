SPECIFICATION MCFairSpec
CONSTANTS
    NULL = NULL
    MINUTES = 4
    HOURS = 3
    Schedules <- DailyOrWeekly
    Dates <- ThreeMonths
    OVERDUE = 2
    MISSED = 2
    often = often
    seldom = seldom
    CronJob = {often, seldom}
    ScheduleOf <- JobSchedules
    Service = {s1, s2}
    Poison = {s2}
    STALE = 1
    MaxFaults = 1
    MaxCheckFaults = 1
INVARIANTS
    TypesOK
    ExactForDaily
    WeeklyRoundsUp
PROPERTIES
    OverdueReported
    RecoveryClosed
    JitterTolerated
    BlindnessShows
    OutageReported
    AlertsEnd
    RegistryBugsQuiet
