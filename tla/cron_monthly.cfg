SPECIFICATION MCSpec
CONSTANTS
    NULL = NULL
    MINUTES = 4
    HOURS = 3
    Schedules <- AnyDays
    Dates <- ThreeMonths
    OVERDUE = 3
    MISSED = 2
    often = often
    seldom = seldom
    CronJob = {often, seldom}
    ScheduleOf <- JobSchedules
    Service = {s1, s2}
    Poison = {s2}
    STALE = 1
    MaxFaults = 1
    MaxCheckFaults = 1
INVARIANT OnScheduleNeverOverdue
