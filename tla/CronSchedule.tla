---------------------------- MODULE CronSchedule ----------------------------
(***************************************************************************)
(* src/k8s/cron-schedule.ts: the longest gap between two runs of a cron     *)
(* schedule, from which the job watcher decides that a CronJob is overdue.  *)
(* An hour has MINUTES minutes and a day HOURS hours; a week has 7 days.    *)
(***************************************************************************)
EXTENDS Integers, FiniteSetsExt

CONSTANTS
    MINUTES, HOURS,
    OVERDUE,     \* OVERDUE_INTERVAL_MULTIPLE
    NULL

ASSUME CronAssumption ==
    /\ MINUTES \in Nat \ {0} /\ HOURS \in Nat \ {0} /\ OVERDUE \in Nat \ {0}
    /\ NULL \notin Nat

Day == HOURS * MINUTES
Week == 7 * Day

-----------------------------------------------------------------------------
(* One part of a field: *, a single value, a range or junk, with a step or  *)
(* without (NULL).  A single value with a step is open ended.               *)
PartValues(part, min, max) ==
    LET step == IF part.step = NULL THEN 1 ELSE part.step
        from == IF part.kind = "any" THEN min ELSE part.from
        to == CASE part.kind = "range" -> part.to
                [] part.kind = "single" /\ part.step = NULL -> part.from
                [] OTHER -> max
    IN  IF part.kind = "junk" \/ step <= 0 THEN {}
        ELSE {v \in min..max : from <= v /\ v <= to /\ (v - from) % step = 0}

expandField(field, min, max) ==
    UNION {PartValues(part, min, max) : part \in field}

\* Mutation: the days of the week are taken for no restriction.
RestrictsDatesOnly(s) == s.dom # NULL \/ s.month # NULL

restrictsDays(s) == s.dom # NULL \/ s.month # NULL \/ s.dow # NULL

runTimes(s) ==
    {h * MINUTES + m : h \in expandField(s.hour, 0, HOURS - 1),
                       m \in expandField(s.minute, 0, MINUTES - 1)}

later(numbers, n) == {m \in numbers : m > n}

\* Mutation: the gap across midnight is forgotten.
WithinDay(times) ==
    Max({0} \cup {Min(later(times, t)) - t : t \in {u \in times : later(times, u) # {}}})

(* From one run to the next, which may be tomorrow's first.                 *)
wait(times, t) ==
    IF later(times, t) = {} THEN Day - t + Min(times)
    ELSE Min(later(times, t)) - t

(* The widest gap between neighbours, the wrap past midnight included.      *)
widest(times) == Max({wait(times, t) : t \in times})

(* NULL when the schedule cannot be read.                                   *)
maxIntervalMinutes(s) ==
    IF ~s.readable \/ runTimes(s) = {} THEN NULL
    ELSE IF restrictsDays(s) THEN Max({widest(runTimes(s)), Week})
    ELSE widest(runTimes(s))

UNPARSEABLE_SCHEDULE_FALLBACK_MINUTES == Day

intervalMinutesOrFallback(s) ==
    IF maxIntervalMinutes(s) = NULL THEN UNPARSEABLE_SCHEDULE_FALLBACK_MINUTES
    ELSE maxIntervalMinutes(s)
=============================================================================
