---------------------------- MODULE CronCalendar ----------------------------
(***************************************************************************)
(* What cron-schedule.ts promises of the longest gap it computes, compared  *)
(* with a calendar: one schedule at a time, any of Schedules.               *)
(***************************************************************************)
EXTENDS CronSchedule, Sequences

CONSTANTS
    Schedules,   \* the schedules to evaluate
    Dates        \* the calendar: the date of every day, from a Sunday on

ASSUME CalendarAssumption ==
    Dates \in Seq([month : Nat, dom : Nat]) /\ Len(Dates) > 1

VARIABLE schedule   \* of the CronJob that is looked at

ScheduleInit == schedule \in Schedules

ScheduleSpec == ScheduleInit /\ [][UNCHANGED schedule]_schedule

-----------------------------------------------------------------------------
(* The reference *)

(* Days of the month and of the week widen each other, as in cron.          *)
RunsOn(s, day) ==
    /\ s.month # NULL => Dates[day].month \in s.month
    /\ \/ s.dom = NULL /\ s.dow = NULL
       \/ s.dom # NULL /\ Dates[day].dom \in s.dom
       \/ s.dow # NULL /\ (day - 1) % 7 \in s.dow

RunDays(s) == {day \in DOMAIN Dates : RunsOn(s, day)}

(* From the last run of a day to the first of the next day there is one.    *)
Overnight(days, times) ==
    {(Min(later(days, day)) - day) * Day - Max(times) + Min(times) :
         day \in {e \in days : later(days, e) # {}}}

(* From one run to the next on the same day.                                *)
Neighbours(times) ==
    {g \in {u - t : t \in times, u \in times} :
         g > 0 /\ \E t \in times : t + g \in times /\ \A u \in times : u <= t \/ u >= t + g}

(* The longest wait between two runs of the calendar.                       *)
ReferenceGap(s) ==
    Max({0} \cup Overnight(RunDays(s), runTimes(s)) \cup Neighbours(runTimes(s)))

-----------------------------------------------------------------------------
Readable(s) == s.readable /\ runTimes(s) # {}

interval == intervalMinutesOrFallback(schedule)

(* For a job that runs every day the arithmetic is exact: neither the wrap  *)
(* past midnight nor uneven spacing is missed, which would invent or delay  *)
(* alerts (cron-schedule.ts:92-97).                                         *)
ExactForDaily ==
    Readable(schedule) /\ ~restrictsDays(schedule) => interval = ReferenceGap(schedule)

(* A job that runs on given days of the week never waits longer than its    *)
(* interval, whichever days and however many runs a day (lines 73-78).      *)
WeeklyRoundsUp ==
    Readable(schedule) /\ schedule.dom = NULL /\ schedule.month = NULL
        => interval >= ReferenceGap(schedule)

(* cron-schedule.ts:16-18: "A wrong-but-large interval delays an alert; a   *)
(* wrong-but-small one invents alerts for jobs that are fine. ... every     *)
(* fallback here rounds up": a job that is on schedule is never overdue,    *)
(* days of the month included, which line 76 bounds by a week.              *)
OnScheduleNeverOverdue ==
    Readable(schedule) => OVERDUE * interval >= ReferenceGap(schedule)
=============================================================================
