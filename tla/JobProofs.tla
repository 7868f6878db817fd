------------------------------ MODULE JobProofs ------------------------------
(***************************************************************************)
(* Proofs about the schedules and the two watchers, for any length of an    *)
(* hour and a day, any schedules, CronJobs and services and any number of   *)
(* failures: that the computed interval is the longest gap, the types, that *)
(* a job whose gaps its multiple allows is never alerted on, that a wrong   *)
(* registry entry is no outage, that alerts that are right stay as they     *)
(* are, and that one failure costs one job or one service.                  *)
(***************************************************************************)
EXTENDS MCWatchers, FiniteSetTheorems, SequenceTheorems, TLAPS

-----------------------------------------------------------------------------
(* The least and the greatest of a set *)

(* The order of the naturals is well founded.                               *)
LEMMA Smallest ==
  ASSUME NEW S \in SUBSET Nat, S # {} PROVE \E m \in S : \A n \in S : m <= n
<1>1. PICK m \in S : \A n \in S : <<n, m>> \notin OpToRel(<, Nat)
  BY NatLessThanWellFounded, WFMin
<1>2. ASSUME NEW n \in S PROVE ~(n < m)
  <2>1. <<n, m>> \in Nat \X Nat /\ <<n, m>> \notin OpToRel(<, Nat)
    BY <1>1
  <2>2. ~(<<n, m>>[1] < <<n, m>>[2])
    BY <2>1, Zenon DEF OpToRel
  <2> QED BY <2>2
<1> QED BY <1>2

LEMMA MinOf ==
  ASSUME NEW S \in SUBSET Nat, S # {} PROVE Min(S) \in S /\ \A n \in S : Min(S) <= n
BY Smallest DEF Min

LEMMA MaxOf ==
  ASSUME NEW S \in SUBSET Nat, S # {}, NEW b \in Nat, \A n \in S : n <= b
  PROVE  Max(S) \in S /\ \A n \in S : n <= Max(S)
<1> DEFINE Below == {b - n : n \in S}
<1>1. Below \in SUBSET Nat /\ Below # {}
  <2>1. ASSUME NEW n \in S PROVE b - n \in Nat
    <3>1. n \in Nat /\ n <= b
      OBVIOUS
    <3> QED BY <3>1
  <2> QED BY <2>1
<1>2. PICK m \in Below : \A n \in Below : m <= n
  BY <1>1, Smallest
<1>3. PICK x \in S : m = b - x
  BY <1>2
<1>4. \A n \in S : x >= n
  BY <1>2, <1>3
<1> QED BY <1>4 DEF Max

-----------------------------------------------------------------------------
(* Schedules *)

LEMMA DayType == Day \in Nat \ {0} /\ Week = 7 * Day
<1>1. MINUTES \in Nat \ {0} /\ HOURS \in Nat \ {0}
  BY CronAssumption DEF CronAssumption
<1>2. \A h, m \in Nat \ {0} : h * m \in Nat \ {0}
  OBVIOUS
<1> QED BY <1>1, <1>2 DEF Day, Week

(* Whatever its fields say, a schedule runs within the day.                 *)
LEMMA RunTimesType ==
  ASSUME NEW s PROVE runTimes(s) \subseteq 0..(Day - 1)
<1>1. MINUTES \in Nat \ {0} /\ HOURS \in Nat \ {0}
  BY CronAssumption DEF CronAssumption
<1>2. ASSUME NEW field, NEW max \in Nat PROVE expandField(field, 0, max) \subseteq 0..max
  BY DEF expandField, PartValues
<1>3. ASSUME NEW h \in 0..(HOURS - 1), NEW m \in 0..(MINUTES - 1)
      PROVE  h * MINUTES + m \in 0..(Day - 1)
  <2>1. \A a, b, c \in Nat : a <= b - 1 => a * c \in Nat /\ a * c <= b * c - c
    OBVIOUS
  <2>2. h * MINUTES \in Nat /\ h * MINUTES <= HOURS * MINUTES - MINUTES
    BY <1>1, <2>1
  <2>3. HOURS * MINUTES \in Nat
    BY DayType DEF Day
  <2> QED BY <1>1, <2>2, <2>3 DEF Day
<1>4. ASSUME NEW t \in runTimes(s) PROVE t \in 0..(Day - 1)
  <2>1. PICK h \in expandField(s.hour, 0, HOURS - 1),
             m \in expandField(s.minute, 0, MINUTES - 1) : t = h * MINUTES + m
    BY <1>4 DEF runTimes
  <2>2. HOURS - 1 \in Nat /\ MINUTES - 1 \in Nat
    BY <1>1
  <2> QED BY <1>2, <1>3, <2>1, <2>2
<1> QED BY <1>4

(* What the proofs below assume of a set of run times.                      *)
Times(times) == times \subseteq 0..(Day - 1) /\ times # {}

LEMMA LaterType ==
  ASSUME NEW S \in SUBSET Nat, NEW n \in Nat, later(S, n) # {}
  PROVE  /\ Min(later(S, n)) \in S /\ Min(later(S, n)) \in Nat /\ Min(later(S, n)) > n
         /\ \A m \in S : m <= n \/ m >= Min(later(S, n))
<1>1. later(S, n) \in SUBSET Nat
  BY DEF later
<1>2. Min(later(S, n)) \in later(S, n) /\ \A m \in later(S, n) : Min(later(S, n)) <= m
  BY <1>1, MinOf
<1>3. \A m \in S : m <= n \/ m \in later(S, n)
  BY DEF later
<1> QED BY <1>2, <1>3 DEF later

(* The first and the last run of the day.                                   *)
LEMMA EndsOf ==
  ASSUME NEW times, Times(times)
  PROVE  /\ Min(times) \in times /\ Max(times) \in times
         /\ \A t \in times : Min(times) <= t /\ t <= Max(times)
         /\ Min(times) \in Nat /\ Max(times) \in Nat /\ Max(times) <= Day - 1
<1>1. times \in SUBSET Nat /\ times # {} /\ \A t \in times : t <= Day - 1
  BY DayType DEF Times
<1>2. Day - 1 \in Nat
  BY DayType
<1> QED BY <1>1, <1>2, MinOf, MaxOf

(* The wait after a run is never longer than a day.                         *)
LEMMA WaitType ==
  ASSUME NEW times, Times(times), NEW t \in times PROVE wait(times, t) \in 1..Day
<1>1. times \in SUBSET Nat /\ t \in Nat /\ \A u \in times : u <= Day - 1
  BY DayType DEF Times
<1>2. CASE later(times, t) = {}
  BY <1>1, <1>2, EndsOf, DayType DEF wait
<1>3. CASE later(times, t) # {}
  <2>1. Min(later(times, t)) \in times /\ Min(later(times, t)) > t
    BY <1>1, <1>3, LaterType
  <2>2. Min(later(times, t)) \in Nat /\ Min(later(times, t)) <= Day - 1
    BY <1>1, <2>1
  <2>3. wait(times, t) = Min(later(times, t)) - t
    BY <1>3 DEF wait
  <2> QED BY <1>1, <2>1, <2>2, <2>3, DayType
<1> QED BY <1>2, <1>3

LEMMA WidestOf ==
  ASSUME NEW times, Times(times)
  PROVE  /\ widest(times) \in 1..Day
         /\ \A t \in times : wait(times, t) <= widest(times)
         /\ \E t \in times : widest(times) = wait(times, t)
<1> DEFINE Waits == {wait(times, t) : t \in times}
<1>1. Waits \in SUBSET Nat /\ Waits # {} /\ \A n \in Waits : n \in 1..Day
  <2>1. \A t \in times : wait(times, t) \in 1..Day
    BY WaitType
  <2>2. 1..Day \subseteq Nat
    BY DayType
  <2> QED BY <2>1, <2>2 DEF Times
<1>2. Max(Waits) \in Waits /\ \A n \in Waits : n <= Max(Waits)
  <2>1. Day \in Nat /\ \A n \in Waits : n <= Day
    BY <1>1, DayType
  <2> HIDE DEF Waits
  <2> QED BY <1>1, <2>1, MaxOf
<1>3. widest(times) = Max(Waits)
  BY DEF widest
<1> QED BY <1>1, <1>2, <1>3

(* The last run waits for tomorrow's first, every other for a later one.    *)
LEMMA LastRun ==
  ASSUME NEW times, Times(times)
  PROVE  /\ wait(times, Max(times)) = Day - Max(times) + Min(times)
         /\ \A t \in times : t # Max(times) => later(times, t) # {}
<1>1. times \subseteq Nat
  BY DayType DEF Times
<1>2. Max(times) \in times /\ Max(times) \in Nat /\ \A t \in times : t <= Max(times)
  BY EndsOf
<1>3. later(times, Max(times)) = {}
  <2> SUFFICES ASSUME NEW t \in times PROVE ~(t > Max(times))
    BY DEF later
  <2>1. t \in Nat /\ t <= Max(times)
    BY <1>1, <1>2
  <2> QED BY <1>2, <2>1
<1>4. ASSUME NEW t \in times, t # Max(times) PROVE Max(times) \in later(times, t)
  <2>1. t \in Nat /\ t <= Max(times)
    BY <1>1, <1>2
  <2>2. Max(times) > t
    BY <1>2, <1>4, <2>1
  <2> QED BY <1>2, <2>2 DEF later
<1> QED BY <1>3, <1>4 DEF wait

(* The gaps of the reference within a day are the waits of the code.        *)
LEMMA NeighboursWait ==
  ASSUME NEW times, Times(times)
  PROVE  /\ \A g \in Neighbours(times) : \E t \in times : g = wait(times, t)
         /\ \A t \in times : later(times, t) # {} => wait(times, t) \in Neighbours(times)
<1>1. times \in SUBSET Nat
  BY DayType DEF Times
<1>2. ASSUME NEW g \in Neighbours(times) PROVE \E t \in times : g = wait(times, t)
  <2>1. PICK t \in times : t + g \in times /\ \A u \in times : u <= t \/ u >= t + g
    BY DEF Neighbours
  <2>2. g \in Int /\ g > 0
    BY <1>1 DEF Neighbours
  <2>3. t + g \in later(times, t)
    BY <1>1, <2>1, <2>2 DEF later
  <2>4. Min(later(times, t)) \in times /\ Min(later(times, t)) > t
        /\ \A m \in times : m <= t \/ m >= Min(later(times, t))
    BY <1>1, <2>3, LaterType
  <2>5. Min(later(times, t)) = t + g
    <3>1. t \in Nat /\ Min(later(times, t)) \in Nat /\ t + g \in Nat
      BY <1>1, <2>1, <2>4
    <3>2. Min(later(times, t)) >= t + g /\ t + g >= Min(later(times, t))
      BY <2>1, <2>2, <2>4, <3>1
    <3> QED BY <3>1, <3>2
  <2>6. wait(times, t) = g
    BY <1>1, <2>2, <2>3, <2>5 DEF wait
  <2> QED BY <2>6
<1>3. ASSUME NEW t \in times, later(times, t) # {}
      PROVE  wait(times, t) \in Neighbours(times)
  <2>1. Min(later(times, t)) \in times /\ Min(later(times, t)) > t
        /\ \A m \in times : m <= t \/ m >= Min(later(times, t))
    BY <1>1, <1>3, LaterType
  <2>2. wait(times, t) = Min(later(times, t)) - t
    BY <1>3 DEF wait
  <2>3. t + wait(times, t) = Min(later(times, t)) /\ wait(times, t) > 0
    <3>1. t \in Nat /\ Min(later(times, t)) \in Nat
      BY <1>1, <2>1
    <3> QED BY <2>1, <2>2, <3>1
  <2> QED BY <2>1, <2>2, <2>3 DEF Neighbours
<1> QED BY <1>2, <1>3

(* What the code computes for a schedule that it can read.                  *)
LEMMA IntervalOf ==
  ASSUME NEW s, Readable(s)
  PROVE  /\ Times(runTimes(s))
         /\ ~restrictsDays(s) => intervalMinutesOrFallback(s) = widest(runTimes(s))
         /\ restrictsDays(s) => intervalMinutesOrFallback(s) = Week
<1>1. Times(runTimes(s))
  BY RunTimesType DEF Readable, Times
<1>2. widest(runTimes(s)) \in 1..Day
  BY <1>1, WidestOf
<1>3. NULL \notin Nat /\ Day \in Nat \ {0} /\ Week \in Nat /\ Day <= Week
  BY CronAssumption, DayType DEF CronAssumption
<1>4. Max({widest(runTimes(s)), Week}) = Week
  <2> DEFINE S == {widest(runTimes(s)), Week}
  <2>1. S \in SUBSET Nat /\ S # {} /\ \A n \in S : n <= Week
    BY <1>2, <1>3
  <2>2. Max(S) \in S /\ \A n \in S : n <= Max(S)
    BY <1>3, <2>1, MaxOf
  <2>3. Max(S) \in Nat /\ Max(S) <= Week /\ Week <= Max(S)
    BY <2>1, <2>2
  <2> QED BY <1>3, <2>3
<1>5. CASE ~restrictsDays(s)
  <2>1. maxIntervalMinutes(s) = widest(runTimes(s))
    BY <1>5 DEF maxIntervalMinutes, Readable
  <2>2. widest(runTimes(s)) # NULL
    BY <1>2, <1>3
  <2> QED BY <1>1, <1>5, <2>1, <2>2 DEF intervalMinutesOrFallback
<1>6. CASE restrictsDays(s)
  <2>1. maxIntervalMinutes(s) = Week
    BY <1>4, <1>6 DEF maxIntervalMinutes, Readable
  <2>2. Week # NULL
    BY <1>3
  <2> QED BY <1>1, <1>6, <2>1, <2>2 DEF intervalMinutesOrFallback
<1> QED BY <1>5, <1>6

(* Whatever the schedule says, the job watcher gets a positive interval.    *)
LEMMA IntervalType ==
  ASSUME NEW s PROVE intervalMinutesOrFallback(s) \in Nat \ {0}
<1>1. Day \in Nat \ {0} /\ Week \in Nat \ {0}
  BY DayType
<1>2. CASE Readable(s)
  <2>1. widest(runTimes(s)) \in 1..Day
    BY <1>2, IntervalOf, WidestOf
  <2> QED BY <1>1, <1>2, <2>1, IntervalOf
<1>3. CASE ~Readable(s)
  <2>1. maxIntervalMinutes(s) = NULL
    BY <1>3 DEF Readable, maxIntervalMinutes
  <2> QED BY <1>1, <2>1 DEF intervalMinutesOrFallback, UNPARSEABLE_SCHEDULE_FALLBACK_MINUTES
<1> QED BY <1>2, <1>3

(* The days of the calendar are numbered one after the other.               *)
LEMMA DatesType ==
  /\ Len(Dates) \in Nat /\ Len(Dates) > 1 /\ DOMAIN Dates = 1..Len(Dates)
  /\ \A s : RunDays(s) \in SUBSET (1..Len(Dates))
<1>1. Dates \in Seq([month : Nat, dom : Nat]) /\ Len(Dates) > 1
  BY CalendarAssumption DEF CalendarAssumption
<1> QED BY <1>1, LenProperties DEF RunDays

(* A job that runs every day waits for the next day, and no longer.         *)
LEMMA DailyOvernight ==
  ASSUME NEW s, Readable(s), ~restrictsDays(s)
  PROVE  Overnight(RunDays(s), runTimes(s)) = {wait(runTimes(s), Max(runTimes(s)))}
<1> DEFINE T == runTimes(s)
           D == RunDays(s)
<1>1. D = 1..Len(Dates)
  BY DatesType DEF RunDays, RunsOn, restrictsDays
<1>2. Times(T)
  BY IntervalOf
<1>3. wait(T, Max(T)) = Day - Max(T) + Min(T)
  BY <1>2, LastRun
<1>4. D \in SUBSET Nat
  BY <1>1, DatesType
<1>5. ASSUME NEW day \in D, later(D, day) # {} PROVE Min(later(D, day)) - day = 1
  <2>1. Min(later(D, day)) \in D /\ Min(later(D, day)) \in Nat /\ Min(later(D, day)) > day
        /\ \A e \in D : e <= day \/ e >= Min(later(D, day))
    BY <1>4, <1>5, LaterType
  <2>2. day \in Nat /\ day + 1 \in D
    BY <1>1, <2>1, DatesType
  <2>3. Min(later(D, day)) <= day + 1
    BY <2>1, <2>2
  <2> QED BY <2>1, <2>2, <2>3
<1>6. 1 \in D /\ later(D, 1) # {}
  <2>1. 2 \in D /\ 1 \in D
    BY <1>1, DatesType
  <2> QED BY <2>1 DEF later
<1>7. 1 * Day = Day
  BY DayType
<1>8. \A day \in {e \in D : later(D, e) # {}} :
         (Min(later(D, day)) - day) * Day - Max(T) + Min(T) = wait(T, Max(T))
  BY <1>3, <1>5, <1>7
<1> HIDE DEF T, D
<1>9. Overnight(D, T) = {wait(T, Max(T))}
  BY <1>6, <1>8 DEF Overnight
<1> QED BY <1>9 DEF T, D

(* For a job that runs every day the arithmetic is exact, whatever its      *)
(* minutes and hours are.                                                   *)
LEMMA DailyExact ==
  ASSUME NEW s, Readable(s), ~restrictsDays(s)
  PROVE  intervalMinutesOrFallback(s) = ReferenceGap(s)
<1> DEFINE T == runTimes(s)
           All == {0} \cup Overnight(RunDays(s), T) \cup Neighbours(T)
<1>1. Times(T) /\ intervalMinutesOrFallback(s) = widest(T)
  BY IntervalOf
<1>2. /\ widest(T) \in 1..Day
      /\ \A t \in T : wait(T, t) <= widest(T) /\ wait(T, t) \in 1..Day
      /\ \E t \in T : widest(T) = wait(T, t)
  BY <1>1, WidestOf, WaitType
<1>3. Max(T) \in T
  BY <1>1, EndsOf
<1>4. \A n \in All : n = 0 \/ \E t \in T : n = wait(T, t)
  BY <1>1, <1>3, DailyOvernight, NeighboursWait
<1>5. widest(T) \in All
  <2>1. PICK t \in T : widest(T) = wait(T, t)
    BY <1>2
  <2>2. CASE t = Max(T)
    BY <2>1, <2>2, DailyOvernight
  <2>3. CASE t # Max(T)
    BY <1>1, <2>1, <2>3, LastRun, NeighboursWait
  <2> QED BY <2>2, <2>3
<1>6. ReferenceGap(s) = Max(All)
  BY DEF ReferenceGap
<1> HIDE DEF All, T
<1>7. All \in SUBSET Nat /\ \A n \in All : n <= widest(T)
  <2> SUFFICES ASSUME NEW n \in All PROVE n \in Nat /\ n <= widest(T)
    OBVIOUS
  <2>1. Day \in Nat
    BY DayType
  <2> QED BY <1>2, <1>4, <2>1
<1>8. Max(All) \in All /\ \A n \in All : n <= Max(All)
  <2>1. widest(T) \in Nat
    BY <1>5, <1>7
  <2> QED BY <1>5, <1>7, <2>1, MaxOf
<1>9. Max(All) \in Nat /\ Max(All) <= widest(T) /\ widest(T) <= Max(All) /\ widest(T) \in Nat
  BY <1>5, <1>7, <1>8
<1>10. Max(All) = widest(T)
  BY <1>9
<1> QED BY <1>1, <1>6, <1>10

(* For a job that runs every day the interval is the longest wait of the    *)
(* calendar, for any hour, any day and any minutes and hours of its field.  *)
THEOREM DailyIsExact == ScheduleSpec => []ExactForDaily
<1>1. ExactForDaily
  BY DailyExact DEF ExactForDaily, interval
<1> QED BY <1>1, PTL

(* A day a week later is the same day of the week.                          *)
LEMMA WeekLater ==
  ASSUME NEW s, s.dom = NULL, s.month = NULL, NEW day \in RunDays(s),
         day + 7 \in 1..Len(Dates)
  PROVE  day + 7 \in RunDays(s)
<1>1. day \in Nat /\ day \in 1..Len(Dates) /\ DOMAIN Dates = 1..Len(Dates)
  BY DatesType
<1>2. (day + 7 - 1) % 7 = (day - 1) % 7
  BY <1>1
<1> QED BY <1>1, <1>2 DEF RunDays, RunsOn

(* A job that runs on given days of the week runs again within a week.      *)
LEMMA WeeklyOvernight ==
  ASSUME NEW s, Readable(s), s.dom = NULL, s.month = NULL,
         NEW gap \in Overnight(RunDays(s), runTimes(s))
  PROVE  gap \in 0..Week
<1> DEFINE T == runTimes(s)
           D == RunDays(s)
<1>1. Day \in Nat \ {0} /\ Week = 7 * Day
  BY DayType
<1>2. /\ Min(T) \in Nat /\ Max(T) \in Nat /\ Min(T) <= Max(T) /\ Max(T) <= Day - 1
  BY IntervalOf, EndsOf
<1>3. D \in SUBSET Nat /\ Len(Dates) \in Nat /\ \A e \in D : e \in 1..Len(Dates)
  BY DatesType
<1>4. PICK day \in D : /\ later(D, day) # {}
                       /\ gap = (Min(later(D, day)) - day) * Day - Max(T) + Min(T)
  BY DEF Overnight
<1>5. /\ Min(later(D, day)) \in D /\ Min(later(D, day)) \in Nat /\ Min(later(D, day)) > day
      /\ \A e \in D : e <= day \/ e >= Min(later(D, day))
  BY <1>3, <1>4, LaterType
<1>6. Min(later(D, day)) - day \in 1..7
  <2>1. day \in Nat /\ Min(later(D, day)) <= Len(Dates)
    BY <1>3, <1>5
  <2>2. CASE day + 7 <= Len(Dates)
    <3>1. day + 7 \in 1..Len(Dates)
      BY <1>3, <2>1, <2>2
    <3>2. day + 7 \in D
      BY <3>1, WeekLater
    <3>3. Min(later(D, day)) <= day + 7
      BY <1>5, <2>1, <3>2
    <3> QED BY <1>5, <2>1, <3>3
  <2>3. CASE day + 7 > Len(Dates)
    BY <1>3, <1>5, <2>1, <2>3
  <2> QED BY <1>3, <2>1, <2>2, <2>3
<1>7. PICK n \in 1..7 : n = Min(later(D, day)) - day
  BY <1>6
<1>8. \A k \in 1..7 : k * Day \in Nat /\ Day <= k * Day /\ k * Day <= 7 * Day
  BY <1>1
<1>9. gap = n * Day - Max(T) + Min(T)
  BY <1>4, <1>7
<1> QED BY <1>1, <1>2, <1>8, <1>9

(* The interval of a job that runs on given days of the week covers the     *)
(* longest wait of the calendar.                                            *)
LEMMA WeeklyCovers ==
  ASSUME NEW s, Readable(s), s.dom = NULL, s.month = NULL
  PROVE  ReferenceGap(s) \in Nat /\ intervalMinutesOrFallback(s) >= ReferenceGap(s)
<1>1. CASE ~restrictsDays(s)
  <2>1. intervalMinutesOrFallback(s) = ReferenceGap(s)
    BY <1>1, DailyExact
  <2>2. intervalMinutesOrFallback(s) \in Nat
    BY IntervalType
  <2> QED BY <2>1, <2>2
<1>2. CASE restrictsDays(s)
  <2> DEFINE All == {0} \cup Overnight(RunDays(s), runTimes(s)) \cup Neighbours(runTimes(s))
  <2>1. Week \in Nat /\ Day \in Nat /\ Day <= Week
    BY DayType
  <2>2. \A n \in Overnight(RunDays(s), runTimes(s)) : n \in 0..Week
    BY WeeklyOvernight
  <2>3. \A n \in Neighbours(runTimes(s)) : n \in 1..Day
    BY IntervalOf, NeighboursWait, WaitType
  <2>4. \A n \in All : n \in Nat /\ n <= Week
    <3>1. \A n \in 0..Week : n \in Nat /\ n <= Week
      BY <2>1
    <3>2. \A n \in 1..Day : n \in 0..Week
      BY <2>1
    <3>3. 0 \in 0..Week
      BY <2>1
    <3> QED BY <2>2, <2>3, <3>1, <3>2, <3>3
  <2>5. 0 \in All /\ ReferenceGap(s) = Max(All)
    BY DEF ReferenceGap
  <2>6. intervalMinutesOrFallback(s) = Week
    BY <1>2, IntervalOf
  <2> HIDE DEF All
  <2>7. Max(All) \in All
    BY <2>1, <2>4, <2>5, MaxOf
  <2> QED BY <2>1, <2>4, <2>5, <2>6, <2>7
<1> QED BY <1>1, <1>2

(* A job that runs on given days of the week never waits longer than its    *)
(* interval, whichever days they are and however long the calendar is.      *)
THEOREM WeeklyIsRoundedUp == ScheduleSpec => []WeeklyRoundsUp
<1>1. WeeklyRoundsUp
  BY WeeklyCovers DEF WeeklyRoundsUp, interval
<1> QED BY <1>1, PTL

-----------------------------------------------------------------------------
(* Types *)

LEMMA ThresholdType ==
  ASSUME NEW c \in CronJob PROVE overdueAfter(c) \in Nat
<1>1. OVERDUE \in Nat /\ Interval[c] \in Nat
  BY CronAssumption, IntervalType DEF CronAssumption, Interval
<1> QED BY <1>1 DEF overdueAfter

LEMMA InitTypes == Init => JobTypes
<1> SUFFICES ASSUME Init PROVE JobTypes
  OBVIOUS
<1>1. ASSUME NEW c \in CronJob PROVE 0 <= overdueAfter(c) + 1
  <2>1. overdueAfter(c) \in Nat
    BY ThresholdType
  <2> QED BY <2>1
<1>2. sweep \in [listing : BOOLEAN, left : SUBSET CronJob, overdue : SUBSET CronJob]
  BY DEF Init, NoSweep
<1> QED BY <1>1, <1>2, JobAssumption DEF JobAssumption, Init, JobTypes

LEMMA SweepTypes ==
  ASSUME JobTypes, SweepStep PROVE JobTypes'
<1> DEFINE Sweeps == [listing : BOOLEAN, left : SUBSET CronJob, overdue : SUBSET CronJob]
<1>1. NoSweep \in Sweeps /\ \A c \in CronJob : Done(c) \in Sweeps
  BY DEF NoSweep, Done, JobTypes
<1>2. UNCHANGED clusterVars
  BY DEF SweepStep, ListCronJobs, ListFails, FinishSweep, Settle, HandleOverdue,
         EvidenceFails, CronJobFails
<1>3. sweep' \in Sweeps
  <2>1. CASE ListCronJobs
    BY <2>1 DEF ListCronJobs, Listed, overdueJobs, JobTypes
  <2>2. CASE ListFails
    BY <2>2 DEF ListFails, JobTypes
  <2>3. CASE FinishSweep
    BY <1>1, <2>3 DEF FinishSweep
  <2>4. CASE \E c \in CronJob : Settle(c) \/ HandleOverdue(c) \/ EvidenceFails(c) \/ CronJobFails(c)
    BY <1>1, <2>4 DEF Settle, HandleOverdue, EvidenceFails, CronJobFails
  <2> QED BY <2>1, <2>2, <2>3, <2>4 DEF SweepStep
<1>4. open' \subseteq CronJob
  BY DEF SweepStep, ListCronJobs, ListFails, FinishSweep, Settle, HandleOverdue,
         EvidenceFails, CronJobFails, JobTypes
<1>5. due' \in BOOLEAN
  BY DEF SweepStep, ListCronJobs, ListFails, FinishSweep, Settle, HandleOverdue,
         EvidenceFails, CronJobFails, JobTypes
<1>6. silentFor' \in 0..MISSED
  BY JobAssumption DEF JobAssumption, SweepStep, ListCronJobs, ListFails, FinishSweep, Settle,
         HandleOverdue, EvidenceFails, CronJobFails, JobTypes
<1>7. faults' \in 0..MaxFaults
  <2>1. Fault \/ NoFault
    BY DEF SweepStep, ListCronJobs, ListFails, FinishSweep, Settle, HandleOverdue,
           EvidenceFails, CronJobFails
  <2> QED BY <2>1, JobAssumption DEF JobAssumption, Fault, NoFault, JobTypes
<1> QED BY <1>2, <1>3, <1>4, <1>5, <1>6, <1>7 DEF clusterVars, JobTypes, overdueAfter

LEMMA EnvironmentTypes ==
  ASSUME JobTypes, Environment PROVE JobTypes'
<1>1. \A c \in CronJob : overdueAfter(c) \in Nat
  BY ThresholdType
<1>2. CASE \E c \in CronJob : Succeed(c)
  BY <1>1, <1>2 DEF Succeed, JobTypes, overdueAfter
<1>3. CASE \E c \in CronJob : Suspend(c)
  BY <1>3 DEF Suspend, JobTypes, overdueAfter
<1>4. CASE \E c \in CronJob : Delete(c)
  BY <1>1, <1>4 DEF Delete, JobTypes, overdueAfter
<1>5. CASE \E c \in CronJob : Create(c)
  BY <1>5 DEF Create, JobTypes, overdueAfter
<1>6. CASE KubeChanges
  BY <1>6 DEF KubeChanges, JobTypes, overdueAfter
<1>7. CASE PodRestarts
  <2>1. faults' \in 0..MaxFaults /\ silentFor' \in 0..MISSED
    BY <1>7, JobAssumption DEF JobAssumption, PodRestarts, Fault, JobTypes
  <2>2. sweep' \in [listing : BOOLEAN, left : SUBSET CronJob, overdue : SUBSET CronJob]
    BY <1>7 DEF PodRestarts, NoSweep
  <2> QED BY <1>7, <2>1, <2>2 DEF PodRestarts, clusterVars, JobTypes, overdueAfter
<1> QED BY <1>2, <1>3, <1>4, <1>5, <1>6, <1>7 DEF Environment

LEMMA TickTypes ==
  ASSUME JobTypes, Tick PROVE JobTypes'
<1>1. ASSUME NEW c \in CronJob
      PROVE  since'[c] \in Nat /\ since'[c] <= overdueAfter(c) + 1
  <2>1. overdueAfter(c) \in Nat /\ since[c] \in Nat /\ since[c] <= overdueAfter(c) + 1
    BY ThresholdType DEF JobTypes
  <2>2. since'[c] = since[c] \/ (~(since[c] > overdueAfter(c)) /\ since'[c] = since[c] + 1)
    BY DEF Tick, Older
  <2> QED BY <2>1, <2>2
<1>2. since' \in [CronJob -> Nat]
  BY <1>1 DEF Tick
<1>3. silentFor' \in 0..MISSED
  BY JobAssumption DEF JobAssumption, Tick, JobTypes
<1> QED BY <1>1, <1>2, <1>3 DEF Tick, JobTypes, overdueAfter

LEMMA NextTypes ==
  ASSUME JobTypes, [Next]_vars PROVE JobTypes'
<1>1. CASE UNCHANGED vars
  BY <1>1 DEF vars, clusterVars, JobTypes, overdueAfter
<1> QED BY <1>1, SweepTypes, EnvironmentTypes, TickTypes DEF Next

(* Every variable keeps its type, for every value of the constants.         *)
THEOREM JobTypesCorrect == Spec => []JobTypes
<1>1. Init => JobTypes
  BY InitTypes
<1>2. JobTypes /\ [Next]_vars => JobTypes'
  BY NextTypes
<1> QED BY <1>1, <1>2, PTL DEF Spec

-----------------------------------------------------------------------------
(* Jitter *)

InTime(c) == since[c] <= OVERDUE * Interval[c]

(* A sweep decides on the ages it listed: as long as c was never too old, c *)
(* is not among those it will report.                                       *)
NotAccused(c) == c \notin open /\ c \notin sweep.overdue

LEMMA InTimeNotAccused ==
  ASSUME JobTypes, NEW c \in CronJob, InTime(c), NotAccused(c), [Next]_vars
  PROVE  NotAccused(c)'
<1> USE DEF NotAccused
<1>1. CASE ListCronJobs
  <2>1. since[c] \in Nat /\ overdueAfter(c) \in Nat /\ since[c] <= overdueAfter(c)
    BY ThresholdType DEF InTime, overdueAfter, JobTypes
  <2>2. c \notin overdueJobs
    BY <2>1 DEF overdueJobs, isOverdue
  <2> QED BY <1>1, <2>2 DEF ListCronJobs
<1>2. CASE \E d \in CronJob : Settle(d) \/ HandleOverdue(d) \/ EvidenceFails(d) \/ CronJobFails(d)
  <2>1. PICK d \in CronJob : Settle(d) \/ HandleOverdue(d) \/ EvidenceFails(d) \/ CronJobFails(d)
    BY <1>2
  <2>2. sweep'.overdue = sweep.overdue
    BY <2>1 DEF Settle, HandleOverdue, EvidenceFails, CronJobFails, Done, JobTypes
  <2>3. open' \subseteq open \cup ({d} \cap sweep.overdue)
    BY <2>1 DEF Settle, HandleOverdue, EvidenceFails, CronJobFails
  <2> QED BY <2>2, <2>3
<1>3. CASE FinishSweep \/ PodRestarts
  BY <1>3 DEF FinishSweep, PodRestarts, NoSweep
<1>4. CASE ListFails \/ Tick \/ KubeChanges \/ UNCHANGED vars
  BY <1>4 DEF ListFails, Tick, KubeChanges, vars
<1>5. CASE \E d \in CronJob : Succeed(d) \/ Suspend(d) \/ Delete(d) \/ Create(d)
  BY <1>5 DEF Succeed, Suspend, Delete, Create
<1> QED BY <1>1, <1>2, <1>3, <1>4, <1>5 DEF Next, SweepStep, Environment

LEMMA InTimeNeverOpen ==
  ASSUME NEW c \in CronJob PROVE Spec => ([]InTime(c) => [](c \notin open))
<1>1. Init => NotAccused(c)
  BY DEF Init, NoSweep, NotAccused
<1>2. JobTypes /\ InTime(c) /\ NotAccused(c) /\ [Next]_vars => NotAccused(c)'
  BY InTimeNotAccused
<1>3. NotAccused(c) => c \notin open
  BY DEF NotAccused
<1> QED BY <1>1, <1>2, <1>3, JobTypesCorrect, PTL DEF Spec

(* A job that never misses more runs than its multiple allows is never      *)
(* alerted on, whatever fails, restarts or changes in the middle of sweeps. *)
THEOREM JitterIsTolerated == Spec => JitterTolerated
BY InTimeNeverOpen DEF JitterTolerated, InTime

(* A job that succeeds as often as its daily or weekly schedule says is     *)
(* never alerted on: its interval covers the longest wait of the calendar.  *)
(* Of schedules with days of the month or months this is not true.          *)
THEOREM OnScheduleIsQuiet ==
  ASSUME NEW c \in CronJob, Readable(ScheduleOf[c]),
         ScheduleOf[c].dom = NULL, ScheduleOf[c].month = NULL
  PROVE  Spec => ([](since[c] <= ReferenceGap(ScheduleOf[c])) => [](c \notin open))
<1>1. ReferenceGap(ScheduleOf[c]) <= Interval[c] /\ ReferenceGap(ScheduleOf[c]) \in Nat
  BY WeeklyCovers, IntervalType DEF Interval
<1>2. Interval[c] \in Nat /\ Interval[c] <= OVERDUE * Interval[c] /\ OVERDUE * Interval[c] \in Nat
  <2>1. Interval[c] \in Nat /\ OVERDUE \in Nat \ {0}
    BY CronAssumption, IntervalType DEF CronAssumption, Interval
  <2>2. \A m \in Nat \ {0}, n \in Nat : n <= m * n /\ m * n \in Nat
    OBVIOUS
  <2> QED BY <2>1, <2>2
<1>3. JobTypes /\ since[c] <= ReferenceGap(ScheduleOf[c]) => InTime(c)
  <2>1. JobTypes => since[c] \in Nat
    BY DEF JobTypes
  <2> QED BY <1>1, <1>2, <2>1 DEF InTime
<1>4. Spec => ([]InTime(c) => [](c \notin open))
  BY InTimeNeverOpen
<1> QED BY <1>3, <1>4, JobTypesCorrect, PTL

-----------------------------------------------------------------------------
(* One failure costs one job *)

(* The jobs of K on which the alerts and the sweep's listing disagree.      *)
Misjudged(K) == {c \in K : (c \in open) # (c \in sweep.overdue)}

(* With F the failures before the sweep, every disagreement on a job the    *)
(* sweep has left behind was paid for.                                      *)
PaidFor(K, F) ==
    /\ F <= faults
    /\ sweep.listing => Cardinality(Misjudged(K \ sweep.left)) <= faults - F

(* Whoever is not the one element that changed was counted before.          *)
LEMMA OneMore ==
  ASSUME NEW S, IsFiniteSet(S), NEW T, NEW x, T \subseteq S \cup {x}
  PROVE  /\ IsFiniteSet(T) /\ Cardinality(T) \in Nat /\ Cardinality(S) \in Nat
         /\ Cardinality(T) <= Cardinality(S) + 1
         /\ T \subseteq S => Cardinality(T) <= Cardinality(S)
<1>1. IsFiniteSet(S \cup {x}) /\ Cardinality(S \cup {x}) \in Nat
      /\ Cardinality(S \cup {x}) <= Cardinality(S) + 1 /\ Cardinality(S) \in Nat
  BY FS_AddElement, FS_CardinalityType
<1>2. IsFiniteSet(T) /\ Cardinality(T) <= Cardinality(S \cup {x}) /\ Cardinality(T) \in Nat
  BY <1>1, FS_Subset, FS_CardinalityType
<1>3. T \subseteq S => Cardinality(T) <= Cardinality(S)
  BY FS_Subset
<1> QED BY <1>1, <1>2, <1>3

LEMMA NextPaidFor ==
  ASSUME JobTypes, NEW K \in SUBSET CronJob, IsFiniteSet(K), NEW F \in Nat,
         kube = "all", K \subseteq present, PaidFor(K, F), [Next]_vars
  PROVE  PaidFor(K, F)'
<1> DEFINE Before == Misjudged(K \ sweep.left)
           After == Misjudged(K \ sweep.left)'
<1>1. faults \in Nat /\ F <= faults /\ (sweep.listing => Cardinality(Before) <= faults - F)
  BY JobAssumption DEF JobAssumption, JobTypes, PaidFor
<1>2. IsFiniteSet(Before) /\ Cardinality(Before) \in Nat
  BY FS_Subset, FS_CardinalityType DEF Misjudged
<1>3. CASE ListCronJobs
  <2>1. After = {} /\ faults' = faults
    BY <1>3 DEF ListCronJobs, Listed, NoFault, Misjudged
  <2>2. Cardinality(After) = 0 /\ F <= faults'
    BY <1>1, <2>1, FS_EmptySet
  <2> HIDE DEF After
  <2> QED BY <1>1, <2>1, <2>2 DEF After, PaidFor
<1>4. ASSUME NEW d \in CronJob,
             Settle(d) \/ HandleOverdue(d) \/ EvidenceFails(d) \/ CronJobFails(d)
      PROVE  PaidFor(K, F)'
  <2>1. /\ sweep'.left = sweep.left \ {d} /\ sweep'.overdue = sweep.overdue
        /\ sweep'.listing = sweep.listing /\ d \in sweep.left
        /\ open' \ {d} = open \ {d}
    BY <1>4 DEF Settle, HandleOverdue, EvidenceFails, CronJobFails, Done, JobTypes
  <2>2. After \subseteq Before \cup {d}
    BY <2>1 DEF Misjudged
  <2>3. CASE Settle(d) \/ HandleOverdue(d)
    <3>1. (d \in open') = (d \in sweep'.overdue) /\ faults' = faults
      BY <2>1, <2>3 DEF Settle, HandleOverdue, NoFault
    <3>2. After \subseteq Before
      BY <2>2, <3>1 DEF Misjudged
    <3>3. Cardinality(After) <= Cardinality(Before) /\ Cardinality(After) \in Nat
      BY <1>2, <2>2, <3>2, OneMore
    <3> HIDE DEF Before, After
    <3>4. sweep.listing => Cardinality(After) <= faults - F
      BY <1>1, <1>2, <3>3
    <3> QED BY <1>1, <2>1, <3>1, <3>4 DEF After, PaidFor
  <2>4. CASE CronJobFails(d)
    <3>1. faults' = faults + 1
      BY <2>4 DEF CronJobFails, Fault
    <3>2. Cardinality(After) <= Cardinality(Before) + 1 /\ Cardinality(After) \in Nat
      BY <1>2, <2>2, OneMore
    <3> HIDE DEF Before, After
    <3>3. sweep.listing => Cardinality(After) <= faults + 1 - F
      BY <1>1, <1>2, <3>2
    <3> QED BY <1>1, <2>1, <3>1, <3>3 DEF After, PaidFor
  <2>5. ~EvidenceFails(d)
    BY DEF EvidenceFails
  <2> QED BY <1>4, <2>3, <2>4, <2>5
<1>5. CASE FinishSweep \/ PodRestarts
  BY <1>1, <1>5 DEF FinishSweep, PodRestarts, NoSweep, NoFault, Fault, PaidFor
<1>6. CASE \/ ListFails \/ Tick \/ KubeChanges \/ UNCHANGED vars
           \/ \E d \in CronJob : Succeed(d) \/ Suspend(d) \/ Delete(d) \/ Create(d)
  <2>1. sweep' = sweep /\ open' = open /\ faults' \in {faults, faults + 1}
    BY <1>6 DEF ListFails, Fault, NoFault, Tick, KubeChanges, vars, Succeed, Suspend, Delete,
           Create
  <2>2. After = Before
    BY <2>1 DEF Misjudged
  <2> HIDE DEF Before, After
  <2> QED BY <1>1, <1>2, <2>1, <2>2 DEF Before, After, PaidFor
<1> QED BY <1>3, <1>4, <1>5, <1>6 DEF Next, SweepStep, Environment

(* One CronJob's failure never hides the others: at the end of a sweep of a *)
(* cluster that answers, of the jobs that existed throughout, no more have  *)
(* an alert that is missing or out of date than calls failed meanwhile      *)
(* (job-watcher.ts:181-182), however many jobs there are and whatever they  *)
(* and the operator did in the middle of it.                                *)
THEOREM OneFailureCostsOneJob ==
  ASSUME NEW K \in SUBSET CronJob, IsFiniteSet(K), NEW F \in Nat
  PROVE  Spec => [](~sweep.listing /\ faults = F /\ [](kube = "all" /\ K \subseteq present)
                      => [](sweep.listing /\ sweep.left = {}
                              => Cardinality(Misjudged(K)) <= faults - F))
<1>1. ~sweep.listing /\ faults = F => PaidFor(K, F)
  BY DEF PaidFor
<1>2. JobTypes /\ kube = "all" /\ K \subseteq present /\ PaidFor(K, F) /\ [Next]_vars
        => PaidFor(K, F)'
  BY NextPaidFor
<1>3. PaidFor(K, F) => (sweep.listing /\ sweep.left = {}
                          => Cardinality(Misjudged(K)) <= faults - F)
  <2>1. K \ {} = K
    OBVIOUS
  <2> QED BY <2>1 DEF PaidFor
<1> QED BY <1>1, <1>2, <1>3, JobTypesCorrect, PTL DEF Spec

-----------------------------------------------------------------------------
(* An alert once right stays right *)

(* The sweep's listing, which may be older than the ages, still says of c   *)
(* what has been true throughout.                                           *)
StillListed(c) == c \in sweep.left => c \in sweep.overdue
NotListed(c) == c \notin sweep.overdue

LEMMA OverdueStays ==
  ASSUME JobTypes, NEW c \in CronJob, Overdue(c), StillListed(c), [Next]_vars
  PROVE  StillListed(c)' /\ (c \in open => c \in open')
<1> USE DEF StillListed
<1>1. CASE ListCronJobs
  BY <1>1 DEF ListCronJobs, overdueJobs, Overdue, Listed
<1>2. CASE \E d \in CronJob : Settle(d) \/ HandleOverdue(d) \/ EvidenceFails(d) \/ CronJobFails(d)
  BY <1>2 DEF Settle, HandleOverdue, EvidenceFails, CronJobFails, Done, JobTypes
<1>3. CASE FinishSweep \/ PodRestarts
  BY <1>3 DEF FinishSweep, PodRestarts, NoSweep
<1>4. CASE \/ ListFails \/ Tick \/ KubeChanges \/ UNCHANGED vars
           \/ \E d \in CronJob : Succeed(d) \/ Suspend(d) \/ Delete(d) \/ Create(d)
  BY <1>4 DEF ListFails, Tick, KubeChanges, vars, Succeed, Suspend, Delete, Create
<1> QED BY <1>1, <1>2, <1>3, <1>4 DEF Next, SweepStep, Environment

LEMMA FineStays ==
  ASSUME JobTypes, NEW c \in CronJob, Fine(c), NotListed(c), [Next]_vars
  PROVE  NotListed(c)' /\ (c \notin open => c \notin open')
<1> USE DEF NotListed
<1>1. CASE ListCronJobs
  BY <1>1 DEF ListCronJobs, overdueJobs, Fine, Overdue
<1>2. CASE \E d \in CronJob : Settle(d) \/ HandleOverdue(d) \/ EvidenceFails(d) \/ CronJobFails(d)
  BY <1>2 DEF Settle, HandleOverdue, EvidenceFails, CronJobFails, Done, JobTypes
<1>3. CASE FinishSweep \/ PodRestarts
  BY <1>3 DEF FinishSweep, PodRestarts, NoSweep
<1>4. CASE \/ ListFails \/ Tick \/ KubeChanges \/ UNCHANGED vars
           \/ \E d \in CronJob : Succeed(d) \/ Suspend(d) \/ Delete(d) \/ Create(d)
  BY <1>4 DEF ListFails, Tick, KubeChanges, vars, Succeed, Suspend, Delete, Create
<1> QED BY <1>1, <1>2, <1>3, <1>4 DEF Next, SweepStep, Environment

(* Between sweeps nothing is left of the last one.                          *)
BetweenSweeps == sweep.listing \/ sweep = NoSweep

LEMMA SweepsEnd == Spec => []BetweenSweeps
<1>1. Init => BetweenSweeps
  BY DEF Init, BetweenSweeps
<1>2. JobTypes /\ BetweenSweeps /\ [Next]_vars => BetweenSweeps'
  <2> SUFFICES ASSUME JobTypes, BetweenSweeps, [Next]_vars PROVE BetweenSweeps'
    OBVIOUS
  <2> USE DEF BetweenSweeps
  <2>1. CASE \E d \in CronJob : Settle(d) \/ HandleOverdue(d) \/ EvidenceFails(d) \/ CronJobFails(d)
    BY <2>1 DEF Settle, HandleOverdue, EvidenceFails, CronJobFails, Done, NoSweep, JobTypes
  <2>2. CASE ListCronJobs \/ FinishSweep \/ PodRestarts
    BY <2>2 DEF ListCronJobs, FinishSweep, PodRestarts
  <2>3. CASE \/ ListFails \/ Tick \/ KubeChanges \/ UNCHANGED vars
             \/ \E d \in CronJob : Succeed(d) \/ Suspend(d) \/ Delete(d) \/ Create(d)
    BY <2>3 DEF ListFails, Tick, KubeChanges, vars, Succeed, Suspend, Delete, Create
  <2> QED BY <2>1, <2>2, <2>3 DEF Next, SweepStep, Environment
<1> QED BY <1>1, <1>2, JobTypesCorrect, PTL DEF Spec

(* From the end of any sweep on, the alert of a job that stays overdue, once*)
(* open, is never closed, and that of a job that stays fine, once closed, is*)
(* never opened again, whatever fails, restarts, is unreadable or happens   *)
(* to the other jobs.                                                       *)
THEOREM RightAlertsStay ==
  ASSUME NEW c \in CronJob
  PROVE  /\ Spec => [](~sweep.listing /\ []Overdue(c) => [](c \in open => [](c \in open)))
         /\ Spec => [](~sweep.listing /\ []Fine(c) => [](c \notin open => [](c \notin open)))
<1> DEFINE IsOpen == c \in open
           IsClosed == c \notin open
           IsListing == sweep.listing
<1>1. JobTypes /\ Overdue(c) /\ StillListed(c) /\ [Next]_vars
        => StillListed(c)' /\ (IsOpen => IsOpen')
  BY OverdueStays
<1>2. JobTypes /\ Fine(c) /\ NotListed(c) /\ [Next]_vars
        => NotListed(c)' /\ (IsClosed => IsClosed')
  BY FineStays
<1>3. BetweenSweeps /\ ~IsListing => StillListed(c) /\ NotListed(c)
  BY DEF BetweenSweeps, NoSweep, StillListed, NotListed
<1> HIDE DEF IsOpen, IsClosed, IsListing
<1>4. Spec => [](~IsListing /\ []Overdue(c) => [](IsOpen => []IsOpen))
  BY <1>1, <1>3, JobTypesCorrect, SweepsEnd, PTL DEF Spec
<1>5. Spec => [](~IsListing /\ []Fine(c) => [](IsClosed => []IsClosed))
  BY <1>2, <1>3, JobTypesCorrect, SweepsEnd, PTL DEF Spec
<1> QED BY <1>4, <1>5 DEF IsOpen, IsClosed, IsListing

-----------------------------------------------------------------------------
(* The service watcher *)

Checks ==
    [step : {"idle", "expire", "handle", "demoted"}, left : SUBSET Service,
     verdict : [Service -> Verdict], names : SUBSET Service]

(* Every answer has its verdict.                                            *)
LEMMA VerdictType ==
  ASSUME NEW a \in Answer PROVE checkServiceHealth[a] \in Verdict
BY DEF Answer, checkServiceHealth, Verdict

LEMMA QuietType == Quiet \in Checks
BY DEF Quiet, Checks, Verdict

(* The loop over the services only takes one off the list.                  *)
LEMMA HandledType ==
  ASSUME ServiceTypes, NEW s, Handled(s)
  PROVE  /\ check' \in Checks
         /\ check'.verdict = check.verdict
BY DEF Handled, ServiceTypes, Checks

LEMMA FaultTypes ==
  ASSUME ServiceTypes, CheckFault \/ NoCheckFault PROVE checkFaults' \in 0..MaxCheckFaults
BY ServiceAssumption DEF ServiceAssumption, ServiceTypes, CheckFault, NoCheckFault

(* The sweep, step by step.                                                 *)
LEMMA CheckTypes ==
  ASSUME ServiceTypes, Check PROVE ServiceTypes'
<1>1. check \in Checks
  BY DEF ServiceTypes, Checks
<1>2. check' \in Checks
  <2>1. CASE FindStale \/ ListActive
    <3>1. findStale \subseteq Service /\ demoted \subseteq Service
      BY DEF findStale, demoted, ServiceTypes
    <3> QED BY <1>1, <2>1, <3>1 DEF FindStale, ListActive, Checks
  <2>2. CASE Probe
    <3>1. [s \in Service |-> checkServiceHealth[answer[s]]] \in [Service -> Verdict]
      BY VerdictType DEF ServiceTypes
    <3> QED BY <2>2, <3>1 DEF Probe, ServiceTypes, Checks
  <2>3. CASE Finish \/ ListingFails
    BY <2>3, QuietType DEF Finish, ListingFails
  <2>4. CASE \E s \in Service : Handle(s) \/ HandleFails(s) \/ Close(s)
    BY <2>4, HandledType DEF Handle, HandleFails, Close
  <2> QED BY <2>1, <2>2, <2>3, <2>4 DEF Check
<1>3. alerted' \subseteq Service
  BY DEF Check, FindStale, Probe, ListActive, Finish, ListingFails, Handle, HandleFails, Close,
         handleHealthy, logConfig, handleUnhealthy, ServiceTypes
<1>4. unfired' \in [Service -> 0..(STALE + 1)]
  <2>1. unfired' = unfired \/ \E s \in Service : unfired' = [unfired EXCEPT ![s] = 0]
    BY DEF Check, FindStale, Probe, ListActive, Finish, ListingFails, Handle, HandleFails,
           Close, handleHealthy, logConfig, handleUnhealthy
  <2>2. 0 \in 0..(STALE + 1)
    BY ServiceAssumption DEF ServiceAssumption
  <2> QED BY <2>1, <2>2 DEF ServiceTypes
<1>5. checkDue' \in BOOLEAN /\ monitored' = monitored /\ answer' = answer
  BY DEF Check, FindStale, Probe, ListActive, Finish, ListingFails, Handle, HandleFails, Close,
         ServiceTypes
<1>6. CheckFault \/ NoCheckFault
  BY DEF Check, FindStale, Probe, ListActive, Finish, ListingFails, Handle, HandleFails, Close
<1> QED BY <1>2, <1>3, <1>4, <1>5, <1>6, FaultTypes DEF ServiceTypes, Checks

(* The services, a deploy and the clock.                                    *)
LEMMA ServiceNextTypes ==
  ASSUME ServiceTypes, [ServiceNext]_serviceVars PROVE ServiceTypes'
<1>1. CASE Deploy
  BY <1>1, QuietType, FaultTypes DEF Deploy, ServiceTypes, Checks
<1>2. CASE RoundPasses
  <2>1. ASSUME NEW s \in Service PROVE unfired'[s] \in 0..(STALE + 1)
    <3>1. unfired[s] \in 0..(STALE + 1)
      BY DEF ServiceTypes
    <3>2. \/ unfired'[s] = 0
          \/ unfired'[s] = unfired[s]
          \/ ~(unfired[s] > STALE) /\ unfired'[s] = unfired[s] + 1
      BY <1>2 DEF RoundPasses
    <3> QED BY <3>1, <3>2, ServiceAssumption DEF ServiceAssumption
  <2>2. unfired' \in [Service -> 0..(STALE + 1)]
    BY <1>2, <2>1 DEF RoundPasses
  <2> QED BY <1>2, <2>2 DEF RoundPasses, ServiceTypes
<1>3. CASE \E s \in Service : AnswerChanges(s)
  BY <1>3 DEF AnswerChanges, ServiceTypes
<1>4. CASE UNCHANGED serviceVars
  BY <1>4 DEF serviceVars, ServiceTypes
<1>5. CASE Check
  BY <1>5, CheckTypes
<1> QED BY <1>1, <1>2, <1>3, <1>4, <1>5 DEF ServiceNext

(* Every variable of the service watcher keeps its type.                    *)
THEOREM ServiceTypesCorrect == ServiceSpec => []ServiceTypes
<1>1. ASSUME ServiceInit PROVE ServiceTypes
  <2>1. 0 \in 0..(STALE + 1) /\ 0 \in 0..MaxCheckFaults
    BY ServiceAssumption DEF ServiceAssumption
  <2> QED BY <1>1, <2>1, QuietType DEF ServiceInit, ServiceTypes, Checks, Answer
<1> QED BY <1>1, ServiceNextTypes, PTL DEF ServiceSpec

-----------------------------------------------------------------------------
(* Registry bugs *)

RightOrAbsent(s) == answer[s] \in {"success", "notFound"}

(* The sweep reports on the verdicts of the last probe, which may be older  *)
(* than the answers: as long as s was never down, no verdict held against   *)
(* it is left over.                                                         *)
NotBlamed(s) == s \notin alerted /\ check.verdict[s] \in {"healthy", "config"}

LEMMA RightNotBlamed ==
  ASSUME ServiceTypes, NEW s \in Service, RightOrAbsent(s), NotBlamed(s),
         [ServiceNext]_serviceVars
  PROVE  NotBlamed(s)'
<1> USE DEF NotBlamed
<1>1. CASE FindStale \/ ListActive
  BY <1>1 DEF FindStale, ListActive, ServiceTypes
<1>2. CASE Probe
  <2>1. check'.verdict[s] = checkServiceHealth[answer[s]] /\ alerted' = alerted
    BY <1>2 DEF Probe
  <2> QED BY <2>1 DEF RightOrAbsent, checkServiceHealth
<1>3. CASE Finish \/ ListingFails \/ Deploy
  BY <1>3 DEF Finish, ListingFails, Deploy, Quiet
<1>4. ASSUME NEW r \in Service, Handle(r) \/ HandleFails(r) \/ Close(r)
      PROVE  NotBlamed(s)'
  <2>1. check'.verdict = check.verdict
    BY <1>4, HandledType DEF Handle, HandleFails, Close
  <2>2. s \in alerted' => r = s /\ handleUnhealthy(r)
    BY <1>4 DEF Handle, HandleFails, Close, handleHealthy, logConfig, handleUnhealthy
  <2>3. ~handleUnhealthy(s)
    BY DEF handleUnhealthy
  <2> QED BY <2>1, <2>2, <2>3
<1>5. CASE RoundPasses \/ (\E r \in Service : AnswerChanges(r)) \/ UNCHANGED serviceVars
  BY <1>5 DEF RoundPasses, AnswerChanges, serviceVars
<1> QED BY <1>1, <1>2, <1>3, <1>4, <1>5 DEF ServiceNext, Check

(* A service whose path was only ever right or absent never alerts, however *)
(* sweeps, deploys and failures interleave with its answers.                *)
THEOREM RegistryBugsAreQuiet == ServiceSpec => RegistryBugsQuiet
<1>1. ASSUME NEW s \in Service
      PROVE  ServiceSpec => ([]RightOrAbsent(s) => [](s \notin alerted))
  <2>1. ServiceInit => NotBlamed(s)
    BY DEF ServiceInit, Quiet, NotBlamed
  <2>2. ServiceTypes /\ RightOrAbsent(s) /\ NotBlamed(s) /\ [ServiceNext]_serviceVars
           => NotBlamed(s)'
    BY RightNotBlamed
  <2>3. NotBlamed(s) => s \notin alerted
    BY DEF NotBlamed
  <2> QED BY <2>1, <2>2, <2>3, ServiceTypesCorrect, PTL DEF ServiceSpec
<1> QED BY <1>1 DEF RegistryBugsQuiet, RightOrAbsent

-----------------------------------------------------------------------------
(* One failure costs one service *)

(* The sweep has made up its mind about the services it has probed and      *)
(* reported on, and in its last part about those the registry has dropped.  *)
Visited ==
    CASE check.step = "handle"  -> check.names \ check.left
      [] check.step = "demoted" -> Service \ check.left
      [] OTHER                  -> {}

(* An outage without an alert, or an alert without one.  A registry entry   *)
(* that is wrong says nothing of its service.                               *)
Mistake(s) ==
    IF s \in alerted
    THEN s \notin check.names \/ check.verdict[s] = "healthy"
    ELSE s \in check.names /\ check.verdict[s] \in {"unhealthy", "unreachable"}

Mistakes(S) == {s \in S \ Poison : Mistake(s)}

PaidForServices(F) ==
    /\ F <= checkFaults
    /\ Cardinality(Mistakes(Visited)) <= checkFaults - F
    /\ check.step = "handle" => check.left \subseteq check.names
    /\ check.step = "demoted" => check.left \cap check.names = {}

(* A step on one service adds no mistake but its own, and that one is paid. *)
LEMMA PaidForOneService ==
  ASSUME ServiceTypes, ServiceTypes', IsFiniteSet(Service), NEW F \in Nat, PaidForServices(F),
         NEW s, Mistakes(Visited)' \subseteq Mistakes(Visited) \cup {s},
         \/ Mistakes(Visited)' \subseteq Mistakes(Visited) /\ checkFaults' \in {checkFaults, checkFaults + 1}
         \/ checkFaults' = checkFaults + 1,
         check'.step = "handle" => check'.left \subseteq check'.names,
         check'.step = "demoted" => check'.left \cap check'.names = {}
  PROVE  PaidForServices(F)'
<1> DEFINE Before == Mistakes(Visited)
           After == Mistakes(Visited)'
<1>1. IsFiniteSet(Before)
  <2>1. Before \subseteq Service
    BY DEF ServiceTypes, Mistakes, Visited
  <2> QED BY <2>1, FS_Subset
<1>2. /\ Cardinality(After) \in Nat /\ Cardinality(Before) \in Nat
      /\ Cardinality(After) <= Cardinality(Before) + 1
      /\ After \subseteq Before => Cardinality(After) <= Cardinality(Before)
  BY <1>1, OneMore
<1>3. checkFaults \in Nat /\ F <= checkFaults /\ Cardinality(Before) <= checkFaults - F
  BY ServiceAssumption DEF ServiceAssumption, ServiceTypes, PaidForServices
<1>4. \/ After \subseteq Before /\ checkFaults' \in {checkFaults, checkFaults + 1}
      \/ checkFaults' = checkFaults + 1
  OBVIOUS
<1> HIDE DEF Before, After
<1>5. F <= checkFaults' /\ Cardinality(After) <= checkFaults' - F
  BY <1>2, <1>3, <1>4
<1> QED BY <1>5 DEF After, PaidForServices

LEMMA NextPaidForServices ==
  ASSUME ServiceTypes, ServiceTypes', IsFiniteSet(Service), NEW F \in Nat,
         PaidForServices(F), [ServiceNext]_serviceVars
  PROVE  PaidForServices(F)'
<1> DEFINE Same == Mistakes(Visited)' \subseteq Mistakes(Visited)
<1>1. CASE FindStale \/ Probe \/ Finish \/ ListingFails \/ Deploy
  <2>1. check'.step # "demoted" /\ (check'.step = "handle" => check'.left = check'.names)
    <3>1. CASE FindStale
      BY <3>1 DEF FindStale, ServiceTypes
    <3>2. CASE Probe
      BY <3>2 DEF Probe
    <3>3. CASE Finish \/ ListingFails \/ Deploy
      BY <3>3 DEF Finish, ListingFails, Deploy, Quiet
    <3> QED BY <1>1, <3>1, <3>2, <3>3
  <2>2. Visited' = {} /\ Same
    BY <2>1 DEF Visited, Mistakes
  <2>3. checkFaults' \in {checkFaults, checkFaults + 1}
    BY <1>1 DEF FindStale, Probe, Finish, ListingFails, Deploy, CheckFault, NoCheckFault
  <2> QED BY <2>1, <2>2, <2>3, PaidForOneService
<1>2. CASE ListActive
  <2>1. /\ check.step = "handle" /\ check.left = {} /\ check'.step = "demoted"
        /\ check'.left = alerted \ check.names /\ check'.names = check.names
        /\ check'.verdict = check.verdict /\ alerted' = alerted /\ checkFaults' = checkFaults
    BY <1>2 DEF ListActive, demoted, NoCheckFault, ServiceTypes
  <2>2. Visited = check.names /\ Visited' = Service \ (alerted \ check.names)
    BY <2>1 DEF Visited
  <2>3. Same
    BY <2>1, <2>2 DEF Mistakes, Mistake
  <2> QED BY <2>1, <2>3, PaidForOneService
<1>3. ASSUME NEW s \in Service, Handle(s) \/ HandleFails(s)
      PROVE  PaidForServices(F)'
  <2>1. /\ check.step = "handle" /\ check'.step = "handle" /\ s \in check.left
        /\ check'.left = check.left \ {s} /\ check'.names = check.names
        /\ check'.verdict = check.verdict /\ alerted' \ {s} = alerted \ {s}
    BY <1>3 DEF Handle, HandleFails, Handled, handleHealthy, logConfig, handleUnhealthy, ServiceTypes
  <2>2. check.left \subseteq check.names
    BY <2>1 DEF PaidForServices
  <2>3. Visited' \subseteq Visited \cup {s}
    BY <2>1 DEF Visited
  <2>4. Mistakes(Visited)' \subseteq Mistakes(Visited) \cup {s}
    BY <2>1, <2>3 DEF Mistakes, Mistake
  <2>5. CASE Handle(s)
    <3>1. ~Mistake(s)'
      BY <2>1, <2>2, <2>5 DEF Handle, handleHealthy, logConfig, handleUnhealthy, Mistake
    <3>2. Same /\ checkFaults' = checkFaults
      BY <2>4, <2>5, <3>1 DEF Mistakes, Handle, NoCheckFault
    <3> QED BY <2>1, <2>2, <2>4, <3>2, PaidForOneService
  <2>6. CASE HandleFails(s)
    <3>1. s \in Poison => Same /\ checkFaults' = checkFaults
      BY <2>4, <2>6 DEF Mistakes, HandleFails, NoCheckFault, CheckFault
    <3>2. s \notin Poison => checkFaults' = checkFaults + 1
      BY <2>6 DEF HandleFails, CheckFault
    <3> QED BY <2>1, <2>2, <2>4, <3>1, <3>2, PaidForOneService
  <2> QED BY <1>3, <2>5, <2>6
<1>4. ASSUME NEW s \in Service, Close(s) PROVE PaidForServices(F)'
  <2>1. /\ check'.step = check.step /\ check.step \in {"expire", "demoted"} /\ s \in check.left
        /\ check'.left = check.left \ {s} /\ check'.names = check.names
        /\ check'.verdict = check.verdict /\ alerted' \ {s} = alerted \ {s}
        /\ checkFaults' \in {checkFaults, checkFaults + 1}
    BY <1>4 DEF Close, Handled, NoCheckFault, CheckFault, ServiceTypes
  <2>2. CASE check.step = "expire"
    <3>1. Same
      BY <2>1, <2>2 DEF Visited, Mistakes
    <3> QED BY <2>1, <2>2, <3>1, PaidForOneService
  <2>3. CASE check.step = "demoted"
    <3>1. check.left \cap check.names = {} /\ s \notin check.names
      BY <2>1, <2>3 DEF PaidForServices
    <3>2. Visited' \subseteq Visited \cup {s}
      BY <2>1, <2>3 DEF Visited
    <3>3. Mistakes(Visited)' \subseteq Mistakes(Visited) \cup {s}
      BY <2>1, <3>2 DEF Mistakes, Mistake
    <3>4. CASE alerted' = alerted \ {s} \/ s \in Poison
      <4>1. s \in Poison \/ ~Mistake(s)'
        BY <2>1, <3>1, <3>4 DEF Mistake
      <4>2. Same
        BY <3>3, <4>1 DEF Mistakes
      <4> QED BY <2>1, <3>1, <3>3, <4>2, PaidForOneService
    <3>5. CASE checkFaults' = checkFaults + 1
      BY <2>1, <3>1, <3>3, <3>5, PaidForOneService
    <3> QED BY <1>4, <3>4, <3>5 DEF Close, CheckFault
  <2> QED BY <2>1, <2>2, <2>3
<1>5. CASE RoundPasses \/ (\E s \in Service : AnswerChanges(s)) \/ UNCHANGED serviceVars
  <2>1. check' = check /\ alerted' = alerted /\ checkFaults' = checkFaults
    BY <1>5 DEF RoundPasses, AnswerChanges, serviceVars
  <2> QED BY <2>1 DEF PaidForServices, Mistakes, Mistake, Visited
<1> QED BY <1>1, <1>2, <1>3, <1>4, <1>5 DEF ServiceNext, Check

(* One service's failure never aborts the sweep: when it ends, no more      *)
(* outages are without their alert, and no more alerts without their        *)
(* outage, than calls failed meanwhile, whatever the registry's size, apart *)
(* from the services whose row no query can process                         *)
(* (health-watcher.ts:61-92).                                               *)
THEOREM OneFailureCostsOneService ==
  ASSUME IsFiniteSet(Service), NEW F \in Nat
  PROVE  ServiceSpec =>
           [](check.step = "idle" /\ checkFaults = F
                => [](check.step = "demoted" /\ check.left = {}
                        => Cardinality(Mistakes(Service)) <= checkFaults - F))
<1>1. check.step = "idle" /\ checkFaults = F => PaidForServices(F)
  <2> SUFFICES ASSUME check.step = "idle", checkFaults = F PROVE PaidForServices(F)
    OBVIOUS
  <2>1. Mistakes(Visited) = {}
    BY DEF Visited, Mistakes
  <2> QED BY <2>1, FS_EmptySet DEF PaidForServices
<1>2. ServiceTypes /\ ServiceTypes' /\ PaidForServices(F) /\ [ServiceNext]_serviceVars
        => PaidForServices(F)'
  BY NextPaidForServices
<1>3. PaidForServices(F)
        => (check.step = "demoted" /\ check.left = {}
              => Cardinality(Mistakes(Service)) <= checkFaults - F)
  <2> SUFFICES ASSUME PaidForServices(F), check.step = "demoted", check.left = {}
               PROVE  Cardinality(Mistakes(Service)) <= checkFaults - F
    OBVIOUS
  <2>1. Visited = Service
    BY DEF Visited
  <2> QED BY <2>1 DEF PaidForServices
<1> QED BY <1>1, <1>2, <1>3, ServiceTypesCorrect, PTL DEF ServiceSpec

-----------------------------------------------------------------------------
(* An outage keeps its alert *)

IsDown(s) == s \in monitored /\ answer[s] \in {"redirect", "otherStatus", "nothing"}

JustFired(s) == check.step = "idle" /\ s \in alerted /\ unfired[s] = 0

(* A round has passed of which the sweep has yet to reach s.                *)
Awaited(s) ==
    \/ check.step = "idle" /\ checkDue
    \/ check.step = "expire"
    \/ check.step = "handle" /\ s \in check.left

(* With F the failures when the alert last fired: each round that it has    *)
(* not fired in since has cost a failure, but for the round under way; so   *)
(* short of STALE failures the alert is not stale and nothing closes it.    *)
KeptFresh(s, F) ==
    checkFaults - F < STALE =>
        /\ s \in alerted
        /\ unfired[s] <= checkFaults - F + (IF Awaited(s) THEN 1 ELSE 0)
        /\ check.step \in {"expire", "demoted"} => s \notin check.left
        /\ check.step \in {"handle", "demoted"} => s \in check.names
        /\ check.step = "handle" /\ s \in check.left
             => check.verdict[s] \in {"unhealthy", "unreachable"}

LEMMA NextKeptFresh ==
  ASSUME ServiceTypes, NEW s \in Service \ Poison, NEW F \in Nat, F <= checkFaults,
         IsDown(s), KeptFresh(s, F), [ServiceNext]_serviceVars
  PROVE  F <= checkFaults' /\ KeptFresh(s, F)'
<1>1. /\ checkFaults \in Nat /\ unfired[s] \in Nat /\ STALE \in Nat
      /\ check.step \in {"idle", "expire", "handle", "demoted"}
  BY ServiceAssumption DEF ServiceAssumption, ServiceTypes
<1>2. checkFaults' \in {checkFaults, checkFaults + 1}
  BY DEF ServiceNext, Check, FindStale, Probe, ListActive, Finish, ListingFails, Handle,
         HandleFails, Close, Deploy, RoundPasses, AnswerChanges, serviceVars, CheckFault,
         NoCheckFault
<1>a. F <= checkFaults'
  BY <1>1, <1>2
<1>b. CASE ~(checkFaults' - F < STALE)
  BY <1>a, <1>b DEF KeptFresh
<1> SUFFICES ASSUME checkFaults' - F < STALE
             PROVE  KeptFresh(s, F)'
  BY <1>a, <1>b
<1>3. /\ s \in alerted /\ unfired[s] <= checkFaults - F + (IF Awaited(s) THEN 1 ELSE 0)
      /\ check.step \in {"expire", "demoted"} => s \notin check.left
      /\ check.step \in {"handle", "demoted"} => s \in check.names
      /\ check.step = "handle" /\ s \in check.left
           => check.verdict[s] \in {"unhealthy", "unreachable"}
      /\ checkFaults - F < STALE
  <2>1. \A m, n, k \in Nat : n \in {m, m + 1} /\ n - F < k => m - F < k
    OBVIOUS
  <2>2. checkFaults - F < STALE
    <3>1. checkFaults \in Nat /\ checkFaults' \in Nat /\ STALE \in Nat
      BY <1>1, <1>2
    <3> QED BY <1>2, <2>1, <3>1
  <2> QED BY <2>2 DEF KeptFresh
<1>4. CASE FindStale
  <2>1. s \notin findStale
    BY <1>1, <1>3 DEF findStale, Awaited
  <2> QED BY <1>1, <1>3, <1>4, <2>1 DEF FindStale, NoCheckFault, KeptFresh, Awaited, ServiceTypes
<1>5. CASE Probe
  <2>1. checkServiceHealth[answer[s]] \in {"unhealthy", "unreachable"} /\ s \in monitored
    BY DEF IsDown, checkServiceHealth
  <2> QED BY <1>1, <1>3, <1>5, <2>1 DEF Probe, NoCheckFault, KeptFresh, Awaited
<1>6. CASE ListActive
  BY <1>1, <1>3, <1>6 DEF ListActive, demoted, NoCheckFault, KeptFresh, Awaited, ServiceTypes
<1>7. CASE Finish \/ ListingFails \/ Deploy
  BY <1>1, <1>3, <1>7
     DEF Finish, ListingFails, Deploy, Quiet, CheckFault, NoCheckFault, KeptFresh, Awaited
<1>8. ASSUME NEW r \in Service, Handle(r) \/ HandleFails(r) PROVE KeptFresh(s, F)'
  <2>1. /\ check.step = "handle" /\ check'.step = "handle" /\ check'.names = check.names
        /\ check'.verdict = check.verdict /\ check'.left = check.left \ {r}
        /\ r \in check.left /\ checkDue' = checkDue
    BY <1>8 DEF Handle, HandleFails, Handled, ServiceTypes
  <2>2. CASE r # s
    <3>1. alerted' \ {r} = alerted \ {r} /\ unfired'[s] = unfired[s]
      BY <1>8, <2>2 DEF Handle, HandleFails, handleHealthy, logConfig, handleUnhealthy, ServiceTypes
    <3> QED BY <1>1, <1>2, <1>3, <2>1, <2>2, <3>1 DEF KeptFresh, Awaited
  <2>3. CASE r = s /\ Handle(r)
    <3>1. s \in alerted' /\ unfired'[s] = 0 /\ checkFaults' = checkFaults
      BY <1>3, <2>1, <2>3 DEF Handle, handleHealthy, logConfig, handleUnhealthy, NoCheckFault,
         ServiceTypes
    <3> QED BY <1>1, <1>3, <2>1, <3>1 DEF KeptFresh, Awaited
  <2>4. CASE r = s /\ HandleFails(r)
    <3>1. alerted' = alerted /\ unfired' = unfired /\ checkFaults' = checkFaults + 1
      BY <2>4 DEF HandleFails, CheckFault
    <3> QED BY <1>1, <1>3, <2>1, <2>4, <3>1 DEF KeptFresh, Awaited
  <2> QED BY <1>8, <2>2, <2>3, <2>4
<1>9. ASSUME NEW r \in Service, Close(r) PROVE KeptFresh(s, F)'
  <2>1. /\ check'.step = check.step /\ check.step \in {"expire", "demoted"} /\ check'.names = check.names
        /\ check'.left = check.left \ {r} /\ r \in check.left /\ unfired' = unfired
        /\ alerted' \ {r} = alerted \ {r}
    BY <1>9 DEF Close, Handled, ServiceTypes
  <2> QED BY <1>1, <1>2, <1>3, <2>1 DEF KeptFresh, Awaited
<1>10. CASE RoundPasses
  <2>1. unfired'[s] <= unfired[s] + 1
    BY <1>1, <1>10 DEF RoundPasses
  <2>2. unfired'[s] \in Nat /\ checkFaults' = checkFaults /\ check' = check /\ alerted' = alerted
        /\ check.step = "idle" /\ ~checkDue /\ checkDue'
    BY <1>1, <1>10 DEF RoundPasses
  <2>3. ~Awaited(s) /\ Awaited(s)'
    BY <2>2 DEF Awaited
  <2> QED BY <1>1, <1>3, <2>1, <2>2, <2>3 DEF KeptFresh
<1>11. CASE (\E r \in Service : AnswerChanges(r)) \/ UNCHANGED serviceVars
  <2>1. UNCHANGED <<alerted, unfired, check, checkDue, checkFaults>>
    BY <1>11 DEF AnswerChanges, serviceVars
  <2> QED BY <2>1 DEF KeptFresh, Awaited
<1> QED BY <1>4, <1>5, <1>6, <1>7, <1>8, <1>9, <1>10, <1>11 DEF ServiceNext, Check

(* The alert of a service that stays down, once fired, is closed by nothing *)
(* short of STALE failures and deploys since: neither the expiry of stale   *)
(* alerts nor the end of a sweep takes an outage for over, however long it  *)
(* lasts and whatever its path answers (health-watcher.ts:61-92, 135-153).  *)
(* The count starts again with every round in which the alert fires.        *)
THEOREM OutageKeepsItsAlert ==
  ASSUME NEW s \in Service \ Poison, NEW F \in Nat
  PROVE  ServiceSpec =>
           [](JustFired(s) /\ checkFaults = F /\ []IsDown(s)
                => [](checkFaults - F < STALE => s \in alerted))
<1> DEFINE IInv == F <= checkFaults /\ KeptFresh(s, F)
<1>1. JustFired(s) /\ checkFaults = F => IInv
  BY DEF JustFired, KeptFresh, Awaited
<1>2. ServiceTypes /\ IsDown(s) /\ IInv /\ [ServiceNext]_serviceVars => IInv'
  BY NextKeptFresh
<1>3. IInv => (checkFaults - F < STALE => s \in alerted)
  BY DEF KeptFresh
<1> HIDE DEF IInv
<1> QED BY <1>1, <1>2, <1>3, ServiceTypesCorrect, PTL DEF ServiceSpec

NothingWrong(s) == s \notin monitored \/ answer[s] \in {"success", "notFound"}

(* The probe of the running sweep has nothing against s.                    *)
NotSuspect(s) ==
    check.step = "handle" /\ s \in check.left => check.verdict[s] \in {"healthy", "config"}

LEMMA EndedStays ==
  ASSUME ServiceTypes, NEW s \in Service,
         NothingWrong(s), NotSuspect(s), [ServiceNext]_serviceVars
  PROVE  NotSuspect(s)' /\ (s \notin alerted => s \notin alerted')
<1> USE DEF NothingWrong, NotSuspect
<1>1. CASE FindStale \/ ListActive \/ Finish \/ ListingFails \/ Deploy
  <2>1. check'.step # "handle" /\ alerted' = alerted
    <3>1. CASE FindStale \/ ListActive
      BY <3>1 DEF FindStale, ListActive, ServiceTypes
    <3>2. CASE Finish \/ ListingFails \/ Deploy
      BY <3>2 DEF Finish, ListingFails, Deploy, Quiet
    <3> QED BY <1>1, <3>1, <3>2
  <2> QED BY <2>1
<1>2. CASE Probe
  <2>1. check'.left = monitored /\ check'.verdict[s] = checkServiceHealth[answer[s]]
        /\ alerted' = alerted
    BY <1>2 DEF Probe
  <2>2. s \in monitored => checkServiceHealth[answer[s]] \in {"healthy", "config"}
    BY DEF checkServiceHealth
  <2> QED BY <2>1, <2>2
<1>3. ASSUME NEW r \in Service, Handle(r) \/ HandleFails(r) \/ Close(r)
      PROVE  NotSuspect(s)' /\ (s \notin alerted => s \notin alerted')
  <2>1. /\ check'.step = check.step /\ check'.left = check.left \ {r}
        /\ check'.verdict = check.verdict
    BY <1>3 DEF Handle, HandleFails, Close, Handled, ServiceTypes
  <2>2. s \notin alerted /\ s \in alerted'
           => r = s /\ check.step = "handle" /\ s \in check.left /\ handleUnhealthy(s)
    BY <1>3 DEF Handle, HandleFails, Close, handleHealthy, logConfig, handleUnhealthy
  <2>3. handleUnhealthy(s) => check.verdict[s] \notin {"healthy", "config"}
    BY DEF handleUnhealthy
  <2> QED BY <2>1, <2>2, <2>3
<1>4. CASE RoundPasses \/ (\E r \in Service : AnswerChanges(r)) \/ UNCHANGED serviceVars
  BY <1>4 DEF RoundPasses, AnswerChanges, serviceVars
<1> QED BY <1>1, <1>2, <1>3, <1>4 DEF ServiceNext, Check

(* An alert that has ended does not come back while its service is right,   *)
(* wrong in the registry only, or out of it, whichever of these holds when. *)
THEOREM EndedAlertStaysEnded ==
  ASSUME NEW s \in Service
  PROVE  ServiceSpec =>
           [](check.step = "idle" /\ s \notin alerted /\ []NothingWrong(s) => [](s \notin alerted))
<1> DEFINE Nothing == NothingWrong(s)
           Ended == s \notin alerted
           Idle == check.step = "idle"
<1>1. Idle => NotSuspect(s)
  BY DEF NotSuspect
<1>2. ServiceTypes /\ Nothing /\ NotSuspect(s) /\ [ServiceNext]_serviceVars
        => NotSuspect(s)' /\ (Ended => Ended')
  BY EndedStays
<1> HIDE DEF Nothing, Ended, Idle
<1>3. ServiceSpec => [](Idle /\ Ended /\ []Nothing => []Ended)
  BY <1>1, <1>2, ServiceTypesCorrect, PTL DEF ServiceSpec
<1> QED BY <1>3 DEF Nothing, Ended, Idle

-----------------------------------------------------------------------------
(* Both watchers side by side *)

(* In a run of both, each watcher behaves as its own specification says,    *)
(* for the other's steps leave its variables alone.                         *)
LEMMA EachWatcher == MCSpec => Spec /\ ServiceSpec
<1>1. MCInit => Init /\ ServiceInit
  BY DEF MCInit
<1>2. [MCNext]_MCvars => [Next]_vars /\ [ServiceNext]_serviceVars
  BY DEF MCNext, Jobs, Services, Stands, MCvars
<1> QED BY <1>1, <1>2, PTL DEF MCSpec, Spec, ServiceSpec

(* Every variable of both watchers keeps its type.                          *)
THEOREM WatcherTypesCorrect == MCSpec => []TypesOK
<1>1. JobTypes /\ ServiceTypes <=> TypesOK
  BY DEF TypesOK
<1> QED BY <1>1, EachWatcher, JobTypesCorrect, ServiceTypesCorrect, PTL
=============================================================================
