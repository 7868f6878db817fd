--------------------------- MODULE MCCronSchedule ---------------------------
(* Schedules for TLC: every form of a field, and the days they are bound to. *)
EXTENDS CronCalendar

Part(kind, from, to, step) == [kind |-> kind, from |-> from, to |-> to, step |-> step]
Star == Part("any", NULL, NULL, NULL)
Every(n) == Part("any", NULL, NULL, n)
At(n) == Part("single", n, NULL, NULL)
From(n, step) == Part("single", n, NULL, step)
Between(a, b, step) == Part("range", a, b, step)
Junk == Part("junk", NULL, NULL, NULL)

MinuteFields ==
    {{Star}, {Every(2)}, {Every(0)}, {At(0)}, {At(3)}, {At(1), At(2)}, {From(1, 2)},
     {Between(1, 2, NULL)}, {Between(0, 9, 3)}, {Junk}, {Junk, At(2)}}

HourFields == {{Star}, {At(0)}, {At(2)}, {At(0), At(1)}, {Between(1, 2, NULL)}, {Every(2)}}

Weekdays == {NULL, {0}, {1, 2, 3, 4, 5}, {0, 3}}

Schedule(months, doms, dows) ==
    [readable : BOOLEAN, minute : MinuteFields, hour : HourFields,
     month : months, dom : doms, dow : dows]

DailyOrWeekly == Schedule({NULL}, {NULL}, Weekdays)
AnyDays == [readable : {TRUE}, minute : {{At(0)}}, hour : HourFields,
            month : {NULL, {1}, {2}}, dom : {NULL, {1}, {1, 15}, {10, 20}}, dow : Weekdays]

DatesOf(month, days) == [d \in 1..days |-> [month |-> month, dom |-> d]]

ThreeMonths == DatesOf(1, 31) \o DatesOf(2, 28) \o DatesOf(3, 31)
=============================================================================
