----------------------------- MODULE MCWatchers -----------------------------
(***************************************************************************)
(* The schedules, the job watcher on the intervals computed from them, and  *)
(* the service watcher, for TLC.  They share no variable, so in each        *)
(* behaviour one of them moves and the others stand still: their states add *)
(* up instead of multiplying.                                               *)
(*                                                                          *)
(* Of the two CronJobs one runs every round and one every other.            *)
(***************************************************************************)
EXTENDS JobWatcher, ServiceWatch, MCCronSchedule, TLC

CONSTANTS often, seldom

VARIABLE moving

EveryRound == [readable |-> TRUE, minute |-> {Star}, hour |-> {Star},
               month |-> NULL, dom |-> NULL, dow |-> NULL]

JobSchedules == (often :> EveryRound) @@ (seldom :> [EveryRound EXCEPT !.minute = {Every(2)}])

MCvars == <<moving, schedule, vars, serviceVars>>

MCInit ==
    /\ moving \in {"schedule", "jobs", "services"}
    /\ IF moving = "schedule" THEN ScheduleInit ELSE schedule = [EveryRound EXCEPT !.readable = FALSE]
    /\ Init /\ ServiceInit

Jobs(A) == moving = "jobs" /\ A /\ UNCHANGED <<moving, schedule, serviceVars>>
Services(A) == moving = "services" /\ A /\ UNCHANGED <<moving, schedule, vars>>

(* Nothing changes a schedule.                                              *)
Stands == moving = "schedule" /\ UNCHANGED MCvars

MCNext == Jobs(Next) \/ Services(ServiceNext) \/ Stands

MCSpec == MCInit /\ [][MCNext]_MCvars

(* What each watcher's own FairSpec assumes, of the one that moves.         *)
MCFairSpec ==
    /\ MCSpec
    /\ WF_MCvars(Jobs(Tick) \/ Services(RoundPasses))
    /\ WF_MCvars(Jobs(SweepStep) \/ Services(Check))

-----------------------------------------------------------------------------
(* The types of both watchers.                                              *)
TypesOK == JobTypes /\ ServiceTypes
=============================================================================
