----------------------------- MODULE JobWatcher -----------------------------
(***************************************************************************)
(* src/alerts/job-watcher.ts over src/k8s/kube-client.ts: the sweep that    *)
(* alerts on CronJobs which have stopped succeeding.                        *)
(*                                                                          *)
(* One watched namespace.  The alerts table is seen through its promise:    *)
(* open is the set of CronJobs with an open alert, fire adds one, a resolve *)
(* removes it.  Time is counted in rounds of the watcher's cron; what an    *)
(* alert says (severity, missed runs, evidence) is display.                 *)
(***************************************************************************)
EXTENDS CronSchedule

CONSTANTS
    CronJob,       \* the CronJobs of the namespace; a name stands for its fingerprint
    ScheduleOf,    \* ScheduleOf[c]: the schedule of c
    MISSED,        \* rounds without a beat that make the watcher silent
    MaxFaults      \* bound on restarts and failed calls

ASSUME JobAssumption ==
    MISSED \in Nat \ {0} /\ MaxFaults \in Nat

VARIABLES
    present,     \* the CronJobs that exist
    suspended,   \* those an operator has suspended
    since,       \* since[c]: rounds since c last succeeded, or was created
    kube,        \* what the API answers: "all", "cronjobs" (no jobs, no pods) or "nothing"
    open,        \* fingerprints with an open alert
    sweep,       \* the local variables of runCheck and checkNamespace
    due,         \* this round's cron has yet to fire
    silentFor,   \* the heartbeat registry: rounds since the last beat
    faults       \* failures so far

clusterVars == <<present, suspended, since, kube>>
vars == <<present, suspended, since, kube, open, sweep, due, silentFor, faults>>

Interval == [c \in CronJob |-> intervalMinutesOrFallback(ScheduleOf[c])]

overdueAfter(c) == OVERDUE * Interval[c]

\* Mutation: the age of a job that never succeeds grows on.
OlderAndOlder(c) == since[c] + 1

(* Ages beyond the threshold are all alike.                                 *)
Older(c) == IF since[c] > overdueAfter(c) THEN since[c] ELSE since[c] + 1

NoSweep == [listing |-> FALSE, left |-> {}, overdue |-> {}]

Init ==
    /\ present = CronJob /\ suspended = {} /\ since = [c \in CronJob |-> 0]
    /\ kube = "all" /\ open = {}
    /\ sweep = NoSweep /\ due = TRUE /\ silentFor = 0 /\ faults = 0

Fault == faults < MaxFaults /\ faults' = faults + 1
NoFault == UNCHANGED faults

-----------------------------------------------------------------------------
\* Mutation: the third missed run is enough.
isOverdueAtOnce(c) == since[c] >= overdueAfter(c)

isOverdue(c) == since[c] > overdueAfter(c)

overdueJobs == {c \in present \ suspended : isOverdue(c)}

\* Mutation: only the jobs that need attention are looked at.
OnlyOverdue == overdueJobs

Listed == present

(* now was captured when the sweep began and the listing follows at once.   *)
ListCronJobs ==
    /\ due /\ ~sweep.listing /\ kube # "nothing"
    /\ sweep' = [listing |-> TRUE, left |-> Listed,
                 overdue |-> overdueJobs]
    /\ due' = FALSE
    /\ NoFault /\ UNCHANGED <<clusterVars, open, silentFor>>

(* No service account, or a listing that fails: the sweep gives no beat.    *)
ListFails ==
    /\ due /\ ~sweep.listing
    /\ \/ kube = "nothing" /\ NoFault
       \/ kube # "nothing" /\ Fault
    /\ due' = FALSE
    /\ UNCHANGED <<clusterVars, open, sweep, silentFor>>

Done(c) == [sweep EXCEPT !.left = @ \ {c}]

\* Mutation: the sweep resolves before it looks at the age.
ResolvesAll(c) ==
    /\ c \in sweep.left
    /\ open' = open \ {c}
    /\ sweep' = Done(c)
    /\ NoFault /\ UNCHANGED <<clusterVars, due, silentFor>>

(* A suspended job, or one that succeeded recently.                         *)
Settle(c) ==
    /\ c \in sweep.left \ sweep.overdue
    /\ open' = open \ {c}
    /\ sweep' = Done(c)
    /\ NoFault /\ UNCHANGED <<clusterVars, due, silentFor>>

(* listJobs and listPodNamesForJob answer; a log that is gone changes only  *)
(* the text.                                                                *)
HandleOverdue(c) ==
    /\ c \in sweep.left \cap sweep.overdue /\ kube = "all"
    /\ open' = open \cup {c}
    /\ sweep' = Done(c)
    /\ NoFault /\ UNCHANGED <<clusterVars, due, silentFor>>

\* Mutation: one job that cannot be processed aborts the sweep.
EvidenceAborts(c) ==
    /\ c \in sweep.left \cap sweep.overdue /\ kube # "all"
    /\ sweep' = NoSweep
    /\ NoFault /\ UNCHANGED <<clusterVars, open, due, silentFor>>

(* The evidence cannot be listed: collectEvidence throws before fire, and   *)
(* the sweep goes on with the next job.  So it is for every job while the   *)
(* API does not answer for everything; the one call that fails alone is     *)
(* among the faults of CronJobFails.                                        *)
EvidenceFails(c) ==
    /\ c \in sweep.left \cap sweep.overdue /\ kube # "all"
    /\ sweep' = Done(c)
    /\ NoFault /\ UNCHANGED <<clusterVars, open, due, silentFor>>

(* A query that throws, or a send that does after the row was saved.        *)
CronJobFails(c) ==
    /\ c \in sweep.left /\ Fault
    /\ open' \in {open} \cup IF c \in sweep.overdue THEN {open \cup {c}} ELSE {}
    /\ sweep' = Done(c)
    /\ UNCHANGED <<clusterVars, due, silentFor>>

FinishSweep ==
    /\ sweep.listing /\ sweep.left = {}
    /\ sweep' = NoSweep
    /\ silentFor' = 0
    /\ NoFault /\ UNCHANGED <<clusterVars, open, due>>

-----------------------------------------------------------------------------
(* The cluster, the operator and the clock *)

Succeed(c) ==
    /\ c \in present
    /\ since' = [since EXCEPT ![c] = 0]
    /\ UNCHANGED <<present, suspended, kube, open, sweep, due, silentFor, faults>>

Suspend(c) ==
    /\ c \in present
    /\ suspended' = IF c \in suspended THEN suspended \ {c} ELSE suspended \cup {c}
    /\ UNCHANGED <<present, since, kube, open, sweep, due, silentFor, faults>>

Delete(c) ==
    /\ c \in present
    /\ present' = present \ {c} /\ suspended' = suspended \ {c}
    /\ since' = [since EXCEPT ![c] = 0]
    /\ UNCHANGED <<kube, open, sweep, due, silentFor, faults>>

Create(c) ==
    /\ c \notin present
    /\ present' = present \cup {c}
    /\ UNCHANGED <<suspended, since, kube, open, sweep, due, silentFor, faults>>

KubeChanges ==
    /\ kube' \in {"all", "cronjobs", "nothing"} \ {kube}
    /\ UNCHANGED <<present, suspended, since, open, sweep, due, silentFor, faults>>

PodRestarts ==
    /\ Fault
    /\ sweep' = NoSweep /\ due' = FALSE /\ silentFor' = 0
    /\ UNCHANGED <<clusterVars, open>>

(* A sweep is over before the next one is due.                              *)
Tick ==
    /\ ~due /\ ~sweep.listing
    /\ due' = TRUE
    /\ since' = [c \in CronJob |-> IF c \in present THEN Older(c) ELSE since[c]]
    /\ silentFor' = IF silentFor = MISSED THEN MISSED ELSE silentFor + 1
    /\ UNCHANGED <<present, suspended, kube, open, sweep, faults>>

-----------------------------------------------------------------------------
SweepStep ==
    \/ ListCronJobs \/ ListFails \/ FinishSweep
    \/ \E c \in CronJob : Settle(c) \/ HandleOverdue(c) \/ EvidenceFails(c) \/ CronJobFails(c)

Environment ==
    \/ \E c \in CronJob : Succeed(c) \/ Suspend(c) \/ Delete(c) \/ Create(c)
    \/ KubeChanges \/ PodRestarts

Next == SweepStep \/ Environment \/ Tick

Spec == Init /\ [][Next]_vars

(* The cron fires, its sweep goes on and time passes.                       *)
FairSpec == Spec /\ WF_vars(Tick) /\ WF_vars(SweepStep)

-----------------------------------------------------------------------------
(* The type of every variable.                                              *)
JobTypes ==
    /\ present \subseteq CronJob /\ suspended \subseteq present
    /\ since \in [CronJob -> Nat] /\ \A c \in CronJob : since[c] <= overdueAfter(c) + 1
    /\ kube \in {"all", "cronjobs", "nothing"}
    /\ open \subseteq CronJob
    /\ sweep \in [listing : BOOLEAN, left : SUBSET CronJob, overdue : SUBSET CronJob]
    /\ due \in BOOLEAN
    /\ silentFor \in 0..MISSED
    /\ faults \in 0..MaxFaults

Overdue(c) == c \in present \ suspended /\ isOverdue(c)
Fine(c) == c \in present /\ ~Overdue(c)

(* A CronJob that stays overdue gets its alert and keeps it, whatever fails *)
(* a bounded number of times and whatever becomes of the other jobs         *)
(* (job-watcher.ts:181-182).                                                *)
OverdueReported ==
    \A c \in CronJob : <>[](Overdue(c) /\ kube = "all") => <>[](c \in open)

(* The alert of a CronJob that works again, or was suspended, is closed,    *)
(* also while the jobs and pods next to it cannot be listed (lines 184-208).*)
RecoveryClosed ==
    \A c \in CronJob : <>[](Fine(c) /\ kube # "nothing") => <>[](c \notin open)

(* A job is never alerted on for missing runs its multiple allows, although *)
(* it succeeds, is suspended or replaced in the middle of a sweep           *)
(* (lines 31-36).                                                           *)
JitterTolerated ==
    \A c \in CronJob : [](since[c] <= OVERDUE * Interval[c]) => [](c \notin open)

(* A watcher whose listing is refused does not look alive (lines 149-153,   *)
(* 164-168); one unreadable job does not silence it (lines 181-182).        *)
BlindnessShows ==
    /\ <>[](kube = "nothing") => <>[](silentFor = MISSED)
    /\ <>[](kube = "cronjobs") => <>[](silentFor < MISSED)
=============================================================================
