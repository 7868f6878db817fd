-------------------------- MODULE AlertLifecycle ---------------------------
(***************************************************************************)
(* The alerts table with everything that calls it: the sources that fire    *)
(* and resolve (the watchers and the ingest endpoints), stale expiry, the   *)
(* recovery sweeper, the operator's endpoints, the chat, the clock and the  *)
(* failures.                                                                *)
(*                                                                          *)
(* A worker is one execution context.  The role sets say which workers may  *)
(* do what: one worker in every role is a service whose handlers never      *)
(* overlap; one worker per cron job is one pod; two workers in a role are   *)
(* the two pods of a rolling update.                                        *)
(***************************************************************************)
EXTENDS AlertsService

CONSTANTS
    Firers, Resolvers, Expirers, Sweepers, Operators,  \* the roles
    SourcePeriod,  \* least ticks between two fires of one fingerprint
    MaxOpTicks,    \* bound: ticks that a handler may be in flight
    MaxTime,       \* bound: the last tick
    MaxFaults,     \* bound: crashes, failed sends and failed queries
    MaxRequests    \* bound: requests of the operator

ASSUME LifecycleAssumption ==
    /\ Firers \cup Resolvers \cup Expirers \cup Sweepers \cup Operators \subseteq Worker
    /\ {SourcePeriod, MaxOpTicks, MaxTime, MaxFaults, MaxRequests} \subseteq Nat

VARIABLES
    chat,     \* history: what the chat last heard about each alert, and when
    faults,   \* how many failures have happened
    requests  \* how many requests the operator has made

vars == <<alerts, task, now, chat, faults, requests>>

Said == {"nothing", "down", "up"}

Init ==
    /\ alerts = [i \in AlertId |-> NULL]
    /\ task = [p \in Worker |-> Idle]
    /\ now = 0
    /\ chat = [i \in AlertId |-> [said |-> "nothing", at |-> 0]]
    /\ faults = 0
    /\ requests = 0

Tell(id, what) == chat' = [chat EXCEPT ![id] = [said |-> what, at |-> now]]

Fault == faults < MaxFaults /\ faults' = faults + 1 /\ UNCHANGED <<now, requests>>

NoFault == UNCHANGED <<now, faults, requests>>

Request == requests < MaxRequests /\ requests' = requests + 1 /\ UNCHANGED <<now, faults>>

-----------------------------------------------------------------------------
(* Sources *)

SourceReady(problem) ==
    problem.fingerprint # NULL =>
        \A i \in AlertId : /\ alerts[i] # NULL
                           /\ alerts[i].fingerprint = problem.fingerprint
                           => now - alerts[i].lastFiredAt >= SourcePeriod

Fire(p, problem) ==
    /\ SourceReady(problem)
    /\ fire(p, problem)
    /\ NoFault /\ UNCHANGED chat

FireFindPending(p) == fireFindPending(p) /\ NoFault /\ UNCHANGED chat

FireSave(p) == fireSave(p) /\ NoFault /\ UNCHANGED chat

FireConflict(p) == fireConflict(p) /\ NoFault /\ UNCHANGED chat

\* Mutation: the caller never sends what fire asked it to.
NotifySkipped(p) ==
    /\ task[p].step = "notify"
    /\ task' = [task EXCEPT ![p] = Idle]
    /\ NoFault /\ UNCHANGED <<alerts, chat>>

(* The caller sends the opening or the repeat that fire asked for.          *)
Notify(p) ==
    /\ task[p].step = "notify"
    /\ Tell(task[p].entity.id, "down")
    /\ task' = [task EXCEPT ![p] = Idle]
    /\ NoFault /\ UNCHANGED alerts

Resolve(p, fingerprint) ==
    resolveByFingerprint(p, fingerprint) /\ NoFault /\ UNCHANGED chat

ResolveService(p, service) ==
    resolveByService(p, service) /\ NoFault /\ UNCHANGED chat

SaveClosed(p) == saveClosed(p) /\ NoFault /\ UNCHANGED chat

-----------------------------------------------------------------------------
(* HealthWatcher.expireStaleAlerts *)

(* What a loop over task[p].batch does after it is done with one of them.   *)
NextIn(p, step, rest) ==
    task' = [task EXCEPT ![p] =
                IF rest = {} THEN Idle
                ELSE [Idle EXCEPT !.step = step, !.at = task[p].at, !.batch = rest]]

ExpireStale(p) ==
    /\ task[p].step = "idle"
    /\ findStale # {}
    /\ task' = [task EXCEPT ![p] = [Idle EXCEPT !.step = "expire", !.at = now,
                                                !.batch = findStale]]
    /\ NoFault /\ UNCHANGED <<alerts, chat>>

(* resolveByFingerprint(alert.fingerprint, {silent: true}) looks the alert  *)
(* up again; it may have been closed, or replaced, since findStale.         *)
ExpireFind(p) ==
    \E stale \in task[p].batch :
        /\ task[p].step = "expire"
        /\ \/ \E i \in ActiveFor(stale.fingerprint) :
                 task' = [task EXCEPT ![p] =
                             [task[p] EXCEPT !.step = "saveExpired",
                                             !.batch = @ \ {stale},
                                             !.entity = Closed(alerts[i], now, TRUE)]]
           \/ /\ ActiveFor(stale.fingerprint) = {}
              /\ NextIn(p, "expire", task[p].batch \ {stale})
        /\ NoFault /\ UNCHANGED <<alerts, chat>>

ExpireSave(p) ==
    /\ task[p].step = "saveExpired"
    /\ Save(task[p].entity)
    /\ NextIn(p, "expire", task[p].batch)
    /\ NoFault /\ UNCHANGED chat

(* One expiry failing leaves the others to be expired.                      *)
ExpireFails(p) ==
    /\ task[p].step = "saveExpired"
    /\ Fault
    /\ NextIn(p, "expire", task[p].batch)
    /\ UNCHANGED <<alerts, chat>>

-----------------------------------------------------------------------------
(* AlertSweeper.flushDueResolves *)

SweepLoad(p) ==
    /\ task[p].step = "idle"
    /\ findDueResolves(now) # {}
    /\ task' = [task EXCEPT ![p] = [Idle EXCEPT !.step = "announce", !.at = now,
                                                !.batch = findDueResolves(now)]]
    /\ NoFault /\ UNCHANGED <<alerts, chat>>

Announce(p, alert) ==
    /\ task[p].step = "announce"
    /\ Tell(alert.id, "up")
    /\ task' = [task EXCEPT ![p] = [task[p] EXCEPT !.step = "markNotified",
                                                   !.batch = @ \ {alert},
                                                   !.entity = alert]]
    /\ NoFault /\ UNCHANGED alerts

(* sendTelegram throws: nothing was delivered, or (a time-out) it was.      *)
AnnounceFails(p, alert) ==
    /\ task[p].step = "announce"
    /\ Fault
    /\ UNCHANGED chat \/ Tell(alert.id, "up")
    /\ NextIn(p, "announce", task[p].batch \ {alert})
    /\ UNCHANGED alerts

Mark(p) ==
    /\ task[p].step = "markNotified"
    /\ markResolveNotified(task[p].entity.id, task[p].at)
    /\ NextIn(p, "announce", task[p].batch)
    /\ NoFault /\ UNCHANGED chat

MarkFails(p) ==
    /\ task[p].step = "markNotified"
    /\ Fault
    /\ NextIn(p, "announce", task[p].batch)
    /\ UNCHANGED <<alerts, chat>>

-----------------------------------------------------------------------------
(* The operator's endpoints *)

Create(p, service) == create(p, service) /\ Request /\ UNCHANGED chat

Acknowledge(p, id) == acknowledge(p, id) /\ Request /\ UNCHANGED chat

ResolveById(p, id) == resolve(p, id) /\ Request /\ UNCHANGED chat

SaveAdmin(p) == saveAdmin(p) /\ NoFault /\ UNCHANGED chat

-----------------------------------------------------------------------------
(* Environment *)

(* A crash, or a query or send that throws out of the handler: the database *)
(* keeps what was committed and the worker forgets what it was doing.       *)
Abort(p) ==
    /\ task[p].step # "idle"
    /\ Fault
    /\ task' = [task EXCEPT ![p] = Idle]
    /\ UNCHANGED <<alerts, chat>>

Tick ==
    /\ now < MaxTime
    /\ \A p \in Worker : task[p].step # "idle" => now - task[p].at < MaxOpTicks
    /\ now' = now + 1
    /\ UNCHANGED <<alerts, task, chat, faults, requests>>

-----------------------------------------------------------------------------
SourceStep(p) ==
    \/ p \in Firers /\ \E problem \in Problems : Fire(p, problem)
    \/ p \in Resolvers /\ \E f \in Fingerprint : Resolve(p, f)
    \/ p \in Resolvers /\ \E s \in Service : ResolveService(p, s)
    \/ p \in Expirers /\ ExpireStale(p)

OperatorStep(p) ==
    /\ p \in Operators
    /\ \/ \E s \in Service : Create(p, s)
       \/ \E id \in AlertId : Acknowledge(p, id) \/ ResolveById(p, id)

Sweep(p) == p \in Sweepers /\ SweepLoad(p)

(* The next step of a handler that is in flight.                            *)
Continue(p) ==
    \/ FireFindPending(p) \/ FireSave(p) \/ FireConflict(p) \/ Notify(p)
    \/ SaveClosed(p)
    \/ ExpireFind(p) \/ ExpireSave(p)
    \/ \E alert \in task[p].batch : Announce(p, alert)
    \/ Mark(p)
    \/ SaveAdmin(p)

Fail(p) ==
    \/ Abort(p) \/ ExpireFails(p) \/ MarkFails(p)
    \/ \E alert \in task[p].batch : AnnounceFails(p, alert)

Next ==
    \/ Tick
    \/ \E p \in Worker : SourceStep(p) \/ OperatorStep(p) \/ Sweep(p)
                         \/ Continue(p) \/ Fail(p)

Spec == Init /\ [][Next]_vars

(* The clock runs and an in-flight handler goes on.  The sweeper's cron and *)
(* the sources' come round again and again, however busy the worker is      *)
(* between two rounds: strong fairness.                                     *)
Fairness ==
    /\ WF_vars(Tick)
    /\ \A p \in Worker : WF_vars(Continue(p))
    /\ \A p \in Sweepers : SF_vars(Sweep(p))
    /\ \A p \in Firers, problem \in Problems : SF_vars(Fire(p, problem))

FairSpec == Spec /\ Fairness
=============================================================================
