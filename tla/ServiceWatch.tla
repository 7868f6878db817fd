---------------------------- MODULE ServiceWatch ----------------------------
(***************************************************************************)
(* src/services/services.service.ts and src/alerts/health-watcher.ts: the   *)
(* probe of every registered service and the sweep that turns its verdicts  *)
(* into alerts.                                                             *)
(*                                                                          *)
(* The alerts table is seen through its promise: alerted is the set of      *)
(* services with an open health alert, fire adds one or refreshes it, a     *)
(* resolve removes it.  Time is counted in rounds of the watcher's cron.    *)
(***************************************************************************)
EXTENDS Integers

CONSTANTS
    Service,         \* the registered services
    Poison,          \* those whose alert row no query can process
    STALE,           \* STALE_ALERT_MINUTES, in rounds
    MaxCheckFaults   \* bound on restarts and failed calls

ASSUME ServiceAssumption ==
    Poison \subseteq Service /\ STALE \in Nat /\ MaxCheckFaults \in Nat

VARIABLES
    monitored,   \* the monitorable entries of the registry; a deploy changes them
    answer,      \* answer[s]: what s's health path answers now
    alerted,     \* services with an open alert
    unfired,     \* unfired[s]: rounds since the open alert of s last fired
    check,       \* the local variables of runCheck
    checkDue,    \* this round's cron has yet to fire
    checkFaults  \* failures so far

serviceVars == <<monitored, answer, alerted, unfired, check, checkDue, checkFaults>>

Answer == {"success", "redirect", "notFound", "otherStatus", "nothing"}

\* Mutation: a wrong path is an outage like any other.
PathIsOutage ==
    [a \in Answer |-> IF a = "success" THEN "healthy" ELSE
                      IF a = "nothing" THEN "unreachable" ELSE "unhealthy"]

(* With maxRedirects 0 a redirect is an answer like any other failure.      *)
checkServiceHealth ==
    [success |-> "healthy", notFound |-> "config", nothing |-> "unreachable",
     redirect |-> "unhealthy", otherStatus |-> "unhealthy"]

Verdict == {"healthy", "config", "unreachable", "unhealthy"}

Quiet == [step |-> "idle", left |-> {}, verdict |-> [s \in Service |-> "healthy"],
          names |-> {}]

ServiceInit ==
    /\ monitored = Service /\ answer = [s \in Service |-> "success"]
    /\ alerted = {} /\ unfired = [s \in Service |-> 0]
    /\ check = Quiet /\ checkDue = TRUE /\ checkFaults = 0

CheckFault == checkFaults < MaxCheckFaults /\ checkFaults' = checkFaults + 1
NoCheckFault == UNCHANGED checkFaults

-----------------------------------------------------------------------------
(* runCheck: stale alerts, then every service, then the demoted ones *)

\* Mutation: nothing expires.
NeverStale == {}

findStale == {s \in alerted : unfired[s] > STALE}

FindStale ==
    /\ checkDue /\ check.step = "idle"
    /\ check' = [check EXCEPT !.step = "expire", !.left = findStale]
    /\ checkDue' = FALSE
    /\ NoCheckFault /\ UNCHANGED <<monitored, answer, alerted, unfired>>

\* getServicesStatus: each probe times out on its own, none fails the others.
Probe ==
    /\ check.step = "expire" /\ check.left = {}
    /\ check' = [step |-> "handle", left |-> monitored, names |-> monitored,
                 verdict |-> [s \in Service |-> checkServiceHealth[answer[s]]]]
    /\ NoCheckFault /\ UNCHANGED <<monitored, answer, alerted, unfired, checkDue>>

Handled(s) == check' = [check EXCEPT !.left = @ \ {s}]

handleHealthy(s) ==
    /\ check.verdict[s] = "healthy"
    /\ alerted' = alerted \ {s} /\ UNCHANGED unfired

logConfig(s) == check.verdict[s] = "config" /\ UNCHANGED <<alerted, unfired>>

(* fire saves the row; whether its message is due, and sent, is the alert   *)
(* lifecycle's concern.                                                     *)
handleUnhealthy(s) ==
    /\ check.verdict[s] \in {"unhealthy", "unreachable"}
    /\ alerted' = alerted \cup {s} /\ unfired' = [unfired EXCEPT ![s] = 0]

Handle(s) ==
    /\ check.step = "handle" /\ s \in check.left \ Poison
    /\ handleHealthy(s) \/ logConfig(s) \/ handleUnhealthy(s)
    /\ Handled(s) /\ NoCheckFault /\ UNCHANGED <<monitored, answer, checkDue>>

\* Mutation: one service that fails ends the loop.
FailureAborts(s) ==
    /\ check.step = "handle" /\ s \in check.left
    /\ s \in Poison /\ NoCheckFault
    /\ check' = Quiet
    /\ UNCHANGED <<monitored, answer, alerted, unfired, checkDue>>

(* One service's failure must never abort the sweep.                        *)
HandleFails(s) ==
    /\ check.step = "handle" /\ s \in check.left
    /\ \/ s \in Poison /\ NoCheckFault
       \/ s \notin Poison /\ CheckFault
    /\ Handled(s) /\ UNCHANGED <<monitored, answer, alerted, unfired, checkDue>>

demoted == alerted \ check.names

ListActive ==
    /\ check.step = "handle" /\ check.left = {}
    /\ check' = [check EXCEPT !.step = "demoted", !.left = demoted]
    /\ NoCheckFault /\ UNCHANGED <<monitored, answer, alerted, unfired, checkDue>>

(* resolveByFingerprint, for a stale alert or a demoted service.            *)
Close(s) ==
    /\ check.step \in {"expire", "demoted"} /\ s \in check.left
    /\ \/ s \notin Poison /\ alerted' = alerted \ {s} /\ NoCheckFault
       \/ s \in Poison /\ NoCheckFault /\ UNCHANGED alerted
       \/ s \notin Poison /\ CheckFault /\ UNCHANGED alerted
    /\ Handled(s) /\ UNCHANGED <<monitored, answer, unfired, checkDue>>

Finish ==
    /\ check.step = "demoted" /\ check.left = {}
    /\ check' = Quiet
    /\ NoCheckFault /\ UNCHANGED <<monitored, answer, alerted, unfired, checkDue>>

(* A listing that throws: of stale alerts it ends the sweep, of active ones *)
(* it ends the last part.                                                   *)
ListingFails ==
    /\ \/ check.step = "idle" /\ checkDue
       \/ check.step = "handle" /\ check.left = {}
    /\ CheckFault /\ check' = Quiet /\ checkDue' = FALSE
    /\ UNCHANGED <<monitored, answer, alerted, unfired>>

Check ==
    \/ FindStale \/ Probe \/ ListActive \/ Finish \/ ListingFails
    \/ \E s \in Service : Handle(s) \/ HandleFails(s) \/ Close(s)

-----------------------------------------------------------------------------
(* The services, the registry and the clock *)

AnswerChanges(s) ==
    /\ \E a \in Answer \ {answer[s]} : answer' = [answer EXCEPT ![s] = a]
    /\ UNCHANGED <<monitored, alerted, unfired, check, checkDue, checkFaults>>

(* A new registry comes with a new pod, which loses the running sweep.      *)
Deploy ==
    /\ CheckFault /\ monitored' \in SUBSET Service
    /\ check' = Quiet /\ checkDue' = FALSE
    /\ UNCHANGED <<answer, alerted, unfired>>

RoundPasses ==
    /\ ~checkDue /\ check.step = "idle"
    /\ checkDue' = TRUE
    /\ unfired' = [s \in Service |-> IF s \notin alerted THEN 0 ELSE
                                     IF unfired[s] > STALE THEN unfired[s] ELSE unfired[s] + 1]
    /\ UNCHANGED <<monitored, answer, alerted, check, checkFaults>>

ServiceNext == Check \/ Deploy \/ RoundPasses \/ \E s \in Service : AnswerChanges(s)

ServiceSpec == ServiceInit /\ [][ServiceNext]_serviceVars

(* The cron fires and its sweep goes on.                                    *)
ServiceFairSpec == ServiceSpec /\ WF_serviceVars(RoundPasses) /\ WF_serviceVars(Check)

-----------------------------------------------------------------------------
(* The type of every variable.                                              *)
ServiceTypes ==
    /\ monitored \subseteq Service /\ alerted \subseteq Service
    /\ answer \in [Service -> Answer]
    /\ unfired \in [Service -> 0..(STALE + 1)]
    /\ check \in [step : {"idle", "expire", "handle", "demoted"}, left : SUBSET Service,
                  verdict : [Service -> Verdict], names : SUBSET Service]
    /\ checkDue \in BOOLEAN /\ checkFaults \in 0..MaxCheckFaults

(* A service that stays down, whatever its path answers instead, gets its   *)
(* alert and keeps it, although another service's row cannot be processed   *)
(* (health-watcher.ts:61-87).                                               *)
OutageReported ==
    \A s \in Service \ Poison :
        <>[](s \in monitored /\ answer[s] \in {"redirect", "otherStatus", "nothing"})
            => <>[](s \in alerted)

(* An alert outlives neither the recovery of its service, nor its removal   *)
(* from the registry, nor a registry entry gone wrong, which only the       *)
(* expiry of stale alerts can close (lines 67-75, 89-92, 135-153).          *)
AlertsEnd ==
    \A s \in Service \ Poison :
        \/ []<>(s \in monitored) /\ []<>(answer[s] \notin {"success", "notFound"})
        \/ <>[](s \notin alerted)

(* A registry entry that is wrong is no outage: a service whose path was    *)
(* only ever right or absent never alerts (lines 30-33).                    *)
RegistryBugsQuiet ==
    \A s \in Service :
        [](answer[s] \in {"success", "notFound"}) => [](s \notin alerted)
=============================================================================
