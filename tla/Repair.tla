------------------------------- MODULE Repair -------------------------------
(***************************************************************************)
(* src/repair/repair.service.ts with the gate of src/repair/repair-gate.ts: *)
(* the sweep that decides what autonomous repair should do about each open  *)
(* alert, records the decision and announces those a person must take up.   *)
(*                                                                          *)
(* A worker is one run of the cron job: two while sweeps overlap or a       *)
(* rolling update runs two pods.  In this code a decision is "blocked" or   *)
(* "shadow", whatever REPAIR_MODE says; the statuses of an attempt that     *)
(* runs are read, never written, so no cooldown is ever set.  An alert      *)
(* without fingerprint is skipped and the beat that ends a sweep goes to    *)
(* the registry of module Heartbeat, so neither appears here.               *)
(***************************************************************************)
EXTENDS Integers, Sequences, FiniteSets, FailureSurfaces, Absent

CONSTANTS
    Worker,        \* sweeps that may run at one time
    Fingerprint,   \* the fingerprints alerts can have
    About,         \* About[f]: the alert's name and the service it is about
    Poison,        \* fingerprints whose decision can never be recorded
    MaxFaults      \* bound on restarts and failed calls

ASSUME RepairAssumption ==
    /\ About \in [Fingerprint -> [alertname : STRING, service : STRING]]
    /\ Poison \subseteq Fingerprint
    /\ NONE \notin Fingerprint
    /\ IsFiniteSet(Worker) /\ MaxFaults \in Nat

VARIABLES
    open,        \* fingerprints with an open alert
    attempts,    \* attempts[f]: the rows of repair_attempts, in the order written
    announced,   \* the rows whose escalation the chat received, and how often
    worker,      \* the local variables of sweep and considerAlert
    faults       \* failures so far

vars == <<open, attempts, announced, worker, faults>>

(* by, the sweep that wrote it, stands for the id of a row.                 *)
Row == [status : {"blocked", "shadow"}, by : Worker]

Idle == [step |-> "idle", left |-> {}, alert |-> NONE, status |-> "shadow"]

Init ==
    /\ open = {} /\ attempts = [f \in Fingerprint |-> <<>>]
    /\ announced = [f \in Fingerprint |-> 0]
    /\ worker = [w \in Worker |-> Idle] /\ faults = 0

Fault == faults < MaxFaults /\ faults' = faults + 1
NoFault == UNCHANGED faults

-----------------------------------------------------------------------------
(* The gate *)

SELF_REFERENTIAL_ALERTS == {"WatcherHeartbeatMissing", "LogIngestStale", "AlertDeliveryFailure"}
MAX_ATTEMPTS_PER_FINGERPRINT == 2

priorAttempts(f) ==
    Len(SelectSeq(attempts[f], LAMBDA a : a.status \notin {"shadow", "blocked"}))

\* Mutation: a surface the ledger does not name is taken for harmless.
allowsUnregistered(f) ==
    /\ About[f].alertname \notin SELF_REFERENTIAL_ALERTS
    /\ findSurface(About[f].service) = {} \/ isAutoFixEligible(About[f].service)

(* Whether repair may act; no surface is ever in cooldown.                  *)
evaluateRepairGate(f) ==
    /\ About[f].alertname \notin SELF_REFERENTIAL_ALERTS
    /\ findSurface(About[f].service) # {} /\ isAutoFixEligible(About[f].service)
    /\ priorAttempts(f) < MAX_ATTEMPTS_PER_FINGERPRINT

\* Mutation: a blocked alert is considered again in every sweep.
redecidesBlocked(status) == status = "blocked"

(* Only a failed attempt is, once its cooldown is over.                     *)
isRedecidable(status) == status = "failed"

decided(f) == attempts[f] # <<>> /\ ~isRedecidable(attempts[f][Len(attempts[f])].status)

-----------------------------------------------------------------------------
(* The sweep *)

FindActive(w) ==
    /\ worker[w].step = "idle"
    /\ worker' = [worker EXCEPT ![w].step = "alerts", ![w].left = open]
    /\ NoFault /\ UNCHANGED <<open, attempts, announced>>

Skip(w, f) == worker' = [worker EXCEPT ![w].left = @ \ {f}]

AlreadyDecided(w, f) ==
    /\ worker[w].step = "alerts" /\ f \in worker[w].left
    /\ decided(f) /\ Skip(w, f)
    /\ NoFault /\ UNCHANGED <<open, attempts, announced>>

Decide(w, f) ==
    /\ worker[w].step = "alerts" /\ f \in worker[w].left
    /\ ~decided(f)
    /\ worker' = [worker EXCEPT ![w].step = "record", ![w].alert = f,
                     ![w].status = IF evaluateRepairGate(f) THEN "shadow" ELSE "blocked"]
    /\ NoFault /\ UNCHANGED <<open, attempts, announced>>

(* Back to the loop over the alerts.                                        *)
NextAlert(w) ==
    [Idle EXCEPT !.step = "alerts", !.left = worker[w].left \ {worker[w].alert}]

\* Mutation: the escalation no longer knows what it is about.
ForgetsAlert(w) == [Idle EXCEPT !.step = "announce", !.left = worker[w].left]

ToAnnounce(w) == [worker[w] EXCEPT !.step = "announce"]

Record(w) ==
    /\ worker[w].step = "record" /\ worker[w].alert \notin Poison
    /\ attempts' = [attempts EXCEPT ![worker[w].alert] =
                       Append(@, [status |-> worker[w].status, by |-> w])]
    /\ worker' = [worker EXCEPT ![w] =
                     IF worker[w].status = "shadow" THEN NextAlert(w)
                     ELSE ToAnnounce(w)]
    /\ NoFault /\ UNCHANGED <<open, announced>>

AnnounceBlocked(w) ==
    /\ worker[w].step = "announce"
    /\ announced' = [announced EXCEPT ![worker[w].alert] = @ + 1]
    /\ worker' = [worker EXCEPT ![w] = NextAlert(w)]
    /\ NoFault /\ UNCHANGED <<open, attempts>>

FinishSweep(w) ==
    /\ worker[w].step = "alerts" /\ worker[w].left = {}
    /\ worker' = [worker EXCEPT ![w] = Idle]
    /\ NoFault /\ UNCHANGED <<open, attempts, announced>>

\* Mutation: a decision that cannot be recorded ends the sweep.
AlertAborts(w) ==
    /\ worker[w].step = "record" /\ worker[w].alert \in Poison
    /\ worker' = [worker EXCEPT ![w] = Idle]
    /\ NoFault /\ UNCHANGED <<open, attempts, announced>>

(* The row cannot be saved: the sweep goes on with the next alert.          *)
AlertFails(w) ==
    /\ worker[w].step = "record"
    /\ \/ worker[w].alert \in Poison /\ NoFault
       \/ worker[w].alert \notin Poison /\ Fault
    /\ worker' = [worker EXCEPT ![w] = NextAlert(w)]
    /\ UNCHANGED <<open, attempts, announced>>

\* Mutation: a send that failed is tried again.
TriesAgain(w) == worker[w]

GivesUp(w) == NextAlert(w)

(* The error of a send is logged: nobody announces this decision again.     *)
AnnounceFails(w) ==
    /\ worker[w].step = "announce" /\ Fault
    /\ announced' \in {announced, [announced EXCEPT ![worker[w].alert] = @ + 1]}
    /\ worker' = [worker EXCEPT ![w] = GivesUp(w)]
    /\ UNCHANGED <<open, attempts>>

PodRestarts(w) ==
    /\ worker[w].step # "idle" /\ Fault
    /\ worker' = [worker EXCEPT ![w] = Idle]
    /\ UNCHANGED <<open, attempts, announced>>

-----------------------------------------------------------------------------
(* The watchers open and close alerts at any time. *)

AlertChanges(f) ==
    /\ open' = IF f \in open THEN open \ {f} ELSE open \cup {f}
    /\ UNCHANGED <<attempts, announced, worker, faults>>

Step(w) ==
    \/ FindActive(w) \/ Record(w) \/ AnnounceBlocked(w) \/ FinishSweep(w)
    \/ AlertFails(w) \/ AnnounceFails(w) \/ PodRestarts(w)
    \/ \E f \in Fingerprint : AlreadyDecided(w, f) \/ Decide(w, f)

Next ==
    \/ \E w \in Worker : Step(w)
    \/ \E f \in Fingerprint : AlertChanges(f)

Spec == Init /\ [][Next]_vars

(* The cron fires and its sweep goes on.                                    *)
Fairness == \A w \in Worker : WF_vars(Step(w))
FairSpec == Spec /\ Fairness

-----------------------------------------------------------------------------
Task == [step : {"idle", "alerts", "record", "announce"}, left : SUBSET Fingerprint,
         alert : Fingerprint \cup {NONE}, status : {"blocked", "shadow"}]

(* The type of every variable.                                              *)
RepairTypes ==
    /\ open \subseteq Fingerprint
    /\ attempts \in [Fingerprint -> Seq(Row)]
    /\ announced \in [Fingerprint -> Nat]
    /\ worker \in [Worker -> Task]
    /\ \A w \in Worker : worker[w].step \in {"record", "announce"} => worker[w].alert # NONE
    /\ faults \in 0..MaxFaults

Rows(f) == 1..Len(attempts[f])

(* "One decision per fingerprint" (repair.service.ts:90).                   *)
OneDecisionEach == \A f \in Fingerprint : Len(attempts[f]) <= 1

(* What the lookup does guarantee, through failures and restarts: an alert  *)
(* is not decided again by every sweep that finds it open, but has at most  *)
(* as many decisions as sweeps can overlap (repair.service.ts:90-92).       *)
DecisionsBounded == \A f \in Fingerprint : Len(attempts[f]) <= Cardinality(Worker)

(* Autonomy is opt-in (repair-gate.ts:13-15): what would be repaired is in  *)
(* the ledger, marked eligible, and does not report this service itself.    *)
OptInOnly ==
    \A f \in Fingerprint : \A i \in Rows(f) :
        attempts[f][i].status = "shadow" =>
            /\ About[f].service \in AutoFixEligible
            /\ About[f].service # "monitoring-microservice"
            /\ About[f].alertname # "LogIngestStale"

Blocked(f) == {i \in Rows(f) : attempts[f][i].status = "blocked"}
Announcing(f) == {w \in Worker : worker[w].step = "announce" /\ worker[w].alert = f}

(* An escalation is announced for a recorded decision, once, also when its  *)
(* send or the sweep fails: a channel is not flooded by retries             *)
(* (repair.service.ts:90-92).                                               *)
AnnouncedOnce ==
    \A f \in Fingerprint :
        announced[f] + Cardinality(Announcing(f)) <= Cardinality(Blocked(f))

(* An alert that stays open is decided, next to one that never can be.      *)
EveryAlertDecided ==
    \A f \in Fingerprint \ Poison : <>[](f \in open) => <>(attempts[f] # <<>>)
=============================================================================
