-------------------------- MODULE ErrorLogWatcher --------------------------
(***************************************************************************)
(* src/alerts/error-log-watcher.ts: one pod's sweep over the error index    *)
(* that logging-microservice keeps in memory, with the heartbeat.           *)
(*                                                                          *)
(* A sweep that outlasts one cron interval is modelled, one that outlasts   *)
(* two is not.  Groups the sweep always skips (ignored services, probes)    *)
(* are left out of Signature.                                               *)
(***************************************************************************)
EXTENDS Heartbeat, FiniteSets

CONSTANTS
    Signature,        \* service and error signature: one group, one fingerprint
    Poison,           \* groups whose fire() always throws
    ErrorLog,         \* ERROR_LOG_WATCHER_NAME
    Ingest,           \* the fingerprint logingest:stale
    WINDOW,           \* how far back a sweep looks, in rounds
    MIN_OCCURRENCES,  \* occurrences in the window that are worth an alert
    MaxElapsed,       \* bound on the rounds that begin during a sweep
    MaxFaults         \* bound on crashes, restarts and failed calls

ASSUME ErrorLogAssumption ==
    /\ Poison \subseteq Signature
    /\ ErrorLog \in Watcher
    /\ Signature \cap Watcher = {} /\ Ingest \notin Signature \cup Watcher
    /\ WINDOW \in Nat \ {0} /\ MIN_OCCURRENCES \in Nat \ {0}
    /\ MaxElapsed \in {0, 1}
    /\ MaxFaults \in Nat

VARIABLES
    logged,     \* logged[s]: ages of the errors the services really logged
    indexed,    \* indexed[s]: those the index holds
    observed,   \* age of the index: now - indexedSince
    outage,     \* the watcher has no credential, or the log service no answer
    dark,       \* some service has stopped shipping logs
    active,     \* this.active, in the pod's memory
    sweep,      \* the local variables of runCheck
    due,        \* the cron jobs whose round of this interval is still to come
    faults      \* failures so far

envVars == <<logged, indexed, observed, outage, dark>>
vars == <<age, check, open, logged, indexed, observed, outage, dark, active,
          sweep, due, faults>>

Ages == 0..(WINDOW - 1)
Crons == {"errors", "heartbeat"}
SweepSteps == {"idle", "fetch", "groups", "resolve", "coverage"}

(* elapsed is the age of the captured now.  failing is history: what was    *)
(* really failing when the summary was fetched.                             *)
NoSweep == [step |-> "idle", elapsed |-> 0, left |-> {}, seen |-> {},
            trustResolution |-> FALSE, failing |-> {}]

Init ==
    /\ age = [w \in Watcher |-> 0] /\ check = NoCheck /\ open = {}
    /\ logged = [s \in Signature |-> {}] /\ indexed = [s \in Signature |-> {}]
    /\ observed = 0 /\ outage = FALSE /\ dark = FALSE
    /\ active = {} /\ sweep = NoSweep /\ due = Crons /\ faults = 0

Fault == faults < MaxFaults /\ faults' = faults + 1
NoFault == UNCHANGED faults

Worth(errors) == {s \in Signature : Cardinality(errors[s]) >= MIN_OCCURRENCES}

(* The catch of runCheck: no beat.                                          *)
SweepFailed ==
    /\ fail(ErrorLog)
    /\ sweep' = NoSweep
    /\ UNCHANGED <<check, active, due>>

-----------------------------------------------------------------------------
(* The sweep *)

Start ==
    /\ "errors" \in due /\ sweep.step = "idle"
    /\ sweep' = [NoSweep EXCEPT !.step = "fetch"]
    /\ due' = due \ {"errors"}
    /\ NoFault /\ UNCHANGED <<age, check, open, active, envVars>>

\* Mutation: a cold index is trusted.
trustAlways == TRUE

(* observedMinutes counts from the now captured before the fetch.           *)
trustResolution == observed - sweep.elapsed >= WINDOW

Fetch ==
    /\ sweep.step = "fetch" /\ ~outage
    /\ sweep' = [sweep EXCEPT !.step = "groups",
                              !.left = Worth(indexed),
                              !.trustResolution = trustResolution,
                              !.failing = Worth(logged)]
    /\ NoFault /\ UNCHANGED <<age, check, open, active, due, envVars>>

(* No credential, or a summary that cannot be fetched.                      *)
FetchFails ==
    /\ sweep.step = "fetch"
    /\ \/ outage /\ NoFault
       \/ ~outage /\ Fault
    /\ SweepFailed /\ UNCHANGED <<open, envVars>>

Processed(s) == [sweep EXCEPT !.left = @ \ {s}, !.seen = @ \cup {s}]

HandleGroup(s) ==
    /\ sweep.step = "groups" /\ s \in sweep.left \ Poison
    /\ open' = open \cup {s}
    /\ sweep' = Processed(s)
    /\ NoFault /\ UNCHANGED <<age, check, active, due, envVars>>

\* Mutation: a group that cannot be processed aborts the sweep.
GroupAborts(s) == sweep.step = "groups" /\ s \in sweep.left \cap Poison /\ UNCHANGED open
                  /\ NoFault /\ SweepFailed /\ UNCHANGED envVars

(* fire throws before the row is saved, or the send throws after it: the    *)
(* group was seen, and the sweep goes on.                                   *)
GroupFails(s) ==
    /\ sweep.step = "groups" /\ s \in sweep.left
    /\ \/ s \in Poison /\ NoFault /\ UNCHANGED open
       \/ Fault /\ open' \in {open, open \cup {s}}
    /\ sweep' = Processed(s)
    /\ UNCHANGED <<age, check, active, due, envVars>>

(* A cold index resolves nothing and forgets nothing.                       *)
KeepWatching ==
    /\ sweep.step = "groups" /\ sweep.left = {} /\ ~sweep.trustResolution
    /\ active' = active \cup sweep.seen
    /\ sweep' = [sweep EXCEPT !.step = "coverage"]
    /\ NoFault /\ UNCHANGED <<age, check, open, due, envVars>>

\* Mutation: only the in-memory set says what was active.
RememberedActive == active

\* Mutation: alerts of other watchers are taken for this one's.
AnyActive == active \cup open

(* The in-memory set and the ServiceLoggingErrors rows of findActive.       *)
previouslyActive == active \cup (open \cap Signature)

ToResolve(fingerprints) ==
    sweep' = [sweep EXCEPT !.step = "resolve", !.left = fingerprints \ sweep.seen]

ListActive ==
    /\ sweep.step = "groups" /\ sweep.left = {} /\ sweep.trustResolution
    /\ \/ ToResolve(previouslyActive) /\ NoFault
       \/ ToResolve(active) /\ Fault
    /\ UNCHANGED <<age, check, open, active, due, envVars>>

Resolve(s) ==
    /\ sweep.step = "resolve" /\ s \in sweep.left
    /\ open' = open \ {s}
    /\ sweep' = [sweep EXCEPT !.left = @ \ {s}]
    /\ NoFault /\ UNCHANGED <<age, check, active, due, envVars>>

(* A failed resolve is not caught in the loop: it ends the sweep.           *)
ResolveFails ==
    /\ sweep.step = "resolve" /\ sweep.left # {}
    /\ Fault /\ SweepFailed /\ UNCHANGED <<open, envVars>>

Resolved ==
    /\ sweep.step = "resolve" /\ sweep.left = {}
    /\ active' = sweep.seen
    /\ sweep' = [sweep EXCEPT !.step = "coverage"]
    /\ NoFault /\ UNCHANGED <<age, check, open, due, envVars>>

\* Mutation: an empty list of stale services returns early.
IngestNeverResolved == IF dark THEN open \cup {Ingest} ELSE open

(* One aggregate alert while any service is dark, closed when none is.      *)
Coverage == IF dark THEN open \cup {Ingest} ELSE open \ {Ingest}

(* No answer says nothing.                                                  *)
CheckIngestCoverage ==
    /\ sweep.step = "coverage"
    /\ \/ outage /\ UNCHANGED open
       \/ ~outage /\ open' = Coverage
    /\ beat(ErrorLog)
    /\ sweep' = NoSweep
    /\ NoFault /\ UNCHANGED <<check, active, due, envVars>>

CoverageFails ==
    /\ sweep.step = "coverage" /\ ~outage
    /\ Fault /\ SweepFailed
    /\ open' \in {open} \cup IF dark THEN {Coverage} ELSE {}
    /\ UNCHANGED envVars

-----------------------------------------------------------------------------
(* The heartbeat's cron, and the other watchers *)

StartCheck ==
    /\ "heartbeat" \in due /\ runCheck
    /\ due' = due \ {"heartbeat"}
    /\ NoFault /\ UNCHANGED <<active, sweep, envVars>>

Check(w) == CheckWatcher(w) /\ NoFault /\ UNCHANGED <<active, sweep, due, envVars>>

CheckFails(w) == CheckWatcherFails(w) /\ Fault /\ UNCHANGED <<active, sweep, due, envVars>>

OtherBeats(w) ==
    /\ beat(w)
    /\ NoFault /\ UNCHANGED <<check, open, active, sweep, due, envVars>>

-----------------------------------------------------------------------------
(* Environment *)

Log(s) ==
    /\ logged' = [logged EXCEPT ![s] = @ \cup {0}]
    /\ indexed' = [indexed EXCEPT ![s] = @ \cup {0}]
    /\ UNCHANGED <<age, check, open, observed, outage, dark, active, sweep, due, faults>>

OutageChanges ==
    /\ outage' = ~outage
    /\ UNCHANGED <<age, check, open, logged, indexed, observed, dark, active, sweep, due, faults>>

ShippingChanges ==
    /\ dark' = ~dark
    /\ UNCHANGED <<age, check, open, logged, indexed, observed, outage, active, sweep, due, faults>>

(* logging-microservice restarts with an empty index.                       *)
IndexRestarts ==
    /\ Fault
    /\ indexed' = [s \in Signature |-> {}] /\ observed' = 0
    /\ UNCHANGED <<age, check, open, logged, outage, dark, active, sweep, due>>

(* The pod restarts: its memory is gone, the alerts stay.                   *)
PodRestarts ==
    /\ Fault
    /\ register /\ check' = NoCheck /\ active' = {} /\ sweep' = NoSweep /\ due' = {}
    /\ UNCHANGED <<open, envVars>>

Aged(errors) == [s \in Signature |-> {a + 1 : a \in errors[s]} \cap Ages]

(* The next round of the cron jobs.  An index older than WINDOW + 1 is as   *)
(* good as one of that age, since a sweep lasts less than two rounds.       *)
Tick ==
    /\ due = {}
    /\ sweep.step # "idle" => sweep.elapsed < MaxElapsed
    /\ due' = Crons
    /\ age' = [w \in Watcher |-> Older(age[w])]
    /\ logged' = Aged(logged) /\ indexed' = Aged(indexed)
    /\ observed' = IF observed > WINDOW THEN observed ELSE observed + 1
    /\ sweep' = IF sweep.step = "idle" THEN sweep ELSE [sweep EXCEPT !.elapsed = @ + 1]
    /\ UNCHANGED <<check, open, outage, dark, active, faults>>

-----------------------------------------------------------------------------
SweepStep ==
    \/ Start \/ Fetch \/ KeepWatching \/ ListActive \/ Resolved \/ CheckIngestCoverage
    \/ FetchFails \/ ResolveFails \/ CoverageFails
    \/ \E s \in Signature : HandleGroup(s) \/ GroupFails(s) \/ Resolve(s)

CheckStep == StartCheck \/ \E w \in Watcher : Check(w) \/ CheckFails(w)

Environment ==
    \/ \E s \in Signature : Log(s)
    \/ \E w \in Watcher \ {ErrorLog} : OtherBeats(w)
    \/ OutageChanges \/ ShippingChanges \/ IndexRestarts \/ PodRestarts

Next == SweepStep \/ CheckStep \/ Environment \/ Tick

Spec == Init /\ [][Next]_vars

(* The clock runs, its cron rounds start and their handlers go on.  Nothing *)
(* is assumed of the environment.                                           *)
FairSpec == Spec /\ WF_vars(Tick) /\ WF_vars(SweepStep) /\ WF_vars(CheckStep)
=============================================================================
