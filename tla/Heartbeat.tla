----------------------------- MODULE Heartbeat -----------------------------
(***************************************************************************)
(* src/alerts/heartbeat.service.ts: the registry of watchers, kept in the   *)
(* memory of one pod, and the check that alerts on those that are silent.   *)
(*                                                                          *)
(* The alerts table is seen through its promise (AlertPromise,              *)
(* OneActivePerFingerprint): open is the set of fingerprints with an open   *)
(* alert; fire adds one, a resolve removes it.  A watcher's name stands for *)
(* its fingerprint.  Time is kept as ages, in rounds of the cron jobs.      *)
(***************************************************************************)
EXTENDS Integers

CONSTANTS
    Watcher,       \* names of the registered watchers
    SilentAfter    \* expectedIntervalMinutes * MISSED_CYCLES_BEFORE_ALERT

ASSUME HeartbeatAssumption == SilentAfter \in Nat

VARIABLES
    age,      \* registry: age[w] is the time since w's last beat
    check,    \* the running check: watchers left, and those its snapshot calls silent
    open      \* fingerprints with an open alert

(* Beyond SilentAfter ages are all alike, so they saturate there.           *)
Older(a) == IF a > SilentAfter THEN a ELSE a + 1

NoCheck == [left |-> {}, silent |-> {}]

(* Every watcher registers when the pod starts, its clock seeded to now.    *)
register == age' = [w \in Watcher |-> 0]

beat(w) == age' = [age EXCEPT ![w] = 0]

\* Mutation: a failed cycle refreshes the beat.
failRefreshes(w) == age' = [age EXCEPT ![w] = 0]

(* The error is only displayed; the beat is not refreshed.                  *)
fail(w) == UNCHANGED age

snapshot == [left |-> Watcher, silent |-> {w \in Watcher : age[w] > SilentAfter}]

runCheck ==
    /\ check.left = {}
    /\ check' = snapshot
    /\ UNCHANGED <<age, open>>

\* Mutation: a watcher that beats again is not looked at.
NeverCleared(w) == IF w \in check.silent THEN open \cup {w} ELSE open

(* What the check of one watcher does to the table: fire, or resolve.       *)
Checked(w) == IF w \in check.silent THEN open \cup {w} ELSE open \ {w}

CheckWatcher(w) ==
    /\ w \in check.left
    /\ open' = Checked(w)
    /\ check' = [check EXCEPT !.left = @ \ {w}]
    /\ UNCHANGED age

(* The query throws, or the send does after the row is saved; the loop goes *)
(* on with the next watcher.                                                *)
CheckWatcherFails(w) ==
    /\ w \in check.left
    /\ open' \in {open, Checked(w)}
    /\ check' = [check EXCEPT !.left = @ \ {w}]
    /\ UNCHANGED age
=============================================================================
