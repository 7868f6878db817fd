------------------------- MODULE CredentialWatcher -------------------------
(***************************************************************************)
(* src/alerts/credential-watcher.ts, credential-self-reporter.ts and the    *)
(* reporter they share, vendor/credential-reporter.js: every consumer       *)
(* probes its own credential and reports the verdict; the watcher holds the *)
(* last report of each principal against the inventory of auth.             *)
(*                                                                          *)
(* Time is counted in rounds of the cron both sides run on; a request's     *)
(* timeout is far shorter, so none outlives its round.                      *)
(***************************************************************************)
EXTENDS CredentialMatrix

CONSTANTS
    LIFE,        \* rounds the longest-lived token lives when it is issued
    MaxFaults    \* bound on restarts and failed calls

CredentialAssumption == TTL \in Nat /\ HORIZON \in Nat /\ LIFE \in Nat /\ MaxFaults \in Nat

VARIABLES
    listed,      \* the principals auth lists
    alive,       \* the consumers that run
    target,      \* target[p]: what p's target does: "checks", "refuses" all, or "fails"
    flight,      \* flight[p]: the report p is posting
    reports,     \* reports[p]: the last report received, and its age; its field
                 \* shortened, as in flight and matrix, is history
    principals,  \* the inventory a sweep has fetched, or NONE
    due,         \* this round's sweep has yet to begin
    faults       \* failures so far

consumerVars == <<alive, life, target>>
vars == <<listed, alive, life, target, flight, reports, principals, matrix, due, worked, faults>>

Older(age) == IF age > TTL THEN age ELSE age + 1

Nothing == [p \in Principal |-> NONE]

Init ==
    /\ listed = Principal /\ alive = Principal
    /\ life \in [Principal -> 1..LIFE] /\ target = [p \in Principal |-> "checks"]
    /\ flight = Nothing /\ reports = Nothing /\ principals = NONE /\ matrix = Nothing
    /\ due = TRUE /\ worked = [p \in Principal |-> TTL + 1] /\ faults = 0

Fault == faults < MaxFaults /\ faults' = faults + 1
NoFault == UNCHANGED faults

-----------------------------------------------------------------------------
(* The reporter *)

Accepts(p) == target[p] = "checks" /\ life[p] > 0

\* Mutation: a target that fails does not count against the credential.
failureIsAccepted(p) == IF target[p] = "checks" /\ life[p] = 0 THEN "rejected" ELSE "accepted"

(* 2xx, 401 or 403, and everything else or no answer at all.                *)
probeCredential(p) ==
    IF target[p] = "fails" THEN "indeterminate" ELSE
    IF Accepts(p) THEN "accepted" ELSE "rejected"

(* The token's own exp travels with the verdict, when it has a legible one. *)
Report(p) ==
    /\ p \in alive /\ flight[p] = NONE
    /\ \E exp \in {NONE, life[p]} :
          flight' = [flight EXCEPT ![p] =
                        [verdict |-> probeCredential(p), exp |-> exp, shortened |-> FALSE]]
    /\ worked' = [worked EXCEPT ![p] = IF Accepts(p) THEN 0 ELSE @]
    /\ NoFault /\ UNCHANGED <<listed, consumerVars, reports, principals, matrix, due>>

\* Mutation: an inconclusive probe confirms the verdict before it.
keepsVerdict(p) ==
    [age |-> 0, exp |-> flight[p].exp, shortened |-> flight[p].shortened,
     verdict |-> IF flight[p].verdict = "indeterminate" /\ reports[p] # NONE
                 THEN reports[p].verdict ELSE flight[p].verdict]

stored(p) ==
    [age |-> 0, exp |-> flight[p].exp, verdict |-> flight[p].verdict,
     shortened |-> flight[p].shortened]

(* Last write wins.                                                         *)
recordSelfReport(p) ==
    /\ flight[p] # NONE
    /\ reports' = [reports EXCEPT ![p] = stored(p)]
    /\ flight' = [flight EXCEPT ![p] = NONE]
    /\ NoFault /\ UNCHANGED <<listed, consumerVars, principals, matrix, due, worked>>

(* Refused, timed out or without an ingest token: the reporter never throws *)
(* and does not retry before its next round.                                *)
ReportLost(p) ==
    /\ flight[p] # NONE
    /\ flight' = [flight EXCEPT ![p] = NONE]
    /\ NoFault /\ UNCHANGED <<listed, consumerVars, reports, principals, matrix, due, worked>>

-----------------------------------------------------------------------------
(* The watcher *)

expiringSoon(exp) == exp # NONE /\ exp <= HORIZON

Silent == [status |-> "silent", exp |-> NONE, expiringSoon |-> FALSE, shortened |-> FALSE]

\* Mutation: the age of a report is not looked at.
neverStale(p) ==
    IF reports[p] = NONE THEN Silent
    ELSE [status |-> reports[p].verdict, exp |-> reports[p].exp,
          expiringSoon |-> expiringSoon(reports[p].exp), shortened |-> reports[p].shortened]

(* Expiry annotates a verdict, it never replaces one.                       *)
reconcile(p) ==
    IF reports[p] = NONE THEN Silent
    ELSE [status |-> IF reports[p].age > TTL THEN "stale" ELSE reports[p].verdict,
          exp |-> reports[p].exp, expiringSoon |-> expiringSoon(reports[p].exp),
          shortened |-> reports[p].shortened]

FetchInventory ==
    /\ due /\ principals = NONE
    /\ principals' = listed /\ due' = FALSE
    /\ NoFault /\ UNCHANGED <<listed, consumerVars, flight, reports, matrix, worked>>

(* The watcher's own credential is the one that fails: no row at all.       *)
FetchFails ==
    /\ due /\ Fault
    /\ due' = FALSE /\ matrix' = Nothing
    /\ UNCHANGED <<listed, consumerVars, flight, reports, principals, worked>>

Reconcile ==
    /\ principals # NONE
    /\ matrix' = [p \in Principal |-> IF p \in principals THEN reconcile(p) ELSE NONE]
    /\ principals' = NONE
    /\ NoFault /\ UNCHANGED <<listed, consumerVars, flight, reports, due, worked>>

(* Reports live in the memory of the pod.                                   *)
PodRestarts ==
    /\ Fault
    /\ reports' = Nothing /\ principals' = NONE /\ matrix' = Nothing /\ due' = FALSE
    /\ flight' = Nothing
    /\ UNCHANGED <<listed, consumerVars, worked>>

Sweep == FetchInventory \/ FetchFails \/ Reconcile

-----------------------------------------------------------------------------
(* Consumers, their targets, auth and the clock *)

TargetChanges(p) ==
    /\ target' \in {[target EXCEPT ![p] = t] : t \in {"checks", "refuses", "fails"} \ {target[p]}}
    /\ UNCHANGED <<listed, alive, life, flight, reports, principals, matrix, due, worked, faults>>

\* History: what f says of p's token is of one that lived longer than its successor.
Outlived(f, p) == [f EXCEPT ![p] = IF @ = NONE THEN NONE ELSE [@ EXCEPT !.shortened = TRUE]]

(* Tokens of 30 and of 90 days coexist (lines 26-30): the token that        *)
(* replaces another may have the shorter life.                              *)
TokenRotated(p) ==
    /\ \E l \in 1..LIFE :
        /\ life' = [life EXCEPT ![p] = l]
        /\ IF l < life[p]
           THEN /\ flight' = Outlived(flight, p) /\ reports' = Outlived(reports, p)
                /\ matrix' = Outlived(matrix, p)
           ELSE UNCHANGED <<flight, reports, matrix>>
    /\ UNCHANGED <<listed, alive, target, principals, due, worked, faults>>

ConsumerStops(p) ==
    /\ alive' = IF p \in alive THEN alive \ {p} ELSE alive \cup {p}
    /\ UNCHANGED <<listed, life, target, flight, reports, principals, matrix, due, worked, faults>>

InventoryChanges(p) ==
    /\ listed' = IF p \in listed THEN listed \ {p} ELSE listed \cup {p}
    /\ UNCHANGED <<consumerVars, flight, reports, principals, matrix, due, worked, faults>>

\* Mutation: the days until expiry are counted when the report comes in.
CountedOnReceipt(r) == IF r = NONE THEN NONE ELSE [r EXCEPT !.age = Older(@)]

Aged(r) ==
    IF r = NONE THEN NONE
    ELSE [r EXCEPT !.age = Older(@), !.exp = IF @ = NONE THEN NONE ELSE IF @ = 0 THEN 0 ELSE @ - 1]

Tick ==
    /\ ~due /\ principals = NONE /\ flight = Nothing
    /\ due' = TRUE /\ matrix' = Nothing
    /\ reports' = [p \in Principal |-> Aged(reports[p])]
    /\ life' = [p \in Principal |-> IF life[p] = 0 THEN 0 ELSE life[p] - 1]
    /\ worked' = [p \in Principal |-> Older(worked[p])]
    /\ UNCHANGED <<listed, alive, target, flight, principals, faults>>

Answered == \E p \in Principal : recordSelfReport(p) \/ ReportLost(p)

Next ==
    \/ Sweep \/ PodRestarts \/ Tick \/ Answered
    \/ \E p \in Principal : Report(p) \/ TargetChanges(p) \/ TokenRotated(p)
                            \/ ConsumerStops(p) \/ InventoryChanges(p)

Spec == Init /\ [][Next]_vars

(* The cron fires, its sweep goes on and every request ends.                *)
FairSpec == Spec /\ WF_vars(Tick) /\ WF_vars(Sweep) /\ WF_vars(Answered)

-----------------------------------------------------------------------------
Verdict == {"accepted", "rejected", "indeterminate"}
Expiry == Nat \cup {NONE}

FlightRow == [verdict : Verdict, exp : Expiry, shortened : BOOLEAN]
ReportRow == [age : Nat, exp : Expiry, verdict : Verdict, shortened : BOOLEAN]
MatrixRow == [status : Verdict \cup {"silent", "stale"}, exp : Expiry,
              expiringSoon : BOOLEAN, shortened : BOOLEAN]

(* The type of every variable.                                              *)
CredentialTypes ==
    /\ listed \subseteq Principal /\ alive \subseteq Principal
    /\ life \in [Principal -> Nat]
    /\ target \in [Principal -> {"checks", "refuses", "fails"}]
    /\ flight \in [Principal -> FlightRow \cup {NONE}]
    /\ reports \in [Principal -> ReportRow \cup {NONE}]
    /\ principals = NONE \/ principals \subseteq Principal
    /\ matrix \in [Principal -> MatrixRow \cup {NONE}]
    /\ due \in BOOLEAN /\ worked \in [Principal -> Nat] /\ faults \in 0..MaxFaults

(* The silence of a principal is a finding: once its consumer has stopped,  *)
(* it keeps coming up, and comes up as nothing but silent or stale (lines   *)
(* 114-117).                                                                *)
SilenceShows ==
    \A p \in Principal :
        <>[](p \in listed \ alive) =>
            /\ []<>(matrix[p] # NONE)
            /\ <>[](matrix[p] # NONE => matrix[p].status \in {"silent", "stale"})
=============================================================================
