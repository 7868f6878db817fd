--------------------------- MODULE RepairVerifier ---------------------------
(***************************************************************************)
(* src/repair/repair-verifier.ts: the four checks that decide whether a     *)
(* repair worked.  Nothing in src calls it yet; whoever does supplies the   *)
(* time of the fix, from which this module starts.                          *)
(*                                                                          *)
(* The checks are awaited one after the other while the world goes on.      *)
(* What V1, V2 and V4 are told (TRUE, FALSE, or NONE for no answer) is      *)
(* chosen when they ask.  V3 reads the cluster or the log service, whose    *)
(* state is kept.  Time is counted in minutes of a short window.            *)
(***************************************************************************)
EXTENDS Integers, Absent

CONSTANTS
    WINDOW,        \* VERIFY_WINDOW_MINUTES
    STALE          \* stale_after_hours of the coverage report, in the same unit

ASSUME VerifierAssumption == WINDOW \in Nat \ {0} /\ STALE \in Nat

ASSUME NoAnswerAssumption == NONE \notin BOOLEAN

VARIABLES
    kind,      \* of the surface: "k8s-cronjob", or one that is a service
    ran,       \* the CronJob has succeeded after the fix
    erred,     \* time since the service last failed
    indexed,   \* time since the last of its errors the index knows
    observed,  \* age of the index
    shipping,  \* the service ships its logs
    shipped,   \* time since it last shipped one
    check,     \* the check to make next
    ok,        \* no check has failed
    seenFor,   \* history: time for which it has shipped all its logs
    blind      \* history: a check had no answer, or a bad one

worldVars == <<kind, ran, erred, indexed, observed, shipping, shipped, seenFor>>
verifierVars ==
    <<kind, ran, erred, indexed, observed, shipping, shipped, check, ok, seenFor, blind>>

(* Anything older than a bound is as old as the bound.                      *)
Later(t, bound) == IF t < bound THEN t + 1 ELSE t

VerifierInit ==
    /\ kind \in {"k8s-cronjob", "k8s-deployment"}
    /\ ran = FALSE /\ erred = 0 /\ indexed = 0
    /\ observed \in 0..WINDOW /\ shipping \in BOOLEAN /\ shipped \in 0..(STALE + 1)
    /\ seenFor = 0
    /\ check = "V1" /\ ok = TRUE /\ blind = FALSE

Result(passed, next) ==
    /\ ok' = (ok /\ passed)
    /\ check' = next
    /\ UNCHANGED worldVars

Told(answer) == blind' = (blind \/ answer # TRUE)

\* Mutation: no answer is good news.
passesUnlessRefused(answer) == answer # FALSE

(* "I could not determine" is a failure.                                    *)
passes(answer) == answer = TRUE

CheckRollout(answer) ==
    /\ check = "V1" /\ Told(answer)
    /\ Result(passes(answer), "V2")

CheckHealth(answer) ==
    /\ check = "V2" /\ Told(answer)
    /\ Result(passes(answer), IF kind = "k8s-cronjob" THEN "V3 job" ELSE "V3 coverage")

(* No list, no such job, or no run of it since the fix: no pass.            *)
CheckCronJobSucceeded ==
    /\ check = "V3 job"
    /\ \E found \in {ran, NONE} : Told(found) /\ Result(passes(found), "V4")

(* A failed check ends V3, not the verification.                            *)
CoverageRefuses ==
    /\ check = "V3 coverage" /\ Told(FALSE)
    /\ Result(FALSE, "V4")

CheckCoverage ==
    /\ check = "V3 coverage" /\ shipped <= STALE
    /\ UNCHANGED blind
    /\ Result(TRUE, "V3 errors")

NoErrors == indexed >= WINDOW

\* Mutation: an index that has just started says that errors stopped.
anyIndexWillDo == NoErrors

errorsStopped == observed >= WINDOW /\ NoErrors

CheckErrorsStopped ==
    /\ check = "V3 errors"
    /\ \E found \in {errorsStopped, NONE} : Told(found) /\ Result(passes(found), "V4")

CheckNoCollateral(answer) ==
    /\ check = "V4" /\ Told(answer)
    /\ Result(passes(answer), "done")

-----------------------------------------------------------------------------
(* The world, as the job and the service go on *)

Unverified == UNCHANGED <<kind, check, ok, blind>>

JobSucceeds ==
    /\ kind = "k8s-cronjob" /\ ran' = TRUE
    /\ Unverified /\ UNCHANGED <<erred, indexed, observed, shipping, shipped, seenFor>>

ServiceFails ==
    /\ erred' = 0
    /\ indexed' = IF shipping THEN 0 ELSE indexed
    /\ shipped' = IF shipping THEN 0 ELSE shipped
    /\ Unverified /\ UNCHANGED <<ran, observed, shipping, seenFor>>

ShippingChanges ==
    /\ shipping' = ~shipping /\ seenFor' = 0
    /\ Unverified /\ UNCHANGED <<ran, erred, indexed, observed, shipped>>

IndexRestarts ==
    /\ indexed' = WINDOW /\ observed' = 0
    /\ Unverified /\ UNCHANGED <<ran, erred, shipping, shipped, seenFor>>

MinutePasses ==
    /\ erred' = Later(erred, WINDOW) /\ indexed' = Later(indexed, WINDOW)
    /\ observed' = Later(observed, WINDOW)
    /\ shipped' = IF shipping THEN 0 ELSE Later(shipped, STALE + 1)
    /\ seenFor' = IF shipping THEN Later(seenFor, WINDOW) ELSE 0
    /\ Unverified /\ UNCHANGED <<ran, shipping>>

VerifyStep ==
    \/ \E answer \in BOOLEAN \cup {NONE} :
           CheckRollout(answer) \/ CheckHealth(answer) \/ CheckNoCollateral(answer)
    \/ CheckCronJobSucceeded \/ CheckCoverage \/ CoverageRefuses \/ CheckErrorsStopped

World == JobSucceeds \/ ServiceFails \/ ShippingChanges \/ IndexRestarts \/ MinutePasses

VerifierNext == VerifyStep \/ World

VerifierSpec == VerifierInit /\ [][VerifierNext]_verifierVars

-----------------------------------------------------------------------------
(* The type of every variable.                                              *)
VerifierTypes ==
    /\ kind \in {"k8s-cronjob", "k8s-deployment"}
    /\ ran \in BOOLEAN /\ shipping \in BOOLEAN /\ ok \in BOOLEAN /\ blind \in BOOLEAN
    /\ erred \in 0..WINDOW /\ indexed \in 0..WINDOW /\ observed \in 0..WINDOW
    /\ shipped \in 0..(STALE + 1) /\ seenFor \in 0..WINDOW
    /\ check \in {"V1", "V2", "V3 job", "V3 coverage", "V3 errors", "V4", "done"}

Verified == check = "done" /\ ok

(* "I could not determine" is never success (repair-verifier.ts:10-12).     *)
FailsClosed ==
    Verified => ~blind /\ (kind = "k8s-cronjob" => ran)

V3Passes == CheckErrorsStopped /\ blind' = FALSE

(* When V3 passes for a service that shipped its logs over the whole        *)
(* window, the errors have stopped: neither a young index nor one that      *)
(* restarts between the checks says so (lines 218-224).                     *)
QuietWhenSeen == [][V3Passes /\ seenFor >= WINDOW => erred >= WINDOW]_verifierVars
=============================================================================
