---------------------------- MODULE MCOperations ----------------------------
(***************************************************************************)
(* The repair orchestrator, the repair verifier, the credential watcher,    *)
(* the customer integrations and the daily digest, for TLC.  They share no  *)
(* variable, so in each behaviour one of them moves and the others stand    *)
(* still: their states add up instead of multiplying.                       *)
(***************************************************************************)
EXTENDS Repair, RepairVerifier, CredentialMatrix, IntegrationTables, DigestDays, TLC

CONSTANTS LIFE, MaxKeys, Name, Handler, Ingest, Service

VARIABLES
    part,
    listed, alive, target, flight, reports, principals, sweepDue, sweepFaults,
    used, drawn, request, ingest,
    monitored, health

K == INSTANCE CredentialWatcher WITH due <- sweepDue, faults <- sweepFaults
I == INSTANCE CustomerIntegrations
D == INSTANCE DailyDigest

credentialVars ==
    <<listed, alive, life, target, flight, reports, principals, matrix, sweepDue, worked,
      sweepFaults>>
integrationVars == <<row, used, drawn, request, ingest, stored, acked>>
digestVars == <<monitored, health, today, yesterday, reported, due, run>>

\* One alert that may be repaired, one of the stack itself, one never recorded.
Alerts ==
    [job |-> [alertname |-> "CronJobNotSucceeding", service |-> "cliplot-readiness-monitor"],
     watcher |-> [alertname |-> "WatcherSilent", service |-> "monitoring-microservice"],
     janitor |-> [alertname |-> "CronJobNotSucceeding", service |-> "pod-janitor"]]

ASSUME CredentialAssumption == K!CredentialAssumption
ASSUME IntegrationAssumption == I!IntegrationAssumption
ASSUME DigestAssumption == D!DigestAssumption

MCvars == <<part, vars, verifierVars, credentialVars, integrationVars, digestVars>>

\* Where consumers, targets and the inventory change as well, tokens live a round.
Brief == \A p \in Principal : life[p] <= 1

MCInit ==
    /\ part \in {"repair", "verifier", "credentials", "expiry", "integrations", "digest"}
    /\ Init /\ VerifierInit /\ K!Init /\ I!Init /\ D!Init
    /\ part # "expiry" => Brief
    /\ part # "verifier" => kind = "k8s-cronjob" /\ shipping /\ observed = 0 /\ shipped = 0

Repairs(A) ==
    /\ part = "repair" /\ A
    /\ UNCHANGED <<part, verifierVars, credentialVars, integrationVars, digestVars>>
Verifies(A) ==
    /\ part = "verifier" /\ A
    /\ UNCHANGED <<part, vars, credentialVars, integrationVars, digestVars>>
Credentials(A) ==
    /\ part = "credentials" /\ A /\ Brief'
    /\ UNCHANGED <<part, vars, verifierVars, integrationVars, digestVars>>
\* Tokens of up to LIFE rounds, for consumers and targets that stay as they are.
Expires(A) ==
    /\ part = "expiry" /\ A /\ UNCHANGED <<listed, alive, target>>
    /\ UNCHANGED <<part, vars, verifierVars, integrationVars, digestVars>>
Integrates(A) ==
    /\ part = "integrations" /\ A
    /\ UNCHANGED <<part, vars, verifierVars, credentialVars, digestVars>>
Digests(A) ==
    /\ part = "digest" /\ A
    /\ UNCHANGED <<part, vars, verifierVars, credentialVars, integrationVars>>

MCNext ==
    \/ Repairs(Next) \/ Verifies(VerifierNext) \/ Credentials(K!Next)
    \/ Expires(K!Next) \/ Integrates(I!Next) \/ Digests(D!Next)

MCSpec == MCInit /\ [][MCNext]_MCvars

(* What CredentialWatcher's own FairSpec assumes, and of Repair's that some *)
(* sweep goes on.                                                           *)
MCFairSpec ==
    /\ MCSpec
    /\ WF_MCvars(Repairs(\E w \in Worker : Step(w)) \/ Credentials(K!Tick))
    /\ WF_MCvars(Credentials(K!Sweep))
    /\ WF_MCvars(Credentials(K!Answered))

-----------------------------------------------------------------------------
(* The types of every part.                                                 *)
TypesOK ==
    /\ RepairTypes /\ VerifierTypes /\ K!CredentialTypes
    /\ I!IntegrationTypes /\ D!DigestTypes

(* The orchestrator is at work (repair.service.ts:70-85).                   *)
AlertsDecided == part = "repair" => EveryAlertDecided

(* A principal that falls silent shows (credential-watcher.ts:114-117).     *)
SilenceShows == part = "credentials" => K!SilenceShows
=============================================================================
