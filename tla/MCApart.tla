------------------------------ MODULE MCApart ------------------------------
(***************************************************************************)
(* Two state spaces of safety, for TLC: the alerts while handlers stay      *)
(* apart, and the error log watcher with its heartbeat under sweeps that    *)
(* outlast a round.  They share no variable (the watcher sees the table     *)
(* through its promise), so in each behaviour one of them moves and the     *)
(* other stands still: their states add up.                                 *)
(***************************************************************************)
EXTENDS MCAlerts

VARIABLES
    logging,    \* the error log watcher is the part that moves
    age, check, open, logged, indexed, observed, outage, dark, active, sweep, due,
    logFaults

Errors == INSTANCE ErrorLogProperties WITH
    Watcher <- {"errors", "other"}, ErrorLog <- "errors", Ingest <- "ingest",
    Signature <- {"signature"}, Poison <- {}, WINDOW <- 2, MIN_OCCURRENCES <- 2,
    SilentAfter <- 0, MaxElapsed <- 1, MaxFaults <- 1, faults <- logFaults

errorVars == <<age, check, open, logged, indexed, observed, outage, dark, active, sweep, due,
               logFaults>>
MCvars == <<vars, logging, errorVars>>

MCInit == Init /\ Errors!Init /\ logging \in BOOLEAN

(* ApartSpec is Init /\ [][Next /\ Apart']_vars.                            *)
Alerting == ~logging /\ Next /\ Apart' /\ UNCHANGED <<logging, errorVars>>

(* Services keep shipping: the ingest alert is for error_log_live.          *)
Watching == logging /\ Errors!Next /\ UNCHANGED <<logging, dark, vars>>

MCSpec == MCInit /\ [][Alerting \/ Watching]_MCvars

-----------------------------------------------------------------------------
(* The types of the error log watcher and the heartbeat.                    *)
ErrorLogTypesOK == Errors!TypeOK

(* No recovery on the strength of an index that forgot                      *)
(* (error-log-watcher.ts:97-108).                                           *)
NoFalseRecovery == Errors!NoFalseRecovery
=============================================================================
