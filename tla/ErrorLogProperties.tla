------------------------- MODULE ErrorLogProperties -------------------------
(***************************************************************************)
(* What must be true of the error log watcher and the heartbeat.            *)
(***************************************************************************)
EXTENDS ErrorLogWatcher

Sweep == [step : SweepSteps, elapsed : 0..1, left : SUBSET Signature,
          seen : SUBSET Signature, trustResolution : BOOLEAN,
          failing : SUBSET Signature]

(* The type of every variable.                                              *)
TypeOK ==
    /\ age \in [Watcher -> 0..(SilentAfter + 1)]
    /\ check \in [left : SUBSET Watcher, silent : SUBSET Watcher]
    /\ open \subseteq Signature \cup Watcher \cup {Ingest}
    /\ logged \in [Signature -> SUBSET Ages]
    /\ indexed \in [Signature -> SUBSET Ages]
    /\ observed \in 0..(WINDOW + 1)
    /\ outage \in BOOLEAN /\ dark \in BOOLEAN
    /\ active \subseteq Signature
    /\ sweep \in Sweep
    /\ due \subseteq Crons
    /\ faults \in 0..MaxFaults

(* No recovery on the strength of an index that forgot: an alert is closed  *)
(* only if its errors had really stopped, over the whole window, when the   *)
(* summary was fetched (error-log-watcher.ts:97-108).                       *)
NoFalseRecovery ==
    [][\A s \in Signature : s \in open /\ s \notin open' => s \notin sweep.failing]_vars

Quiet(s) == logged[s] = {}

KeepsFailing(s) == <>[][Fetch => s \in Worth(logged)]_vars

(* A signature that is failing at every sweep gets its alert and keeps it,  *)
(* whatever restarts or fails a bounded number of times, and although other *)
(* groups can never be processed (error-log-watcher.ts:148-149).            *)
FailingReported ==
    \A s \in Signature \ Poison :
        KeepsFailing(s) /\ <>[]~outage => <>[](s \in open)

(* The alert of a signature that went quiet is closed, although a restart   *)
(* emptied the in-memory set (error-log-watcher.ts:157-159).                *)
RecoveryFound ==
    \A s \in Signature : <>[](Quiet(s) /\ ~outage) => <>[](s \notin open)

(* A watcher that fails every cycle ages into its own alert, although it    *)
(* keeps running (heartbeat.service.ts:85-88).                              *)
SilenceReported == <>[]outage => <>[](ErrorLog \in open)

(* A watcher that works again loses its alert.                              *)
SilenceCleared == <>[]~outage => <>[](ErrorLog \notin open)

(* Services that stay dark are reported, once, and recover                  *)
(* (error-log-watcher.ts:208-212).                                          *)
IngestGapReported ==
    /\ <>[](dark /\ ~outage) => <>[](Ingest \in open)
    /\ <>[](~dark /\ ~outage) => <>[](Ingest \notin open)
=============================================================================
