------------------------------ MODULE MCAlerts ------------------------------
(* Instances of the alert lifecycle for TLC.                                *)
EXTENDS AlertProperties, TLC

CONSTANTS f1, s1

\* One watcher problem, with its fingerprint.
WatcherProblem == {[fingerprint |-> f1, service |-> s1]}

\* 15, 30, 60, ... minutes, reduced to two escalating steps.
Backoff12 == <<1, 2>>

\* Sound only where every worker has every role, and for invariants.
WorkerSymmetry == Permutations(Worker)
=============================================================================
