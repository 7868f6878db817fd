-------------------------- MODULE AlertProperties --------------------------
(***************************************************************************)
(* What must be true of the alert lifecycle.                                *)
(***************************************************************************)
EXTENDS AlertLifecycle

(* What the locals of a handler hold while it is at a step that uses them.  *)
LocalsOK(t) ==
    /\ t.step \in {"saveFired", "notify", "saveExpired", "markNotified", "saveAdmin"}
          => t.entity # NULL
    /\ t.step \in {"notify", "markNotified"} => t.entity.id # NULL
    /\ t.step = "findPending" => t.problem # NULL
    /\ \A row \in t.batch : row.id # NULL

(* The type of every variable; a row carries its own primary key.           *)
TypeOK ==
    /\ alerts \in [AlertId -> Row \cup {NULL}]
    /\ \A i \in AlertId : alerts[i] # NULL => alerts[i].id = i
    /\ task \in [Worker -> Task]
    /\ \A p \in Worker : LocalsOK(task[p])
    /\ now \in Time
    /\ chat \in [AlertId -> [said : Said, at : Time]]
    /\ faults \in Nat /\ requests \in Nat

(* However fires, resolves, sweeps and operators interleave, one problem    *)
(* has at most one open alert (alerts.service.ts:46-50).                    *)
OneActivePerFingerprint ==
    \A i, j \in AlertId :
        /\ alerts[i] # NULL /\ alerts[i].status = "active"
        /\ alerts[j] # NULL /\ alerts[j].status = "active"
        /\ alerts[i].fingerprint # NULL
        /\ alerts[i].fingerprint = alerts[j].fingerprint
        => i = j

(* An open alert owes no recovery, a resolved one is dated (LatestResolved  *)
(* orders by that date), a debt is no younger than the close, and no stamp  *)
(* lies in the future, where it would postpone a repeat or a recovery.      *)
WellFormed(row, t) ==
    /\ row.status = "active" => row.pendingResolveSince = NULL /\ row.resolvedAt = NULL
    /\ row.status = "resolved" => row.resolvedAt # NULL
    /\ row.pendingResolveSince # NULL =>
          row.resolvedAt # NULL /\ row.pendingResolveSince <= row.resolvedAt
    /\ row.resolvedAt # NULL => row.resolvedAt <= t
    /\ row.lastNotifiedAt # NULL => row.lastNotifiedAt <= t
    /\ row.lastFiredAt <= t

(* A handler captured its time in the past and holds well formed entities.  *)
CarriesWellFormed(local, t) ==
    /\ local.at <= t
    /\ local.entity # NULL => WellFormed(local.entity, t)
    /\ \A row \in local.batch : WellFormed(row, t)

(* Stale entities are written back whole (repo.save), so the table stays    *)
(* well formed only if every entity a worker holds is well formed too.      *)
RowsWellFormed ==
    /\ \A i \in AlertId : alerts[i] # NULL => WellFormed(alerts[i], now)
    /\ \A p \in Worker : CarriesWellFormed(task[p], now)

-----------------------------------------------------------------------------
Promise == INSTANCE AlertPromise WITH
    status <- [i \in AlertId |-> IF alerts[i] = NULL THEN "none" ELSE alerts[i].status],
    about <- [i \in AlertId |-> IF alerts[i] = NULL THEN NULL ELSE alerts[i].fingerprint],
    owes <- [i \in AlertId |-> IF alerts[i] = NULL THEN FALSE
                               ELSE alerts[i].pendingResolveSince # NULL],
    told <- [i \in AlertId |-> chat[i].said]

(* The rows that a handler holds a copy of, to save or to tell of.  Stale    *)
(* expiry remembers no more of its batch than the fingerprints.             *)
Held(t) ==
    LET copies == {t.entity} \cup IF t.step \in {"expire", "saveExpired"} THEN {} ELSE t.batch
    IN  {row.id : row \in copies \ {NULL}} \ {NULL}

Sweeping(t) == t.step \in {"announce", "markNotified"}

(* No two handlers in flight hold the same row, and none is out to announce *)
(* a recovery while a fire of that problem, which captured its time before  *)
(* the recovery was due, looks for a row to reopen.  Nothing in the code    *)
(* sees to it (alerts.service.ts:57, alert-sweeper.ts:45): it is what the   *)
(* properties up to OpenAlertsKnown are conditional on.                     *)
Apart ==
    \A p, q \in Worker : p # q =>
        /\ Held(task[p]) \cap Held(task[q]) = {}
        /\ Sweeping(task[p]) /\ task[q].step = "findPending" =>
              \A row \in task[p].batch :
                  row.fingerprint = task[q].problem.fingerprint => isResolveDue(row, task[q].at)

(* The behaviours in which handlers stay apart.                             *)
ApartSpec == Init /\ [][Next /\ Apart']_vars

(* Handlers that stay apart implement AlertPromise, through crashes, failed *)
(* queries, failed or timed-out sends and whatever the operator does.       *)
KeepsPromise == Promise!Spec

(* Nothing has failed and no operator has stepped in.                       *)
Untroubled == faults = 0 /\ requests = 0

(* A recovery retracts a report: as long as nothing failed and handlers     *)
(* stayed apart, AlertSweeper sends it only about an alert the chat was     *)
(* told is down, and has not been told is up again.                         *)
RecoveryRetractsReport ==
    [][\A p \in Worker : \A alert \in task[p].batch :
          Untroubled /\ Announce(p, alert) => chat[alert.id].said = "down"]_vars

(* The schedule's gap before the Nth report: its last entry from there on.  *)
ScheduledGap(n) ==
    REPEAT_BACKOFF[IF n <= Len(REPEAT_BACKOFF) THEN n - 1 ELSE Len(REPEAT_BACKOFF)]

(* A repeat follows the last message by the gap that its occurrence calls   *)
(* for, less the time that a handler may take, through failures and flap    *)
(* reopens, if handlers stay apart (alert-policy.ts:24-38).                 *)
RepeatsSpaced ==
    [][\A p \in Worker :
          LET row == task[p].entity IN
          Notify(p) /\ chat[row.id].said = "down"
          => now - chat[row.id].at >= ScheduledGap(row.occurrenceCount) - MaxOpTicks]_vars

(* alerts.service.ts:84-87 says of a flap reopen: "the original [report]    *)
(* still stands unretracted and the channel is already correct".  So once   *)
(* no handler is in flight an open alert is one that the chat was told is   *)
(* down, as long as nothing failed: if handlers stay apart.                 *)
OpenAlertsKnown ==
    Untroubled /\ (\A p \in Worker : task[p].step = "idle") =>
        \A i \in AlertId :
            alerts[i] # NULL /\ alerts[i].status = "active" => chat[i].said = "down"

-----------------------------------------------------------------------------
Owing(i, t) ==
    /\ alerts[i] # NULL
    /\ alerts[i].status = "resolved"
    /\ alerts[i].pendingResolveSince = t

(* Every recovery owed is announced, or the alert reopened, once its window *)
(* has passed, whatever fails meanwhile (alert-sweeper.ts:62-64).           *)
DebtsPaid ==
    \A i \in AlertId : \A t \in 0..(MaxTime - FLAP_WINDOW) : Owing(i, t) ~> ~Owing(i, t)

(* Open, and the chat does not say so: the report was not delivered, or was *)
(* retracted by a recovery.  Neither lastNotifiedAt nor a reopen helps.     *)
Unreported(i) ==
    /\ alerts[i] # NULL
    /\ alerts[i].status = "active"
    /\ chat[i].said # "down"

(* A report that was lost is made up for by a repeat: an alert that stays   *)
(* open and keeps being fired is reported after one more gap of the         *)
(* schedule, and one more for each failure to come, since fire dates a      *)
(* message before it is sent, delivered or not (alerts.service.ts:78, 123). *)
OpeningsMadeUp ==
    LET gap == ScheduledGap(Len(REPEAT_BACKOFF) + 1) IN
    \A i \in AlertId :
        Unreported(i) /\ now <= MaxTime - (MaxFaults - faults + 1) * gap ~> ~Unreported(i)

-----------------------------------------------------------------------------
(* alerts.service.ts:175-177: "a flap reopen clears it and the sweeper      *)
(* clears it on delivery, so an alert can never announce its recovery       *)
(* twice".                                                                  *)
RecoveryAnnouncedOnce ==
    [][\A p \in Worker : \A alert \in task[p].batch :
          Announce(p, alert) => chat[alert.id].said # "up"]_vars

(* alert-sweeper.ts:16-17: "If the alert re-fires first, AlertsService      *)
(* .fire() reopens the row and clears the debt, so the cycle produces no    *)
(* message at all": no recovery is sent while the problem has an open       *)
(* alert again.                                                             *)
NoRecoveryWhileActive ==
    [][\A p \in Worker : \A alert \in task[p].batch :
          Announce(p, alert) /\ alert.fingerprint # NULL
          => ActiveFor(alert.fingerprint) = {}]_vars
=============================================================================
