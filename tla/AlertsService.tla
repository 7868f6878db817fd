--------------------------- MODULE AlertsService ---------------------------
(***************************************************************************)
(* The alerts table and the methods of src/alerts/alerts.service.ts.        *)
(*                                                                          *)
(* Every method is cut at its awaits: one action reads the database and     *)
(* computes the entity in memory, a later one saves it.  Between the two    *)
(* any other worker may run, so the saved entity may be stale.  TypeORM's   *)
(* save writes the whole entity, hence the last writer wins, except that    *)
(* the partial unique index uq_alerts_active_fingerprint refuses a second   *)
(* active row of one fingerprint.                                           *)
(*                                                                          *)
(* The actions here constrain alerts and task; AlertLifecycle says what     *)
(* happens to the rest of the state.                                        *)
(***************************************************************************)
EXTENDS AlertPolicy

CONSTANTS
    AlertId,         \* primary keys; bounds the rows the table can hold
    Fingerprint,     \* dedup identities
    Service,         \* names in the service column
    Problems,        \* the dtos that sources fire: what is wrong with whom
    Worker,          \* runs of a handler, cron job or request
    STALE_ALERT,     \* ticks without a re-fire before an alert expires
    MaxOccurrence    \* occurrenceCount saturates here, see NextOccurrence

Problem == [fingerprint : Fingerprint \cup {NULL}, service : Service]

ASSUME ServiceAssumption ==
    /\ Problems \subseteq Problem
    /\ STALE_ALERT \in Nat
    /\ MaxOccurrence \in Nat /\ MaxOccurrence > Len(REPEAT_BACKOFF)
    /\ NULL \notin AlertId \cup Fingerprint \cup Service

Status == {"active", "acknowledged", "resolved"}

(* The columns of alerts.entity.ts that decide anything.  message,         *)
(* severity, labels, flapCount and acknowledgedBy are only displayed.       *)
Row == [ id                  : AlertId \cup {NULL},   \* NULL until inserted
         fingerprint         : Fingerprint \cup {NULL},
         service             : Service,
         status              : Status,
         occurrenceCount     : 1..MaxOccurrence,
         lastFiredAt         : Time,
         resolvedAt          : Time \cup {NULL},
         pendingResolveSince : Time \cup {NULL},
         lastNotifiedAt      : Time \cup {NULL} ]

ASSUME NullAssumption == NULL \notin Row \cup Problem

Steps == {"idle", "findPending", "saveFired", "notify", "saveClosed",
          "expire", "saveExpired", "announce", "markNotified", "saveAdmin"}

(* A worker's local variables: where it is, the time it captured, the dto   *)
(* it was called with, the entities it still has to handle, the one it is   *)
(* handling and whether the caller will be told to send.                    *)
Task == [ step    : Steps,
          at      : Time,
          problem : Problem \cup {NULL},
          batch   : SUBSET Row,
          entity  : Row \cup {NULL},
          notify  : BOOLEAN ]

VARIABLES
    alerts,   \* the table: alerts[i] is a row, or NULL before its insert
    task,     \* task[p] is what worker p is in the middle of
    now       \* the clock, shared by the pods and the database

Idle == [step |-> "idle", at |-> 0, problem |-> NULL, batch |-> {},
         entity |-> NULL, notify |-> FALSE]

-----------------------------------------------------------------------------
(* Queries *)

ActiveFor(fingerprint) ==
    {i \in AlertId : /\ alerts[i] # NULL
                     /\ alerts[i].status = "active"
                     /\ alerts[i].fingerprint = fingerprint}

ResolvedFor(fingerprint) ==
    {i \in AlertId : /\ alerts[i] # NULL
                     /\ alerts[i].status = "resolved"
                     /\ alerts[i].fingerprint = fingerprint}

(* ORDER BY resolvedAt DESC LIMIT 1: ties are broken by the database.       *)
LatestResolved(fingerprint) ==
    {i \in ResolvedFor(fingerprint) :
        \A j \in ResolvedFor(fingerprint) :
            alerts[j].resolvedAt <= alerts[i].resolvedAt}

findDueResolves(t) ==
    {alerts[i] : i \in {j \in AlertId : /\ alerts[j] # NULL
                                        /\ alerts[j].status = "resolved"
                                        /\ isResolveDue(alerts[j], t)}}

findStale ==
    {alerts[i] : i \in {j \in AlertId : /\ alerts[j] # NULL
                                        /\ alerts[j].status = "active"
                                        /\ alerts[j].fingerprint # NULL
                                        /\ now - alerts[j].lastFiredAt > STALE_ALERT}}

-----------------------------------------------------------------------------
(* Saving *)

\* Mutation: the migration that creates the partial unique index never ran.
NoUniqueIndex(entity) == FALSE

ViolatesUniqueIndex(entity) ==
    /\ entity.status = "active"
    /\ entity.fingerprint # NULL
    /\ ActiveFor(entity.fingerprint) \ {entity.id} # {}

(* An entity without an id is inserted under a fresh one.                   *)
HasRoom(entity) == entity.id # NULL \/ \E i \in AlertId : alerts[i] = NULL

SavedId(entity) ==
    IF entity.id # NULL THEN entity.id
    ELSE CHOOSE i \in AlertId : alerts[i] = NULL

Save(entity) ==
    /\ ~ViolatesUniqueIndex(entity)
    /\ HasRoom(entity)
    /\ alerts' = [alerts EXCEPT ![SavedId(entity)] =
                      [entity EXCEPT !.id = SavedId(entity)]]

-----------------------------------------------------------------------------
(* fire *)

(* The policy distinguishes occurrence counts only up to the end of the     *)
(* backoff schedule, so counting stops at MaxOccurrence beyond it.          *)
NextOccurrence(n) == IF n < MaxOccurrence THEN n + 1 ELSE n

Refreshed(row, t) ==
    LET counted == [row EXCEPT !.occurrenceCount = NextOccurrence(@),
                               !.lastFiredAt = t]
    IN  [counted EXCEPT !.lastNotifiedAt =
            IF shouldNotifyRepeat(counted, t) THEN t ELSE @]

\* Mutation: the reopened row keeps the recovery it owed.
ReopenedStillOwing(row, t) ==
    [row EXCEPT !.status = "active", !.resolvedAt = NULL, !.lastFiredAt = t,
                !.occurrenceCount = NextOccurrence(@)]

Reopened(row, t) ==
    [row EXCEPT !.status = "active",
                !.resolvedAt = NULL,
                !.pendingResolveSince = NULL,
                !.occurrenceCount = NextOccurrence(@),
                !.lastFiredAt = t]

\* Mutation: occurrences are counted from zero.
NewAlertCountedFromZero(problem, t) ==
    [id |-> NULL, fingerprint |-> problem.fingerprint,
     service |-> problem.service, status |-> "active",
     occurrenceCount |-> 0, lastFiredAt |-> t, resolvedAt |-> NULL,
     pendingResolveSince |-> NULL, lastNotifiedAt |-> t]

NewAlert(problem, t) ==
    [id |-> NULL, fingerprint |-> problem.fingerprint,
     service |-> problem.service, status |-> "active",
     occurrenceCount |-> 1, lastFiredAt |-> t, resolvedAt |-> NULL,
     pendingResolveSince |-> NULL, lastNotifiedAt |-> t]

ToSave(t, entity, notify) ==
    [Idle EXCEPT !.step = "saveFired", !.at = t, !.entity = entity, !.notify = notify]

(* Lines 55-73: no lookup without a fingerprint, else find the active row.  *)
fire(p, problem) ==
    /\ task[p].step = "idle"
    /\ \/ /\ problem.fingerprint = NULL
          /\ task' = [task EXCEPT ![p] =
                         ToSave(now, NewAlert(problem, now), TRUE)]
       \/ /\ problem.fingerprint # NULL
          /\ \E i \in ActiveFor(problem.fingerprint) :
                LET counted == [alerts[i] EXCEPT !.occurrenceCount = NextOccurrence(@)]
                IN  task' = [task EXCEPT ![p] =
                                ToSave(now, Refreshed(alerts[i], now),
                                       shouldNotifyRepeat(counted, now))]
       \/ /\ problem.fingerprint # NULL
          /\ ActiveFor(problem.fingerprint) = {}
          /\ task' = [task EXCEPT ![p] = [Idle EXCEPT !.step = "findPending",
                                                      !.at = now,
                                                      !.problem = problem]]
    /\ UNCHANGED alerts

\* Mutation: a row is reopened silently even after its recovery was announced.
fireReopensAlways(p) ==
    LET problem == task[p].problem
        pending == LatestResolved(problem.fingerprint)
        t == task[p].at
    IN  /\ task[p].step = "findPending"
        /\ \/ \E i \in pending :
                 task' = [task EXCEPT ![p] = ToSave(t, Reopened(alerts[i], t), FALSE)]
           \/ /\ pending = {}
              /\ task' = [task EXCEPT ![p] = ToSave(t, NewAlert(problem, t), TRUE)]
        /\ UNCHANGED alerts

(* Lines 88-124: reopen the latest resolved row inside its window, else     *)
(* prepare a new one.                                                       *)
fireFindPending(p) ==
    LET problem == task[p].problem
        pending == LatestResolved(problem.fingerprint)
        t == task[p].at
    IN  /\ task[p].step = "findPending"
        /\ \/ \E i \in pending :
                 /\ isFlapReopen(alerts[i], t)
                 /\ task' = [task EXCEPT ![p] =
                                ToSave(t, Reopened(alerts[i], t), FALSE)]
           \/ /\ \/ pending = {}
                 \/ \E i \in pending : ~isFlapReopen(alerts[i], t)
              /\ task' = [task EXCEPT ![p] =
                             ToSave(t, NewAlert(problem, t), TRUE)]
        /\ UNCHANGED alerts

(* The save of all three branches; the caller then sends, or returns.       *)
fireSave(p) ==
    LET entity == task[p].entity IN
    /\ task[p].step = "saveFired"
    /\ Save(entity)
    /\ task' = [task EXCEPT ![p] =
                   IF task[p].notify
                     THEN [task[p] EXCEPT !.step = "notify",
                                          !.entity = [entity EXCEPT !.id = SavedId(entity)]]
                     ELSE Idle]

(* The unique index refuses the row (or AlertId, a bound of the model, is   *)
(* used up): save throws, and with it fire.                                 *)
fireConflict(p) ==
    /\ task[p].step = "saveFired"
    /\ ViolatesUniqueIndex(task[p].entity) \/ ~HasRoom(task[p].entity)
    /\ task' = [task EXCEPT ![p] = Idle]
    /\ UNCHANGED alerts

(* create: fire without a fingerprint whose notify result is dropped.       *)
create(p, service) ==
    /\ task[p].step = "idle"
    /\ LET problem == [fingerprint |-> NULL, service |-> service]
       IN  task' = [task EXCEPT ![p] =
                       ToSave(now, NewAlert(problem, now), FALSE)]
    /\ UNCHANGED alerts

-----------------------------------------------------------------------------
(* resolve *)

Closed(row, t, silent) ==
    [row EXCEPT !.status = "resolved",
                !.resolvedAt = t,
                !.pendingResolveSince = IF silent THEN NULL ELSE t]

(* Finding nothing active is a 'noop' that changes nothing.                 *)
resolveByFingerprint(p, fingerprint) ==
    /\ task[p].step = "idle"
    /\ \/ \E i \in ActiveFor(fingerprint) :
             task' = [task EXCEPT ![p] =
                         [Idle EXCEPT !.step = "saveClosed", !.at = now,
                                      !.batch = {Closed(alerts[i], now, FALSE)}]]
       \/ ActiveFor(fingerprint) = {} /\ UNCHANGED task
    /\ UNCHANGED alerts

resolveByService(p, service) ==
    LET active == {i \in AlertId : /\ alerts[i] # NULL
                                   /\ alerts[i].status = "active"
                                   /\ alerts[i].service = service}
    IN  /\ task[p].step = "idle"
        /\ active # {}
        /\ task' = [task EXCEPT ![p] =
                       [Idle EXCEPT !.step = "saveClosed", !.at = now,
                                    !.batch = {Closed(alerts[i], now, FALSE) : i \in active}]]
        /\ UNCHANGED alerts

(* One iteration of the saves, in the order the database returned the rows. *)
saveClosed(p) ==
    \E entity \in task[p].batch :
        /\ task[p].step = "saveClosed"
        /\ Save(entity)
        /\ task' = [task EXCEPT ![p] =
                       IF task[p].batch = {entity} THEN Idle
                       ELSE [task[p] EXCEPT !.batch = @ \ {entity}]]

-----------------------------------------------------------------------------
(* Delivery bookkeeping and the operator's endpoints *)

\* Mutation: the delivery mark is never written.
forgetResolveNotified(id, t) == UNCHANGED alerts

(* repo.update: an UPDATE of two columns, whatever the row's status is now. *)
markResolveNotified(id, t) ==
    alerts' = [i \in AlertId |->
                  IF i = id /\ alerts[i] # NULL
                    THEN [alerts[i] EXCEPT !.pendingResolveSince = NULL,
                                           !.lastNotifiedAt = t]
                    ELSE alerts[i]]

acknowledge(p, id) ==
    /\ task[p].step = "idle"
    /\ alerts[id] # NULL
    /\ task' = [task EXCEPT ![p] =
                   [Idle EXCEPT !.step = "saveAdmin", !.at = now,
                                !.entity = [alerts[id] EXCEPT !.status = "acknowledged"]]]
    /\ UNCHANGED alerts

resolve(p, id) ==
    /\ task[p].step = "idle"
    /\ alerts[id] # NULL
    /\ task' = [task EXCEPT ![p] =
                   [Idle EXCEPT !.step = "saveAdmin", !.at = now,
                                !.entity = [alerts[id] EXCEPT !.status = "resolved",
                                                              !.resolvedAt = now]]]
    /\ UNCHANGED alerts

saveAdmin(p) ==
    /\ task[p].step = "saveAdmin"
    /\ Save(task[p].entity)
    /\ task' = [task EXCEPT ![p] = Idle]
=============================================================================
