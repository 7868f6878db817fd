------------------------ MODULE AlertLifecycleProofs ------------------------
(***************************************************************************)
(* Proofs about the alert lifecycle, for any number of workers, alerts,     *)
(* fingerprints and problems, and any policy constants: its types, then its *)
(* safety invariants.  The arguments for the latter start from TableStep:   *)
(* only a save and a delivery mark write the table.                         *)
(***************************************************************************)
EXTENDS AlertProperties, TLAPS

(* NULL is neither a row nor a problem. *)
USE NullAssumption DEF Time

-----------------------------------------------------------------------------
(* Rows *)

(* Counting an occurrence saturates at the bound. *)
LEMMA NextOccurrenceType ==
    ASSUME NEW n \in 1..MaxOccurrence
    PROVE  NextOccurrence(n) \in 1..MaxOccurrence
  BY ServiceAssumption DEF NextOccurrence

(* The row computed by the repeat branch of fire is a row. *)
LEMMA RefreshedType ==
    ASSUME NEW row \in Row, NEW t \in Nat
    PROVE  /\ Refreshed(row, t) \in Row
           /\ Refreshed(row, t).id = row.id
<1> DEFINE counted == [row EXCEPT !.occurrenceCount = NextOccurrence(@), !.lastFiredAt = t]
<1>1. counted \in Row /\ counted.id = row.id
  BY NextOccurrenceType DEF Row
<1>2. \A n \in {t, counted.lastNotifiedAt} :
        /\ [counted EXCEPT !.lastNotifiedAt = n] \in Row
        /\ [counted EXCEPT !.lastNotifiedAt = n].id = row.id
  <2> HIDE DEF counted
  <2> QED BY <1>1 DEF Row
<1>3. \E n \in {t, counted.lastNotifiedAt} :
         Refreshed(row, t) = [counted EXCEPT !.lastNotifiedAt = n]
  BY DEF Refreshed
<1> HIDE DEF counted
<1>4. QED
  BY <1>2, <1>3

(* The row computed by the flap reopen of fire is a row. *)
LEMMA ReopenedType ==
    ASSUME NEW row \in Row, NEW t \in Nat
    PROVE  /\ Reopened(row, t) \in Row
           /\ Reopened(row, t).id = row.id
  BY NextOccurrenceType DEF Row, Reopened, Status

(* The row inserted by fire is a row, not yet in the table. *)
LEMMA NewAlertType ==
    ASSUME NEW problem \in Problem, NEW t \in Nat
    PROVE  /\ NewAlert(problem, t) \in Row
           /\ NewAlert(problem, t).id = NULL
  BY ServiceAssumption DEF Row, NewAlert, Problem, Status

(* Closing a row, silently or not, gives a row. *)
LEMMA ClosedType ==
    ASSUME NEW row \in Row, NEW t \in Nat, NEW silent \in BOOLEAN
    PROVE  /\ Closed(row, t, silent) \in Row
           /\ Closed(row, t, silent).id = row.id
  BY DEF Row, Closed, Status

(* So does either of the operator's endpoints. *)
LEMMA OperatedType ==
    ASSUME NEW row \in Row, NEW t \in Nat
    PROVE  /\ [row EXCEPT !.status = "acknowledged"] \in Row
           /\ [row EXCEPT !.status = "resolved", !.resolvedAt = t] \in Row
  BY DEF Row, Status

(* Recording that a recovery was delivered gives a row. *)
LEMMA MarkedType ==
    ASSUME NEW row \in Row, NEW t \in Nat
    PROVE  /\ [row EXCEPT !.pendingResolveSince = NULL, !.lastNotifiedAt = t] \in Row
           /\ [row EXCEPT !.pendingResolveSince = NULL, !.lastNotifiedAt = t].id = row.id
  BY DEF Row

-----------------------------------------------------------------------------
(* Tasks *)

(* The idle task is a task with nothing in its locals. *)
LEMMA IdleType == Idle \in Task /\ LocalsOK(Idle)
  BY DEF Idle, Task, Steps, LocalsOK

(* Giving one worker a well-typed task keeps the tasks well typed. *)
LEMMA TaskUpdate ==
    ASSUME TypeOK, NEW p \in Worker, NEW t \in Task, LocalsOK(t),
           task' = [task EXCEPT ![p] = t]
    PROVE  task' \in [Worker -> Task] /\ \A q \in Worker : LocalsOK(task'[q])
  BY DEF TypeOK

(* A row that fire hands to its save is a well-typed task. *)
LEMMA ToSaveType ==
    ASSUME NEW row \in Row, NEW t \in Nat, NEW notify \in BOOLEAN
    PROVE  ToSave(t, row, notify) \in Task /\ LocalsOK(ToSave(t, row, notify))
  BY DEF ToSave, Idle, Task, Steps, LocalsOK

(* Going on with a loop over a batch keeps the tasks well typed. *)
LEMMA NextInType ==
    ASSUME TypeOK, NEW p \in Worker, NEW step \in {"expire", "announce"},
           NEW rest \in SUBSET task[p].batch, NextIn(p, step, rest)
    PROVE  task' \in [Worker -> Task] /\ \A q \in Worker : LocalsOK(task'[q])
<1> DEFINE t == [Idle EXCEPT !.step = step, !.at = task[p].at, !.batch = rest]
<1>1. t \in Task /\ LocalsOK(t)
  BY DEF TypeOK, Task, Idle, Steps, LocalsOK
<1>2. task' = [task EXCEPT ![p] = Idle] \/ task' = [task EXCEPT ![p] = t]
  BY DEF NextIn
<1>3. QED
  BY <1>1, <1>2, IdleType DEF TypeOK

(* Saving a row keeps the table well typed, under an id of the table. *)
LEMMA SaveType ==
    ASSUME TypeOK, NEW entity \in Row, Save(entity)
    PROVE  /\ SavedId(entity) \in AlertId
           /\ alerts' = [alerts EXCEPT ![SavedId(entity)] =
                            [entity EXCEPT !.id = SavedId(entity)]]
           /\ [entity EXCEPT !.id = SavedId(entity)] \in Row
           /\ alerts' \in [AlertId -> Row \cup {NULL}]
           /\ \A i \in AlertId : alerts'[i] # NULL => alerts'[i].id = i
<1>1. SavedId(entity) \in AlertId
  BY DEF Save, HasRoom, SavedId, Row
<1>2. [entity EXCEPT !.id = SavedId(entity)] \in Row
  BY <1>1 DEF Row
<1>3. QED
  BY <1>1, <1>2 DEF Save, TypeOK, Row

-----------------------------------------------------------------------------
(* Type correctness, one lemma per group of actions. *)

TasksOK == task \in [Worker -> Task] /\ \A p \in Worker : LocalsOK(task[p])

AlertsOK ==
    /\ alerts \in [AlertId -> Row \cup {NULL}]
    /\ \A i \in AlertId : alerts[i] # NULL => alerts[i].id = i

(* Firing keeps the table and the tasks well typed. *)
LEMMA FireType ==
    ASSUME TypeOK, NEW p \in Worker,
           \/ \E problem \in Problems : fire(p, problem)
           \/ fireFindPending(p) \/ fireSave(p) \/ fireConflict(p)
           \/ \E s \in Service : create(p, s)
    PROVE  AlertsOK' /\ TasksOK'
<1>1. ASSUME NEW problem \in Problems, fire(p, problem) PROVE AlertsOK' /\ TasksOK'
  <2>1. AlertsOK'
    BY <1>1 DEF fire, TypeOK, AlertsOK
  <2>2. problem \in Problem /\ now \in Nat
    BY ServiceAssumption DEF TypeOK
  <2>3. CASE /\ problem.fingerprint = NULL
             /\ task' = [task EXCEPT ![p] = ToSave(now, NewAlert(problem, now), TRUE)]
    <3>1. NewAlert(problem, now) \in Row
      BY <2>2, NewAlertType
    <3> DEFINE saving == ToSave(now, NewAlert(problem, now), TRUE)
    <3>2. saving \in Task /\ LocalsOK(saving)
      BY <2>2, <3>1, ToSaveType
    <3>3. task' = [task EXCEPT ![p] = saving]
      BY <2>3
    <3> HIDE DEF saving
    <3>4. QED
      BY <2>1, <3>2, <3>3, TaskUpdate DEF TasksOK
  <2>4. ASSUME NEW i \in ActiveFor(problem.fingerprint), NEW notify \in BOOLEAN,
               task' = [task EXCEPT ![p] = ToSave(now, Refreshed(alerts[i], now), notify)]
        PROVE  TasksOK'
    <3>1. alerts[i] \in Row
      BY DEF ActiveFor, TypeOK
    <3>2. QED
      BY <2>2, <2>4, <3>1, RefreshedType, ToSaveType, TaskUpdate DEF TasksOK
  <2>5. CASE task' = [task EXCEPT ![p] = [Idle EXCEPT !.step = "findPending",
                                                      !.at = now, !.problem = problem]]
    <3>1. /\ [Idle EXCEPT !.step = "findPending", !.at = now, !.problem = problem] \in Task
          /\ LocalsOK([Idle EXCEPT !.step = "findPending", !.at = now, !.problem = problem])
      BY <2>2 DEF Idle, Task, Steps, LocalsOK
    <3>2. QED
      BY <2>1, <2>5, <3>1, TaskUpdate DEF TasksOK
  <2>6. \A row : shouldNotifyRepeat(row, now) \in BOOLEAN
    BY DEF shouldNotifyRepeat
  <2>7. QED
    BY <1>1, <2>1, <2>3, <2>4, <2>5, <2>6 DEF fire
<1>2. ASSUME fireFindPending(p) PROVE AlertsOK' /\ TasksOK'
  <2> DEFINE problem == task[p].problem
             t == task[p].at
  <2>1. AlertsOK'
    BY <1>2 DEF fireFindPending, TypeOK, AlertsOK
  <2>2. problem \in Problem /\ t \in Nat
    BY <1>2 DEF fireFindPending, TypeOK, Task, LocalsOK
  <2>3. ASSUME NEW i \in LatestResolved(problem.fingerprint),
               task' = [task EXCEPT ![p] = ToSave(t, Reopened(alerts[i], t), FALSE)]
        PROVE  TasksOK'
    <3>1. alerts[i] \in Row
      BY DEF LatestResolved, ResolvedFor, TypeOK
    <3>2. Reopened(alerts[i], t) \in Row
      BY <2>2, <3>1, ReopenedType
    <3>3. /\ ToSave(t, Reopened(alerts[i], t), FALSE) \in Task
          /\ LocalsOK(ToSave(t, Reopened(alerts[i], t), FALSE))
      BY <2>2, <3>2, ToSaveType
    <3>4. QED
      BY <2>3, <3>3, TaskUpdate DEF TasksOK
  <2>4. CASE task' = [task EXCEPT ![p] = ToSave(t, NewAlert(problem, t), TRUE)]
    <3>1. NewAlert(problem, t) \in Row
      BY <2>2, NewAlertType
    <3> DEFINE saving == ToSave(t, NewAlert(problem, t), TRUE)
    <3>2. saving \in Task /\ LocalsOK(saving)
      BY <2>2, <3>1, ToSaveType
    <3>3. task' = [task EXCEPT ![p] = saving]
      BY <2>4
    <3> HIDE DEF saving
    <3>4. QED
      BY <2>1, <3>2, <3>3, TaskUpdate DEF TasksOK
  <2>5. QED
    BY <1>2, <2>1, <2>3, <2>4 DEF fireFindPending
<1>3. ASSUME fireSave(p) PROVE AlertsOK' /\ TasksOK'
  <2> DEFINE entity == task[p].entity
             told == [task[p] EXCEPT !.step = "notify",
                                     !.entity = [entity EXCEPT !.id = SavedId(entity)]]
  <2>1. entity \in Row
    BY <1>3 DEF fireSave, TypeOK, Task, LocalsOK
  <2>2. Save(entity)
    BY <1>3 DEF fireSave
  <2>3. AlertsOK'
    BY <2>1, <2>2, SaveType DEF AlertsOK
  <2>4. /\ SavedId(entity) \in AlertId
        /\ [entity EXCEPT !.id = SavedId(entity)] \in Row
    BY <2>1, <2>2, SaveType
  <2>5. told \in Task /\ LocalsOK(told)
    <3>1. task[p] \in Task /\ LocalsOK(task[p])
      BY DEF TypeOK
    <3>2. told \in Task
      BY <2>4, <3>1 DEF Task, Steps
    <3>3. told.entity # NULL /\ told.entity.id # NULL
      BY <2>1, <2>4, <3>1, ServiceAssumption DEF Task, Row
    <3>4. QED
      BY <3>1, <3>2, <3>3 DEF LocalsOK, Task
  <2>6. task' = [task EXCEPT ![p] = told] \/ task' = [task EXCEPT ![p] = Idle]
    BY <1>3 DEF fireSave, TypeOK
  <2>7. QED
    BY <2>3, <2>5, <2>6, IdleType, TaskUpdate DEF TasksOK
<1>4. ASSUME fireConflict(p) PROVE AlertsOK' /\ TasksOK'
  BY <1>4, IdleType, TaskUpdate DEF fireConflict, TypeOK, AlertsOK, TasksOK
<1>5. ASSUME NEW s \in Service, create(p, s) PROVE AlertsOK' /\ TasksOK'
  <2> DEFINE problem == [fingerprint |-> NULL, service |-> s]
  <2>1. problem \in Problem /\ now \in Nat
    BY DEF Problem, TypeOK
  <2>2. AlertsOK'
    BY <1>5 DEF create, TypeOK, AlertsOK
  <2>3. QED
    BY <1>5, <2>1, <2>2, NewAlertType, ToSaveType, TaskUpdate DEF create, TasksOK
<1>6. QED
  BY <1>1, <1>2, <1>3, <1>4, <1>5

(* Saving the entity a handler holds, then moving it to a well-typed task. *)
LEMMA SaveHeldType ==
    ASSUME TypeOK, NEW entity \in Row, Save(entity)
    PROVE  AlertsOK'
  BY SaveType DEF AlertsOK

(* Resolving keeps the table and the tasks well typed. *)
LEMMA ResolveType ==
    ASSUME TypeOK, NEW p \in Worker,
           \/ \E f \in Fingerprint : resolveByFingerprint(p, f)
           \/ \E s \in Service : resolveByService(p, s)
           \/ saveClosed(p)
    PROVE  AlertsOK' /\ TasksOK'
<1>1. ASSUME NEW batch \in SUBSET Row, \A row \in batch : row.id # NULL,
             NEW t \in Task, t = [Idle EXCEPT !.step = "saveClosed", !.at = now, !.batch = batch],
             task' = [task EXCEPT ![p] = t]
      PROVE  TasksOK'
  <2>1. LocalsOK(t)
    BY <1>1 DEF Idle, LocalsOK
  <2>2. QED
    BY <1>1, <2>1, TaskUpdate DEF TasksOK
<1>2. \A i \in AlertId : alerts[i] # NULL =>
         Closed(alerts[i], now, FALSE) \in Row /\ Closed(alerts[i], now, FALSE).id # NULL
<2> SUFFICES ASSUME NEW i \in AlertId, alerts[i] # NULL
             PROVE  Closed(alerts[i], now, FALSE) \in Row /\ Closed(alerts[i], now, FALSE).id # NULL
  OBVIOUS
<2>1. alerts[i] \in Row /\ alerts[i].id = i /\ now \in Nat
  BY DEF TypeOK
<2>2. QED
  BY <2>1, ClosedType, ServiceAssumption
<1>3. \A batch \in SUBSET Row :
         [Idle EXCEPT !.step = "saveClosed", !.at = now, !.batch = batch] \in Task
  BY DEF TypeOK, Idle, Task, Steps
<1>4. ASSUME NEW f \in Fingerprint, resolveByFingerprint(p, f) PROVE AlertsOK' /\ TasksOK'
  <2>1. AlertsOK'
    BY <1>4 DEF resolveByFingerprint, TypeOK, AlertsOK
  <2>2. CASE UNCHANGED task
    BY <2>1, <2>2 DEF TypeOK, TasksOK
  <2>3. ASSUME NEW i \in ActiveFor(f),
               task' = [task EXCEPT ![p] =
                           [Idle EXCEPT !.step = "saveClosed", !.at = now,
                                        !.batch = {Closed(alerts[i], now, FALSE)}]]
        PROVE  TasksOK'
    <3>1. /\ Closed(alerts[i], now, FALSE) \in Row
          /\ Closed(alerts[i], now, FALSE).id # NULL
      BY <1>2 DEF ActiveFor
    <3> DEFINE batch == {Closed(alerts[i], now, FALSE)}
    <3>2. batch \in SUBSET Row /\ \A row \in batch : row.id # NULL
      BY <3>1
    <3>3. task' = [task EXCEPT ![p] = [Idle EXCEPT !.step = "saveClosed", !.at = now,
                                                   !.batch = batch]]
      BY <2>3
    <3> HIDE DEF batch
    <3>4. QED
      BY <1>1, <1>3, <3>2, <3>3
  <2>4. QED
    BY <1>4, <2>1, <2>2, <2>3 DEF resolveByFingerprint
<1>5. ASSUME NEW s \in Service, resolveByService(p, s) PROVE AlertsOK' /\ TasksOK'
  <2> DEFINE active == {i \in AlertId : /\ alerts[i] # NULL
                                        /\ alerts[i].status = "active"
                                        /\ alerts[i].service = s}
             batch == {Closed(alerts[i], now, FALSE) : i \in active}
  <2>1. AlertsOK'
    BY <1>5 DEF resolveByService, TypeOK, AlertsOK
  <2>2. batch \in SUBSET Row /\ \A row \in batch : row.id # NULL
    BY <1>2
  <2>3. task' = [task EXCEPT ![p] = [Idle EXCEPT !.step = "saveClosed", !.at = now,
                                                 !.batch = batch]]
    BY <1>5 DEF resolveByService
  <2> HIDE DEF batch
  <2>4. QED
    BY <1>1, <1>3, <2>1, <2>2, <2>3
<1>6. ASSUME saveClosed(p) PROVE AlertsOK' /\ TasksOK'
  <2>1. PICK entity \in task[p].batch :
           /\ Save(entity)
           /\ task' = [task EXCEPT ![p] = IF task[p].batch = {entity} THEN Idle
                                          ELSE [task[p] EXCEPT !.batch = @ \ {entity}]]
    BY <1>6 DEF saveClosed
  <2>2. task[p] \in Task /\ LocalsOK(task[p]) /\ entity \in Row
    BY DEF TypeOK, Task
  <2> DEFINE rest == [task[p] EXCEPT !.batch = @ \ {entity}]
  <2>3. rest \in Task
    BY <2>2 DEF Task
  <2>4. LocalsOK(rest)
    BY <2>2 DEF Task, LocalsOK
  <2>5. task' = [task EXCEPT ![p] = Idle] \/ task' = [task EXCEPT ![p] = rest]
    <3>1. CASE task[p].batch = {entity}
      BY <2>1, <3>1
    <3>2. CASE task[p].batch # {entity}
      BY <2>1, <3>2
    <3>3. QED
      BY <3>1, <3>2
  <2>6. AlertsOK'
    BY <2>1, <2>2, SaveHeldType
  <2> HIDE DEF rest
  <2>7. QED
    BY <2>3, <2>4, <2>5, <2>6, IdleType, TaskUpdate DEF TasksOK
<1>7. QED
  BY <1>4, <1>5, <1>6

(* The operator's endpoints keep the table and the tasks well typed. *)
LEMMA OperatorType ==
    ASSUME TypeOK, NEW p \in Worker,
           \/ \E id \in AlertId : acknowledge(p, id) \/ resolve(p, id)
           \/ saveAdmin(p)
    PROVE  AlertsOK' /\ TasksOK'
<1>1. ASSUME NEW row \in Row,
             task' = [task EXCEPT ![p] = [Idle EXCEPT !.step = "saveAdmin", !.at = now,
                                                      !.entity = row]]
      PROVE  TasksOK'
  <2> DEFINE t == [Idle EXCEPT !.step = "saveAdmin", !.at = now, !.entity = row]
  <2>1. t \in Task /\ LocalsOK(t)
    BY DEF TypeOK, Idle, Task, Steps, LocalsOK
  <2> HIDE DEF t
  <2>2. task' = [task EXCEPT ![p] = t]
    BY <1>1 DEF t
  <2>3. QED
    BY <2>1, <2>2, TaskUpdate DEF TasksOK
<1>2. ASSUME NEW id \in AlertId, acknowledge(p, id) PROVE AlertsOK' /\ TasksOK'
  <2>1. [alerts[id] EXCEPT !.status = "acknowledged"] \in Row
    BY <1>2, OperatedType DEF acknowledge, TypeOK
  <2>2. QED
    BY <1>1, <1>2, <2>1 DEF acknowledge, TypeOK, AlertsOK
<1>3. ASSUME NEW id \in AlertId, resolve(p, id) PROVE AlertsOK' /\ TasksOK'
  <2>1. [alerts[id] EXCEPT !.status = "resolved", !.resolvedAt = now] \in Row
    BY <1>3, OperatedType DEF resolve, TypeOK
  <2>2. QED
    BY <1>1, <1>3, <2>1 DEF resolve, TypeOK, AlertsOK
<1>4. ASSUME saveAdmin(p) PROVE AlertsOK' /\ TasksOK'
  <2>1. task[p].entity \in Row
    BY <1>4 DEF saveAdmin, TypeOK, Task, LocalsOK
  <2>2. AlertsOK'
    BY <1>4, <2>1, SaveHeldType DEF saveAdmin
  <2>3. QED
    BY <1>4, <2>2, IdleType, TaskUpdate DEF saveAdmin, TasksOK
<1>5. QED
  BY <1>2, <1>3, <1>4

(* Stale expiry keeps the table and the tasks well typed. *)
LEMMA ExpireType ==
    ASSUME TypeOK, NEW p \in Worker,
           ExpireStale(p) \/ ExpireFind(p) \/ ExpireSave(p) \/ ExpireFails(p)
    PROVE  AlertsOK' /\ TasksOK'
<1>0. task[p] \in Task /\ LocalsOK(task[p]) /\ now \in Nat
  BY DEF TypeOK
<1>1. ASSUME ExpireStale(p) PROVE AlertsOK' /\ TasksOK'
  <2> DEFINE t == [Idle EXCEPT !.step = "expire", !.at = now, !.batch = findStale]
  <2>1. findStale \in SUBSET Row /\ \A row \in findStale : row.id # NULL
    BY ServiceAssumption DEF findStale, TypeOK
  <2>2. t \in Task
    BY <1>0, <2>1 DEF Idle, Task, Steps
  <2>3. LocalsOK(t)
    BY <2>1 DEF Idle, LocalsOK
  <2>4. task' = [task EXCEPT ![p] = t] /\ UNCHANGED alerts
    BY <1>1 DEF ExpireStale
  <2> HIDE DEF t
  <2>5. QED
    BY <2>2, <2>3, <2>4, TaskUpdate DEF TasksOK, AlertsOK, TypeOK
<1>2. ASSUME ExpireFind(p) PROVE AlertsOK' /\ TasksOK'
  <2>1. AlertsOK'
    BY <1>2 DEF ExpireFind, AlertsOK, TypeOK
  <2>2. PICK stale \in task[p].batch :
           \/ \E i \in ActiveFor(stale.fingerprint) :
                 task' = [task EXCEPT ![p] =
                             [task[p] EXCEPT !.step = "saveExpired",
                                       !.batch = @ \ {stale},
                                       !.entity = Closed(alerts[i], now, TRUE)]]
           \/ NextIn(p, "expire", task[p].batch \ {stale})
    BY <1>2 DEF ExpireFind
  <2>3. ASSUME NEW i \in ActiveFor(stale.fingerprint),
               task' = [task EXCEPT ![p] =
                             [task[p] EXCEPT !.step = "saveExpired",
                                       !.batch = @ \ {stale},
                                       !.entity = Closed(alerts[i], now, TRUE)]]
        PROVE  TasksOK'
    <3>1. Closed(alerts[i], now, TRUE) \in Row
      <4>1. alerts[i] \in Row
        BY DEF ActiveFor, TypeOK
      <4>2. QED
        BY <1>0, <4>1, ClosedType
    <3> DEFINE t == [task[p] EXCEPT !.step = "saveExpired",
                                    !.batch = @ \ {stale},
                                    !.entity = Closed(alerts[i], now, TRUE)]
    <3>2. t \in Task
      BY <1>0, <3>1 DEF Task, Steps
    <3>3. LocalsOK(t)
      BY <1>0, <3>1 DEF Task, LocalsOK
    <3>4. task' = [task EXCEPT ![p] = t]
      BY <2>3
    <3> HIDE DEF t
    <3>5. QED
      BY <3>2, <3>3, <3>4, TaskUpdate DEF TasksOK
  <2>4. CASE NextIn(p, "expire", task[p].batch \ {stale})
    <3>1. task[p].batch \ {stale} \in SUBSET task[p].batch
      OBVIOUS
    <3>2. QED
      BY <2>1, <2>4, <3>1, NextInType DEF TasksOK
  <2>5. QED
    BY <2>1, <2>2, <2>3, <2>4
<1>3. ASSUME ExpireSave(p) PROVE AlertsOK' /\ TasksOK'
  <2>1. task[p].entity \in Row
    BY <1>0, <1>3 DEF ExpireSave, Task, LocalsOK
  <2>2. AlertsOK'
    BY <1>3, <2>1, SaveHeldType DEF ExpireSave
  <2>3. QED
    BY <1>3, <2>2, NextInType DEF ExpireSave, TasksOK
<1>4. ASSUME ExpireFails(p) PROVE AlertsOK' /\ TasksOK'
  BY <1>4, NextInType DEF ExpireFails, TasksOK, AlertsOK, TypeOK
<1>5. QED
  BY <1>1, <1>2, <1>3, <1>4

(* The sweeper keeps the table and the tasks well typed. *)
LEMMA SweepType ==
    ASSUME TypeOK, NEW p \in Worker,
           \/ SweepLoad(p) \/ Mark(p) \/ MarkFails(p)
           \/ \E alert \in task[p].batch : Announce(p, alert) \/ AnnounceFails(p, alert)
    PROVE  AlertsOK' /\ TasksOK'
<1>0. task[p] \in Task /\ LocalsOK(task[p]) /\ now \in Nat
  BY DEF TypeOK
<1>1. ASSUME SweepLoad(p) PROVE AlertsOK' /\ TasksOK'
  <2> DEFINE due == findDueResolves(now)
             t == [Idle EXCEPT !.step = "announce", !.at = now, !.batch = due]
  <2>1. due \in SUBSET Row /\ \A row \in due : row.id # NULL
    BY ServiceAssumption DEF findDueResolves, TypeOK
  <2>2. task' = [task EXCEPT ![p] = t] /\ UNCHANGED alerts
    BY <1>1 DEF SweepLoad
  <2> HIDE DEF due
  <2>3. t \in Task
    BY <1>0, <2>1 DEF Idle, Task, Steps
  <2>4. LocalsOK(t)
    BY <2>1 DEF Idle, LocalsOK
  <2> HIDE DEF t
  <2>5. QED
    BY <2>2, <2>3, <2>4, TaskUpdate DEF TasksOK, AlertsOK, TypeOK
<1>2. ASSUME NEW alert \in task[p].batch, Announce(p, alert) PROVE AlertsOK' /\ TasksOK'
  <2> DEFINE t == [task[p] EXCEPT !.step = "markNotified", !.batch = @ \ {alert},
                                  !.entity = alert]
  <2>1. alert \in Row /\ alert.id # NULL
    BY <1>0 DEF Task, LocalsOK
  <2>2. t \in Task
    BY <1>0, <2>1 DEF Task, Steps
  <2>3. LocalsOK(t)
    BY <1>0, <2>1 DEF Task, LocalsOK
  <2>4. task' = [task EXCEPT ![p] = t] /\ UNCHANGED alerts
    BY <1>2 DEF Announce
  <2> HIDE DEF t
  <2>5. QED
    BY <2>2, <2>3, <2>4, TaskUpdate DEF TasksOK, AlertsOK, TypeOK
<1>3. ASSUME NEW alert \in task[p].batch, AnnounceFails(p, alert) PROVE AlertsOK' /\ TasksOK'
  <2>1. NextIn(p, "announce", task[p].batch \ {alert}) /\ UNCHANGED alerts
    BY <1>3 DEF AnnounceFails
  <2>2. task[p].batch \ {alert} \in SUBSET task[p].batch
    OBVIOUS
  <2>3. QED
    BY <2>1, <2>2, NextInType DEF TasksOK, AlertsOK, TypeOK
<1>4. ASSUME Mark(p) PROVE AlertsOK' /\ TasksOK'
  <2> DEFINE row(i) == [alerts[i] EXCEPT !.pendingResolveSince = NULL,
                                         !.lastNotifiedAt = task[p].at]
  <2>1. \A i \in AlertId : alerts[i] # NULL => row(i) \in Row /\ row(i).id = i
    <3>1. task[p].at \in Nat
      BY <1>0 DEF Task
    <3>2. QED
      BY <3>1, MarkedType DEF TypeOK
  <2>2. alerts' = [i \in AlertId |-> IF i = task[p].entity.id /\ alerts[i] # NULL
                                      THEN row(i) ELSE alerts[i]]
    BY <1>4 DEF Mark, markResolveNotified
  <2> HIDE DEF row
  <2>3. AlertsOK'
    BY <2>1, <2>2 DEF AlertsOK, TypeOK
  <2>4. TasksOK'
    BY <1>4, NextInType DEF Mark, TasksOK
  <2>5. QED
    BY <2>3, <2>4
<1>5. ASSUME MarkFails(p) PROVE AlertsOK' /\ TasksOK'
  BY <1>5, NextInType DEF MarkFails, TasksOK, AlertsOK, TypeOK
<1>6. QED
  BY <1>1, <1>2, <1>3, <1>4, <1>5

(* The clock only moves on, and the counters only count up. *)
LEMMA EnvironmentType ==
    ASSUME TypeOK, [Next]_vars
    PROVE  /\ now' \in Nat /\ faults' \in Nat /\ requests' \in Nat
           /\ now <= now'
<1>1. now \in Nat /\ faults \in Nat /\ requests \in Nat
  BY DEF TypeOK
<1>2. \/ NoFault \/ Fault \/ Request \/ Tick
  <2>1. CASE UNCHANGED vars
    BY <2>1 DEF vars, NoFault
  <2>2. ASSUME NEW p \in Worker, SourceStep(p) PROVE NoFault
    BY <2>2 DEF SourceStep, Fire, Resolve, ResolveService, ExpireStale
  <2>3. ASSUME NEW p \in Worker, OperatorStep(p) PROVE Request
    BY <2>3 DEF OperatorStep, Create, Acknowledge, ResolveById
  <2>4. ASSUME NEW p \in Worker, Sweep(p) PROVE NoFault
    BY <2>4 DEF Sweep, SweepLoad
  <2>5. ASSUME NEW p \in Worker, Continue(p) PROVE NoFault
    BY <2>5 DEF Continue, FireFindPending, FireSave, FireConflict, Notify,
                SaveClosed, ExpireFind, ExpireSave, Announce, Mark, SaveAdmin
  <2>6. ASSUME NEW p \in Worker, Fail(p) PROVE Fault
    BY <2>6 DEF Fail, Abort, ExpireFails, MarkFails, AnnounceFails
  <2>7. QED
    BY <2>1, <2>2, <2>3, <2>4, <2>5, <2>6 DEF Next
<1>3. QED
  BY <1>1, <1>2 DEF NoFault, Fault, Request, Tick

(* Only sends write the history, and they write what can be said. *)
LEMMA ChatType ==
    ASSUME TypeOK, NEW id, NEW what \in Said, UNCHANGED chat \/ Tell(id, what)
    PROVE  chat' \in [AlertId -> [said : Said, at : Nat]]
  BY DEF TypeOK, Tell

(* Every step keeps every variable well typed. *)
LEMMA TypeStep == TypeOK /\ [Next]_vars => TypeOK'
<1> SUFFICES ASSUME TypeOK, [Next]_vars PROVE TypeOK'
  OBVIOUS
<1>1. SUFFICES AlertsOK' /\ TasksOK' /\ chat' \in [AlertId -> [said : Said, at : Nat]]
  BY <1>1, EnvironmentType DEF TypeOK, AlertsOK, TasksOK
<1>2. AlertsOK /\ TasksOK
  BY DEF TypeOK, AlertsOK, TasksOK
<1>3. UNCHANGED chat => chat' \in [AlertId -> [said : Said, at : Nat]]
  BY DEF TypeOK
<1>4. CASE UNCHANGED vars
  BY <1>2, <1>3, <1>4 DEF vars, AlertsOK, TasksOK
<1>5. CASE Tick
  BY <1>2, <1>3, <1>5 DEF Tick, AlertsOK, TasksOK
<1>6. ASSUME NEW p \in Worker, SourceStep(p) PROVE <1>1!1
  <2>1. \/ \E problem \in Problems : fire(p, problem)
        \/ \E f \in Fingerprint : resolveByFingerprint(p, f)
        \/ \E s \in Service : resolveByService(p, s)
        \/ ExpireStale(p)
    BY <1>6 DEF SourceStep, Fire, Resolve, ResolveService
  <2>2. UNCHANGED chat
    BY <1>6 DEF SourceStep, Fire, Resolve, ResolveService, ExpireStale
  <2>3. QED
    BY <1>3, <2>1, <2>2, FireType, ResolveType, ExpireType
<1>7. ASSUME NEW p \in Worker, OperatorStep(p) \/ Sweep(p) PROVE <1>1!1
  <2>1. \/ \E s \in Service : create(p, s)
        \/ \E id \in AlertId : acknowledge(p, id) \/ resolve(p, id)
        \/ SweepLoad(p)
    BY <1>7 DEF OperatorStep, Sweep, Create, Acknowledge, ResolveById
  <2>2. UNCHANGED chat
    BY <1>7 DEF OperatorStep, Sweep, Create, Acknowledge, ResolveById, SweepLoad
  <2>3. QED
    BY <1>3, <2>1, <2>2, FireType, OperatorType, SweepType
<1>8. ASSUME NEW p \in Worker, Continue(p) PROVE <1>1!1
  <2>1. CASE Notify(p)
    <3>1. AlertsOK'
      BY <1>2, <2>1 DEF Notify, AlertsOK
    <3>2. TasksOK'
      BY <2>1, IdleType, TaskUpdate DEF Notify, TasksOK
    <3>3. Tell(task[p].entity.id, "down") /\ "down" \in Said
      BY <2>1 DEF Notify, Said
    <3>4. QED
      BY <3>1, <3>2, <3>3, ChatType
  <2>2. ASSUME NEW alert \in task[p].batch, Announce(p, alert) PROVE <1>1!1
    <3>1. Tell(alert.id, "up") /\ "up" \in Said
      BY <2>2 DEF Announce, Said
    <3>2. QED
      BY <2>2, <3>1, ChatType, SweepType
  <2>3. CASE \/ FireFindPending(p) \/ FireSave(p) \/ FireConflict(p) \/ SaveClosed(p)
             \/ SaveAdmin(p)
    <3>1. UNCHANGED chat
      BY <2>3 DEF FireFindPending, FireSave, FireConflict, SaveClosed, SaveAdmin
    <3>2. \/ fireFindPending(p) \/ fireSave(p) \/ fireConflict(p)
          \/ saveClosed(p) \/ saveAdmin(p)
      BY <2>3 DEF FireFindPending, FireSave, FireConflict, SaveClosed, SaveAdmin
    <3>3. QED
      BY <1>3, <3>1, <3>2, FireType, ResolveType, OperatorType
  <2>4. CASE ExpireFind(p) \/ ExpireSave(p) \/ Mark(p)
    <3>1. UNCHANGED chat
      BY <2>4 DEF ExpireFind, ExpireSave, Mark
    <3>2. QED
      BY <1>3, <2>4, <3>1, ExpireType, SweepType
  <2>5. QED
    BY <1>8, <2>1, <2>2, <2>3, <2>4 DEF Continue
<1>9. ASSUME NEW p \in Worker, Fail(p) PROVE <1>1!1
  <2>1. CASE Abort(p)
    <3>1. UNCHANGED chat /\ AlertsOK'
      BY <1>2, <2>1 DEF Abort, AlertsOK
    <3>2. QED
      BY <1>3, <2>1, <3>1, IdleType, TaskUpdate DEF Abort, TasksOK
  <2>2. ASSUME NEW alert \in task[p].batch, AnnounceFails(p, alert) PROVE <1>1!1
    <3>1. (UNCHANGED chat \/ Tell(alert.id, "up")) /\ "up" \in Said
      BY <2>2 DEF AnnounceFails, Said
    <3>2. QED
      BY <2>2, <3>1, ChatType, SweepType
  <2>3. CASE ExpireFails(p) \/ MarkFails(p)
    <3>1. UNCHANGED chat
      BY <2>3 DEF ExpireFails, MarkFails
    <3>2. QED
      BY <1>3, <2>3, <3>1, ExpireType, SweepType
  <2>4. QED
    BY <1>9, <2>1, <2>2, <2>3 DEF Fail
<1>10. QED
  BY <1>4, <1>5, <1>6, <1>7, <1>8, <1>9 DEF Next

(* Type correctness of the alert lifecycle: whatever interleaves or fails,  *)
(* the columns, the handlers' locals and the history keep their types, and  *)
(* a row keeps its primary key (AlertsService and its callers).             *)
THEOREM TypeCorrect == Spec => []TypeOK
<1>1. Init => TypeOK
  BY IdleType DEF Init, TypeOK, Said
<1>2. QED
  BY <1>1, TypeStep, PTL DEF Spec

-----------------------------------------------------------------------------
(* What can happen to the table in one step: nothing, the save of an entity *)
(* a handler holds, or a delivery mark.                                     *)
LEMMA TableStep ==
    ASSUME TypeOK, [Next]_vars
    PROVE  \/ UNCHANGED alerts
           \/ \E p \in Worker : task[p].entity \in Row /\ Save(task[p].entity)
           \/ \E p \in Worker : \E entity \in task[p].batch : entity \in Row /\ Save(entity)
           \/ \E p \in Worker : markResolveNotified(task[p].entity.id, task[p].at)
<1>1. \A p \in Worker : /\ task[p] \in Task /\ LocalsOK(task[p])
                        /\ task[p].batch \subseteq Row
  BY DEF TypeOK, Task
<1>2. ASSUME NEW p \in Worker,
             task[p].step \in {"saveFired", "saveExpired", "saveAdmin"}
      PROVE  task[p].entity \in Row
  BY <1>1, <1>2 DEF Task, LocalsOK
<1>3. CASE UNCHANGED vars \/ Tick
  BY <1>3 DEF vars, Tick
<1>4. ASSUME NEW p \in Worker, SourceStep(p) \/ OperatorStep(p) \/ Sweep(p) \/ Fail(p)
      PROVE  UNCHANGED alerts
  <2>1. CASE SourceStep(p)
    BY <2>1 DEF SourceStep, Fire, fire, Resolve, resolveByFingerprint,
                ResolveService, resolveByService, ExpireStale
  <2>2. CASE OperatorStep(p)
    BY <2>2 DEF OperatorStep, Create, create, Acknowledge, acknowledge,
                ResolveById, resolve
  <2>3. CASE Sweep(p) \/ Fail(p)
    BY <2>3 DEF Sweep, SweepLoad, Fail, Abort, ExpireFails, MarkFails, AnnounceFails
  <2>4. QED
    BY <1>4, <2>1, <2>2, <2>3
<1>5. ASSUME NEW p \in Worker, Continue(p)
      PROVE  \/ UNCHANGED alerts
             \/ task[p].entity \in Row /\ Save(task[p].entity)
             \/ \E entity \in task[p].batch : entity \in Row /\ Save(entity)
             \/ markResolveNotified(task[p].entity.id, task[p].at)
  <2>1. CASE FireSave(p) \/ ExpireSave(p) \/ SaveAdmin(p)
    BY <1>2, <2>1 DEF FireSave, fireSave, ExpireSave, SaveAdmin, saveAdmin
  <2>2. CASE SaveClosed(p)
    BY <1>1, <2>2 DEF SaveClosed, saveClosed
  <2>3. CASE Mark(p)
    BY <2>3 DEF Mark
  <2>4. CASE \/ FireFindPending(p) \/ FireConflict(p) \/ Notify(p) \/ ExpireFind(p)
             \/ \E alert \in task[p].batch : Announce(p, alert)
    BY <2>4 DEF FireFindPending, fireFindPending, FireConflict, fireConflict,
                Notify, ExpireFind, Announce
  <2>5. QED
    BY <1>5, <2>1, <2>2, <2>3, <2>4 DEF Continue
<1>6. QED
  BY <1>3, <1>4, <1>5 DEF Next

-----------------------------------------------------------------------------
(* One open alert per fingerprint *)

(* A save that the unique index accepts keeps the open alerts unique. *)
LEMMA SaveKeepsUnique ==
    ASSUME TypeOK, OneActivePerFingerprint, NEW entity \in Row, Save(entity)
    PROVE  OneActivePerFingerprint'
<1> DEFINE id == SavedId(entity)
           saved == [entity EXCEPT !.id = id]
<1>1. /\ id \in AlertId
      /\ alerts' = [alerts EXCEPT ![id] = saved]
      /\ alerts \in [AlertId -> Row \cup {NULL}]
  BY SaveType DEF TypeOK
<1>2. saved.status = entity.status /\ saved.fingerprint = entity.fingerprint
  BY DEF Row
<1>3. entity.status = "active" /\ entity.fingerprint # NULL
         => ActiveFor(entity.fingerprint) \subseteq {id}
  <2>1. CASE entity.id = NULL
    BY <2>1, ServiceAssumption DEF Save, ViolatesUniqueIndex, ActiveFor
  <2>2. CASE entity.id # NULL
    BY <2>2 DEF Save, ViolatesUniqueIndex, SavedId
  <2>3. QED
    BY <2>1, <2>2
<1> HIDE DEF id, saved
<1>4. SUFFICES ASSUME NEW i \in AlertId, NEW j \in AlertId, i # j,
                      alerts'[i] # NULL, alerts'[i].status = "active",
                      alerts'[j] # NULL, alerts'[j].status = "active",
                      alerts'[i].fingerprint # NULL,
                      alerts'[i].fingerprint = alerts'[j].fingerprint
               PROVE  FALSE
  BY DEF OneActivePerFingerprint
<1>5. CASE i # id /\ j # id
  BY <1>1, <1>4, <1>5 DEF OneActivePerFingerprint
<1>6. ASSUME NEW k \in AlertId, k # id, alerts'[id].status = "active",
             alerts'[id].fingerprint # NULL,
             alerts'[k] # NULL, alerts'[k].status = "active",
             alerts'[k].fingerprint = alerts'[id].fingerprint
      PROVE  FALSE
  <2>1. alerts'[id] = saved /\ alerts'[k] = alerts[k]
    BY <1>1, <1>6
  <2>2. k \in ActiveFor(entity.fingerprint)
    BY <1>2, <1>6, <2>1 DEF ActiveFor
  <2>3. QED
    BY <1>2, <1>3, <1>6, <2>1, <2>2
<1>7. QED
  BY <1>4, <1>5, <1>6

(* A delivery mark changes neither a status nor a fingerprint. *)
LEMMA MarkKeepsUnique ==
    ASSUME TypeOK, OneActivePerFingerprint, NEW id, NEW t, markResolveNotified(id, t)
    PROVE  OneActivePerFingerprint'
<1>1. \A i \in AlertId :
         /\ alerts'[i] # NULL => alerts[i] # NULL
         /\ alerts[i] # NULL => /\ alerts'[i].status = alerts[i].status
                                /\ alerts'[i].fingerprint = alerts[i].fingerprint
  <2> SUFFICES ASSUME NEW i \in AlertId
               PROVE  /\ alerts'[i] # NULL => alerts[i] # NULL
                      /\ alerts[i] # NULL => /\ alerts'[i].status = alerts[i].status
                                             /\ alerts'[i].fingerprint = alerts[i].fingerprint
    OBVIOUS
  <2>1. CASE alerts[i] = NULL
    BY <2>1 DEF markResolveNotified
  <2>2. CASE alerts[i] # NULL
    <3>1. alerts[i] \in Row
      BY <2>2 DEF TypeOK
    <3>2. \/ alerts'[i] = alerts[i]
          \/ alerts'[i] = [alerts[i] EXCEPT !.pendingResolveSince = NULL, !.lastNotifiedAt = t]
      BY <2>2 DEF markResolveNotified
    <3>3. QED
      BY <2>2, <3>1, <3>2 DEF Row
  <2>3. QED
    BY <2>1, <2>2
<1>2. QED
  BY <1>1 DEF OneActivePerFingerprint

(* Two pods may fire one problem at the same moment, yet it has one open    *)
(* alert: uniqueness is inductive, given the types, because the index       *)
(* guards every save (alerts.service.ts:46-50).                             *)
THEOREM UniqueOpenAlert == Spec => []OneActivePerFingerprint
<1>1. Init => OneActivePerFingerprint
  BY DEF Init, OneActivePerFingerprint
<1>2. TypeOK /\ OneActivePerFingerprint /\ [Next]_vars => OneActivePerFingerprint'
  <2> SUFFICES ASSUME TypeOK, OneActivePerFingerprint, [Next]_vars
               PROVE  OneActivePerFingerprint'
    OBVIOUS
  <2>1. CASE UNCHANGED alerts
    BY <2>1 DEF OneActivePerFingerprint
  <2>2. QED
    BY <2>1, TableStep, SaveKeepsUnique, MarkKeepsUnique
<1>3. QED
  BY <1>1, <1>2, TypeCorrect, PTL DEF Spec

-----------------------------------------------------------------------------
(* Well formed rows *)

(* A row that is well formed at one time is so at every later one. *)
LEMMA WellFormedLater ==
    ASSUME NEW row \in Row, NEW t \in Nat, NEW u \in Nat, t <= u, WellFormed(row, t)
    PROVE  WellFormed(row, u)
  BY DEF WellFormed, Row

(* What fire computes from an open row is well formed. *)
LEMMA RefreshedWellFormed ==
    ASSUME NEW row \in Row, NEW t \in Nat, WellFormed(row, t), row.status = "active"
    PROVE  WellFormed(Refreshed(row, t), t)
<1> DEFINE counted == [row EXCEPT !.occurrenceCount = NextOccurrence(@), !.lastFiredAt = t]
<1>1. counted \in Row /\ counted.status = "active"
  BY NextOccurrenceType DEF Row
<1>2. WellFormed(counted, t)
  BY DEF WellFormed, Row
<1>3. \A n \in {t, counted.lastNotifiedAt} :
         WellFormed([counted EXCEPT !.lastNotifiedAt = n], t)
  <2> HIDE DEF counted
  <2>1. QED
    BY <1>1, <1>2 DEF WellFormed, Row
<1>4. \E n \in {t, counted.lastNotifiedAt} :
         Refreshed(row, t) = [counted EXCEPT !.lastNotifiedAt = n]
  BY DEF Refreshed
<1> HIDE DEF counted
<1>5. QED
  BY <1>3, <1>4

(* What the other paths compute is well formed, with t the time captured at *)
(* the handler's start and u the time it runs: fireFindPending reads rows   *)
(* that may have been stamped after t.                                      *)
LEMMA ComputedWellFormed ==
    ASSUME NEW row \in Row, NEW t \in Nat, NEW u \in Nat, t <= u, WellFormed(row, u)
    PROVE  /\ WellFormed(Reopened(row, t), u)
           /\ row.status = "active" =>
                 \A silent \in BOOLEAN : WellFormed(Closed(row, u, silent), u)
           /\ WellFormed([row EXCEPT !.status = "acknowledged"], u)
           /\ WellFormed([row EXCEPT !.status = "resolved", !.resolvedAt = u], u)
           /\ WellFormed([row EXCEPT !.pendingResolveSince = NULL, !.lastNotifiedAt = t], u)
<1>1. WellFormed(Reopened(row, t), u)
  BY NextOccurrenceType DEF WellFormed, Reopened, Row
<1>2. ASSUME row.status = "active", NEW silent \in BOOLEAN
      PROVE  WellFormed(Closed(row, u, silent), u)
  BY <1>2, PolicyAssumption DEF WellFormed, Closed, Row
<1>3. WellFormed([row EXCEPT !.status = "acknowledged"], u)
  BY DEF WellFormed, Row
<1>4. WellFormed([row EXCEPT !.status = "resolved", !.resolvedAt = u], u)
  BY PolicyAssumption DEF WellFormed, Row
<1>5. WellFormed([row EXCEPT !.pendingResolveSince = NULL, !.lastNotifiedAt = t], u)
  BY DEF WellFormed, Row
<1>6. QED
  BY <1>1, <1>2, <1>3, <1>4, <1>5

(* Its primary key has no part in that. *)
LEMMA IdentifiedWellFormed ==
    ASSUME NEW row \in Row, NEW t \in Nat, WellFormed(row, t), NEW id \in AlertId
    PROVE  WellFormed([row EXCEPT !.id = id], t)
  BY DEF WellFormed, Row

(* A new row is well formed from the time it is stamped with. *)
LEMMA NewAlertWellFormed ==
    ASSUME NEW problem \in Problem, NEW t \in Nat, NEW u \in Nat, t <= u
    PROVE  WellFormed(NewAlert(problem, t), u)
  BY DEF WellFormed, NewAlert

(* What a save or a delivery mark writes is well formed, if what handlers   *)
(* carry is.                                                                *)
LEMMA TableWellFormed ==
    ASSUME TypeOK, RowsWellFormed, [Next]_vars
    PROVE  \A i \in AlertId : alerts'[i] # NULL => WellFormed(alerts'[i], now')
<1>1. now \in Nat /\ now' \in Nat /\ now <= now'
  BY EnvironmentType DEF TypeOK
<1>2. \A i \in AlertId : alerts[i] # NULL => alerts[i] \in Row /\ WellFormed(alerts[i], now)
  BY DEF TypeOK, RowsWellFormed
<1>3. \A i \in AlertId : alerts'[i] # NULL => alerts'[i] \in Row /\ WellFormed(alerts'[i], now)
  <2>1. CASE UNCHANGED alerts
    BY <1>2, <2>1
  <2>2. ASSUME NEW entity \in Row, WellFormed(entity, now), Save(entity)
        PROVE  <1>3!:
    <3> DEFINE saved == [entity EXCEPT !.id = SavedId(entity)]
    <3>1. saved \in Row /\ alerts' = [alerts EXCEPT ![SavedId(entity)] = saved]
      BY <2>2, SaveType
    <3>2. WellFormed(saved, now)
      <4>1. SavedId(entity) \in AlertId
        BY <2>2, SaveType
      <4>2. QED
        BY <1>1, <2>2, <4>1, IdentifiedWellFormed
    <3> HIDE DEF saved
    <3>3. QED
      BY <1>2, <3>1, <3>2 DEF TypeOK
  <2>3. ASSUME NEW p \in Worker, markResolveNotified(task[p].entity.id, task[p].at)
        PROVE  <1>3!:
    <3> DEFINE marked(i) == [alerts[i] EXCEPT !.pendingResolveSince = NULL,
                                              !.lastNotifiedAt = task[p].at]
    <3>1. task[p].at \in Nat /\ task[p].at <= now
      BY DEF TypeOK, Task, RowsWellFormed, CarriesWellFormed
    <3>2. \A i \in AlertId : alerts[i] # NULL =>
             marked(i) \in Row /\ WellFormed(marked(i), now)
      BY <1>1, <1>2, <3>1, MarkedType, ComputedWellFormed
    <3>3. \A i \in AlertId : alerts'[i] # NULL =>
             alerts[i] # NULL /\ alerts'[i] \in {marked(i), alerts[i]}
      BY <2>3 DEF markResolveNotified
    <3> HIDE DEF marked
    <3>4. QED
      BY <1>2, <3>2, <3>3
  <2>4. \A p \in Worker :
           /\ task[p].entity \in Row => WellFormed(task[p].entity, now)
           /\ \A entity \in task[p].batch : WellFormed(entity, now)
    BY DEF RowsWellFormed, CarriesWellFormed
  <2>5. QED
    BY <2>1, <2>2, <2>3, <2>4, TableStep
<1>4. QED
  BY <1>1, <1>3, WellFormedLater

-----------------------------------------------------------------------------
(* Well formed locals *)

(* An idle handler carries nothing. *)
LEMMA IdleCarries == ASSUME NEW n \in Nat PROVE CarriesWellFormed(Idle, n)
  BY DEF CarriesWellFormed, Idle

(* What fire hands to its save. *)
LEMMA ToSaveCarries ==
    ASSUME NEW row \in Row, NEW t \in Nat, NEW n \in Nat, t <= n, NEW notify,
           WellFormed(row, n)
    PROVE  CarriesWellFormed(ToSave(t, row, notify), n)
  BY DEF CarriesWellFormed, ToSave, Idle

(* A loop over a batch of well formed rows. *)
LEMMA BatchCarries ==
    ASSUME NEW step, NEW t \in Nat, NEW n \in Nat, t <= n, NEW batch,
           \A row \in batch : WellFormed(row, n)
    PROVE  CarriesWellFormed([Idle EXCEPT !.step = step, !.at = t, !.batch = batch], n)
  BY DEF CarriesWellFormed, Idle

(* One worker moves on to a well formed task. *)
LEMMA CarriesUpdate ==
    ASSUME TypeOK, RowsWellFormed, NEW p \in Worker, NEW t, CarriesWellFormed(t, now),
           task' = [task EXCEPT ![p] = t]
    PROVE  \A q \in Worker : CarriesWellFormed(task'[q], now)
  BY DEF TypeOK, RowsWellFormed

(* Going on with a loop drops rows, and never finds new ones. *)
LEMMA NextInCarries ==
    ASSUME TypeOK, RowsWellFormed, NEW p \in Worker, NEW step,
           NEW rest \in SUBSET task[p].batch, NextIn(p, step, rest)
    PROVE  \A q \in Worker : CarriesWellFormed(task'[q], now)
<1> DEFINE t == [Idle EXCEPT !.step = step, !.at = task[p].at, !.batch = rest]
<1>1. now \in Nat /\ task[p].at \in Nat /\ CarriesWellFormed(task[p], now)
  BY DEF TypeOK, Task, RowsWellFormed
<1>2. CarriesWellFormed(t, now) /\ CarriesWellFormed(Idle, now)
  BY <1>1, BatchCarries, IdleCarries DEF CarriesWellFormed
<1>3. task' = [task EXCEPT ![p] = Idle] \/ task' = [task EXCEPT ![p] = t]
  BY DEF NextIn
<1> HIDE DEF t
<1>4. QED
  BY <1>2, <1>3, CarriesUpdate

(* Firing: the reads compute well formed entities, the save keeps them. *)
LEMMA FireCarries ==
    ASSUME TypeOK, RowsWellFormed, NEW p \in Worker,
           \/ \E problem \in Problems : fire(p, problem)
           \/ fireFindPending(p) \/ fireSave(p) \/ fireConflict(p)
           \/ \E s \in Service : create(p, s)
    PROVE  \A q \in Worker : CarriesWellFormed(task'[q], now)
<1> DEFINE goal == \A q \in Worker : CarriesWellFormed(task'[q], now)
<1>1. /\ now \in Nat /\ now <= now
      /\ task[p] \in Task /\ LocalsOK(task[p]) /\ CarriesWellFormed(task[p], now)
      /\ task[p].at \in Nat /\ task[p].at <= now
      /\ \A i \in AlertId : alerts[i] # NULL => alerts[i] \in Row /\ WellFormed(alerts[i], now)
  BY DEF TypeOK, RowsWellFormed, Task, CarriesWellFormed
<1>2. ASSUME NEW row \in Row, WellFormed(row, now), NEW t \in Nat, t <= now, NEW notify,
             task' = [task EXCEPT ![p] = ToSave(t, row, notify)]
      PROVE  goal
  <2>1. CarriesWellFormed(ToSave(t, row, notify), now)
    BY <1>1, <1>2, ToSaveCarries
  <2>2. QED
    BY <1>2, <2>1, CarriesUpdate
<1>3. ASSUME NEW problem \in Problem, NEW t \in Nat, t <= now
      PROVE  NewAlert(problem, t) \in Row /\ WellFormed(NewAlert(problem, t), now)
  BY <1>1, <1>3, NewAlertType, NewAlertWellFormed
<1> HIDE DEF goal
<1>4. ASSUME NEW problem \in Problems, fire(p, problem) PROVE goal
  <2>1. problem \in Problem
    BY ServiceAssumption
  <2>2. CASE task' = [task EXCEPT ![p] = ToSave(now, NewAlert(problem, now), TRUE)]
    BY <1>1, <1>2, <1>3, <2>1, <2>2
  <2>3. ASSUME NEW i \in ActiveFor(problem.fingerprint), NEW notify,
               task' = [task EXCEPT ![p] = ToSave(now, Refreshed(alerts[i], now), notify)]
        PROVE  goal
    <3>1. Refreshed(alerts[i], now) \in Row /\ WellFormed(Refreshed(alerts[i], now), now)
      BY <1>1, RefreshedType, RefreshedWellFormed DEF ActiveFor
    <3>2. QED
      BY <1>1, <1>2, <2>3, <3>1
  <2>4. CASE task' = [task EXCEPT ![p] = [Idle EXCEPT !.step = "findPending",
                                                      !.at = now, !.problem = problem]]
    <3>1. CarriesWellFormed([Idle EXCEPT !.step = "findPending", !.at = now,
                                         !.problem = problem], now)
      BY <1>1 DEF CarriesWellFormed, Idle
    <3>2. QED
      BY <2>4, <3>1, CarriesUpdate DEF goal
  <2>5. QED
    BY <1>4, <2>2, <2>3, <2>4 DEF fire
<1>5. ASSUME fireFindPending(p) PROVE goal
  <2> DEFINE problem == task[p].problem
             t == task[p].at
  <2>1. problem \in Problem
    BY <1>1, <1>5 DEF fireFindPending, Task, LocalsOK
  <2>2. CASE task' = [task EXCEPT ![p] = ToSave(t, NewAlert(problem, t), TRUE)]
    BY <1>1, <1>2, <1>3, <2>1, <2>2
  <2>3. ASSUME NEW i \in LatestResolved(problem.fingerprint),
               task' = [task EXCEPT ![p] = ToSave(t, Reopened(alerts[i], t), FALSE)]
        PROVE  goal
    <3>1. Reopened(alerts[i], t) \in Row /\ WellFormed(Reopened(alerts[i], t), now)
      BY <1>1, ReopenedType, ComputedWellFormed DEF LatestResolved, ResolvedFor
    <3>2. QED
      BY <1>1, <1>2, <2>3, <3>1
  <2>4. QED
    BY <1>5, <2>2, <2>3 DEF fireFindPending
<1>6. ASSUME fireSave(p) PROVE goal
  <2> DEFINE entity == task[p].entity
             saved == [entity EXCEPT !.id = SavedId(entity)]
             told == [task[p] EXCEPT !.step = "notify", !.entity = saved]
  <2>1. entity \in Row /\ WellFormed(entity, now)
    BY <1>1, <1>6 DEF fireSave, Task, LocalsOK, CarriesWellFormed
  <2>2. SavedId(entity) \in AlertId
    BY <1>6, <2>1, SaveType DEF fireSave
  <2>3. WellFormed(saved, now)
    BY <1>1, <2>1, <2>2, IdentifiedWellFormed
  <2>4. task' = [task EXCEPT ![p] = told] \/ task' = [task EXCEPT ![p] = Idle]
    BY <1>6 DEF fireSave
  <2> HIDE DEF saved
  <2>5. CarriesWellFormed(told, now)
    BY <1>1, <2>3 DEF CarriesWellFormed, Task
  <2> HIDE DEF told
  <2>6. QED
    BY <1>1, <2>4, <2>5, IdleCarries, CarriesUpdate DEF goal
<1>7. ASSUME fireConflict(p) PROVE goal
  BY <1>1, <1>7, IdleCarries, CarriesUpdate DEF fireConflict, goal
<1>8. ASSUME NEW s \in Service, create(p, s) PROVE goal
  <2> DEFINE problem == [fingerprint |-> NULL, service |-> s]
  <2>1. problem \in Problem
    BY DEF Problem
  <2>2. task' = [task EXCEPT ![p] = ToSave(now, NewAlert(problem, now), FALSE)]
    BY <1>8 DEF create
  <2> HIDE DEF problem
  <2>3. QED
    BY <1>1, <1>2, <1>3, <2>1, <2>2
<1>9. QED
  BY <1>4, <1>5, <1>6, <1>7, <1>8 DEF goal

(* Resolving and expiring: what is closed was open when it was read. *)
LEMMA CloseCarries ==
    ASSUME TypeOK, RowsWellFormed, NEW p \in Worker,
           \/ \E f \in Fingerprint : resolveByFingerprint(p, f)
           \/ \E s \in Service : resolveByService(p, s)
           \/ saveClosed(p)
           \/ ExpireStale(p) \/ ExpireFind(p) \/ ExpireSave(p) \/ ExpireFails(p)
    PROVE  \A q \in Worker : CarriesWellFormed(task'[q], now)
<1> DEFINE goal == \A q \in Worker : CarriesWellFormed(task'[q], now)
<1>1. now \in Nat /\ now <= now /\ task[p] \in Task /\ CarriesWellFormed(task[p], now)
  BY DEF TypeOK, RowsWellFormed
<1>2. \A i \in AlertId : alerts[i] # NULL => alerts[i] \in Row /\ WellFormed(alerts[i], now)
  BY DEF TypeOK, RowsWellFormed
<1>3. \A i \in AlertId, silent \in BOOLEAN :
         alerts[i] # NULL /\ alerts[i].status = "active"
         => WellFormed(Closed(alerts[i], now, silent), now)
  BY <1>1, <1>2, ComputedWellFormed
<1>4. ASSUME NEW step, NEW batch, \A row \in batch : WellFormed(row, now),
             task' = [task EXCEPT ![p] = [Idle EXCEPT !.step = step, !.at = now,
                                                      !.batch = batch]]
      PROVE  goal
  <2>1. CarriesWellFormed([Idle EXCEPT !.step = step, !.at = now, !.batch = batch], now)
    BY <1>1, <1>4, BatchCarries
  <2>2. QED
    BY <1>4, <2>1, CarriesUpdate
<1>5. ASSUME NEW step, NEW rest \in SUBSET task[p].batch, NextIn(p, step, rest) PROVE goal
  BY <1>5, NextInCarries
<1>6. UNCHANGED task => goal
  BY DEF RowsWellFormed
<1> HIDE DEF goal
<1>7. ASSUME NEW f \in Fingerprint, resolveByFingerprint(p, f) PROVE goal
  <2>1. ASSUME NEW i \in ActiveFor(f),
               task' = [task EXCEPT ![p] =
                           [Idle EXCEPT !.step = "saveClosed", !.at = now,
                                        !.batch = {Closed(alerts[i], now, FALSE)}]]
        PROVE  goal
    <3>1. WellFormed(Closed(alerts[i], now, FALSE), now)
      BY <1>3 DEF ActiveFor
    <3> DEFINE batch == {Closed(alerts[i], now, FALSE)}
    <3>2. \A row \in batch : WellFormed(row, now)
      BY <3>1
    <3>3. task' = [task EXCEPT ![p] = [Idle EXCEPT !.step = "saveClosed", !.at = now,
                                                   !.batch = batch]]
      BY <2>1
    <3> HIDE DEF batch
    <3>4. QED
      BY <1>4, <3>2, <3>3
  <2>2. QED
    BY <1>6, <1>7, <2>1 DEF resolveByFingerprint
<1>8. ASSUME NEW s \in Service, resolveByService(p, s) PROVE goal
  <2> DEFINE active == {i \in AlertId : /\ alerts[i] # NULL
                                        /\ alerts[i].status = "active"
                                        /\ alerts[i].service = s}
             batch == {Closed(alerts[i], now, FALSE) : i \in active}
  <2>1. \A row \in batch : WellFormed(row, now)
    BY <1>3
  <2>2. task' = [task EXCEPT ![p] = [Idle EXCEPT !.step = "saveClosed", !.at = now,
                                                 !.batch = batch]]
    BY <1>8 DEF resolveByService
  <2> HIDE DEF batch
  <2>3. QED
    BY <1>4, <2>1, <2>2
<1>9. ASSUME saveClosed(p) PROVE goal
  <2>1. PICK entity \in task[p].batch :
           task' = [task EXCEPT ![p] = IF task[p].batch = {entity} THEN Idle
                                       ELSE [task[p] EXCEPT !.batch = @ \ {entity}]]
    BY <1>9 DEF saveClosed
  <2> DEFINE rest == [task[p] EXCEPT !.batch = @ \ {entity}]
  <2>2. CarriesWellFormed(rest, now)
    BY <1>1 DEF CarriesWellFormed, Task
  <2>3. task' = [task EXCEPT ![p] = rest] \/ task' = [task EXCEPT ![p] = Idle]
    BY <2>1
  <2> HIDE DEF rest
  <2>4. QED
    BY <1>1, <2>2, <2>3, IdleCarries, CarriesUpdate DEF goal
<1>10. ASSUME ExpireStale(p) PROVE goal
  <2>1. \A row \in findStale : WellFormed(row, now)
    BY <1>2 DEF findStale
  <2>2. task' = [task EXCEPT ![p] = [Idle EXCEPT !.step = "expire", !.at = now,
                                                 !.batch = findStale]]
    BY <1>10 DEF ExpireStale
  <2>3. QED
    BY <1>4, <2>1, <2>2
<1>11. ASSUME ExpireFind(p) PROVE goal
  <2>1. PICK stale \in task[p].batch :
           \/ \E i \in ActiveFor(stale.fingerprint) :
                 task' = [task EXCEPT ![p] =
                             [task[p] EXCEPT !.step = "saveExpired",
                                             !.batch = @ \ {stale},
                                             !.entity = Closed(alerts[i], now, TRUE)]]
           \/ NextIn(p, "expire", task[p].batch \ {stale})
    BY <1>11 DEF ExpireFind
  <2>2. task[p].batch \ {stale} \in SUBSET task[p].batch
    OBVIOUS
  <2>3. ASSUME NEW i \in ActiveFor(stale.fingerprint),
               task' = [task EXCEPT ![p] =
                           [task[p] EXCEPT !.step = "saveExpired",
                                           !.batch = @ \ {stale},
                                           !.entity = Closed(alerts[i], now, TRUE)]]
        PROVE  goal
    <3> DEFINE closed == Closed(alerts[i], now, TRUE)
               t == [task[p] EXCEPT !.step = "saveExpired", !.batch = @ \ {stale},
                                    !.entity = closed]
    <3>1. WellFormed(closed, now)
      BY <1>3 DEF ActiveFor
    <3>2. task' = [task EXCEPT ![p] = t]
      BY <2>3
    <3> HIDE DEF closed
    <3>3. CarriesWellFormed(t, now)
      BY <1>1, <3>1 DEF CarriesWellFormed, Task
    <3> HIDE DEF t
    <3>4. QED
      BY <3>2, <3>3, CarriesUpdate DEF goal
  <2>4. QED
    BY <1>5, <2>1, <2>2, <2>3
<1>12. ASSUME ExpireSave(p) \/ ExpireFails(p) PROVE goal
  <2>1. NextIn(p, "expire", task[p].batch)
    BY <1>12 DEF ExpireSave, ExpireFails
  <2>2. QED
    BY <1>5, <2>1
<1>13. QED
  BY <1>7, <1>8, <1>9, <1>10, <1>11, <1>12 DEF goal

(* The sweeper handles rows as it read them; the operator changes a status. *)
LEMMA OtherCarries ==
    ASSUME TypeOK, RowsWellFormed, NEW p \in Worker,
           \/ SweepLoad(p) \/ Mark(p) \/ MarkFails(p)
           \/ \E alert \in task[p].batch : Announce(p, alert) \/ AnnounceFails(p, alert)
           \/ \E id \in AlertId : acknowledge(p, id) \/ resolve(p, id)
           \/ saveAdmin(p) \/ Notify(p) \/ Abort(p)
    PROVE  \A q \in Worker : CarriesWellFormed(task'[q], now)
<1> DEFINE goal == \A q \in Worker : CarriesWellFormed(task'[q], now)
<1>1. now \in Nat /\ now <= now /\ task[p] \in Task /\ CarriesWellFormed(task[p], now)
  BY DEF TypeOK, RowsWellFormed
<1>2. \A i \in AlertId : alerts[i] # NULL => alerts[i] \in Row /\ WellFormed(alerts[i], now)
  BY DEF TypeOK, RowsWellFormed
<1>3. ASSUME SweepLoad(p) PROVE goal
  <2> DEFINE due == findDueResolves(now)
             t == [Idle EXCEPT !.step = "announce", !.at = now, !.batch = due]
  <2>1. \A row \in due : WellFormed(row, now)
    BY <1>2 DEF findDueResolves
  <2>2. task' = [task EXCEPT ![p] = t]
    BY <1>3 DEF SweepLoad
  <2> HIDE DEF due
  <2>3. CarriesWellFormed(t, now)
    BY <1>1, <2>1, BatchCarries
  <2> HIDE DEF t
  <2>4. QED
    BY <2>2, <2>3, CarriesUpdate
<1>4. ASSUME NEW alert \in task[p].batch, Announce(p, alert) PROVE goal
  <2> DEFINE t == [task[p] EXCEPT !.step = "markNotified", !.batch = @ \ {alert},
                                  !.entity = alert]
  <2>1. CarriesWellFormed(t, now)
    BY <1>1 DEF CarriesWellFormed, Task
  <2>2. task' = [task EXCEPT ![p] = t]
    BY <1>4 DEF Announce
  <2> HIDE DEF t
  <2>3. QED
    BY <2>1, <2>2, CarriesUpdate
<1>5. ASSUME NEW alert \in task[p].batch, AnnounceFails(p, alert) PROVE goal
  <2>1. NextIn(p, "announce", task[p].batch \ {alert})
    BY <1>5 DEF AnnounceFails
  <2>2. task[p].batch \ {alert} \in SUBSET task[p].batch
    OBVIOUS
  <2>3. QED
    BY <2>1, <2>2, NextInCarries
<1>6. ASSUME Mark(p) \/ MarkFails(p) PROVE goal
  <2>1. NextIn(p, "announce", task[p].batch)
    BY <1>6 DEF Mark, MarkFails
  <2>2. QED
    BY <2>1, NextInCarries
<1>7. ASSUME NEW id \in AlertId, acknowledge(p, id) \/ resolve(p, id) PROVE goal
  <2>1. ASSUME NEW row, WellFormed(row, now),
               task' = [task EXCEPT ![p] = [Idle EXCEPT !.step = "saveAdmin", !.at = now,
                                                        !.entity = row]]
        PROVE  goal
    <3>1. CarriesWellFormed([Idle EXCEPT !.step = "saveAdmin", !.at = now,
                                         !.entity = row], now)
      BY <1>1, <2>1 DEF CarriesWellFormed, Idle
    <3>2. QED
      BY <2>1, <3>1, CarriesUpdate
  <2>2. alerts[id] # NULL
    BY <1>7 DEF acknowledge, resolve
  <2> DEFINE acked == [alerts[id] EXCEPT !.status = "acknowledged"]
             closed == [alerts[id] EXCEPT !.status = "resolved", !.resolvedAt = now]
  <2>3. WellFormed(acked, now) /\ WellFormed(closed, now)
    BY <1>1, <1>2, <2>2, ComputedWellFormed
  <2>4. \E row \in {acked, closed} :
           task' = [task EXCEPT ![p] = [Idle EXCEPT !.step = "saveAdmin", !.at = now,
                                                    !.entity = row]]
    BY <1>7 DEF acknowledge, resolve
  <2> HIDE DEF goal, acked, closed
  <2>5. QED
    BY <2>1, <2>3, <2>4
<1>8. ASSUME saveAdmin(p) \/ Notify(p) \/ Abort(p) PROVE goal
  <2>1. task' = [task EXCEPT ![p] = Idle]
    BY <1>8 DEF saveAdmin, Notify, Abort
  <2>2. QED
    BY <1>1, <2>1, IdleCarries, CarriesUpdate
<1> HIDE DEF goal
<1>9. QED
  BY <1>3, <1>4, <1>5, <1>6, <1>7, <1>8 DEF goal

(* Whatever a handler moves on to, what it carries is well formed. *)
LEMMA TasksWellFormed ==
    ASSUME TypeOK, RowsWellFormed, [Next]_vars
    PROVE  \A q \in Worker : CarriesWellFormed(task'[q], now)
<1>1. CASE UNCHANGED task
  BY <1>1 DEF RowsWellFormed
<1>2. UNCHANGED vars \/ Tick => UNCHANGED task
  BY DEF vars, Tick
<1>3. ASSUME NEW p \in Worker, SourceStep(p) \/ OperatorStep(p) \/ Sweep(p) PROVE \A q \in Worker : CarriesWellFormed(task'[q], now)
  <2>1. CASE SourceStep(p)
    BY <2>1, FireCarries, CloseCarries DEF SourceStep, Fire, Resolve, ResolveService
  <2>2. CASE OperatorStep(p)
    BY <2>2, FireCarries, OtherCarries DEF OperatorStep, Create, Acknowledge, ResolveById
  <2>3. CASE Sweep(p)
    BY <2>3, OtherCarries DEF Sweep
  <2>4. QED
    BY <1>3, <2>1, <2>2, <2>3
<1>4. ASSUME NEW p \in Worker, Continue(p) \/ Fail(p) PROVE \A q \in Worker : CarriesWellFormed(task'[q], now)
  <2>1. CASE FireFindPending(p) \/ FireSave(p) \/ FireConflict(p)
    BY <2>1, FireCarries DEF FireFindPending, FireSave, FireConflict
  <2>2. CASE SaveClosed(p) \/ ExpireFind(p) \/ ExpireSave(p) \/ ExpireFails(p)
    BY <2>2, CloseCarries DEF SaveClosed
  <2>3. CASE \/ Notify(p) \/ Mark(p) \/ MarkFails(p) \/ SaveAdmin(p) \/ Abort(p)
             \/ \E alert \in task[p].batch : Announce(p, alert) \/ AnnounceFails(p, alert)
    BY <2>3, OtherCarries DEF SaveAdmin
  <2>4. QED
    BY <1>4, <2>1, <2>2, <2>3 DEF Continue, Fail
<1>5. QED
  BY <1>1, <1>2, <1>3, <1>4 DEF Next

(* A clock that moves on leaves well formed what was. *)
LEMMA CarriesLater ==
    ASSUME NEW local \in Task, NEW t \in Nat, NEW u \in Nat, t <= u,
           CarriesWellFormed(local, t)
    PROVE  CarriesWellFormed(local, u)
<1>1. local.at \in Nat /\ local.batch \subseteq Row /\ local.entity \in Row \cup {NULL}
  BY DEF Task
<1>2. QED
  BY <1>1, WellFormedLater DEF CarriesWellFormed

(* However stale the entities that handlers write back whole, an open alert *)
(* never owes a recovery, a resolved one is dated and nothing is stamped in *)
(* the future (alerts.service.ts:55-170, 187-190, 221-263).                 *)
THEOREM WellFormedRows == Spec => []RowsWellFormed
<1>1. Init => RowsWellFormed
  BY IdleCarries DEF Init, RowsWellFormed
<1>2. TypeOK /\ RowsWellFormed /\ [Next]_vars => RowsWellFormed'
  <2> SUFFICES ASSUME TypeOK, RowsWellFormed, [Next]_vars
               PROVE  RowsWellFormed'
    OBVIOUS
  <2>1. TypeOK' /\ now \in Nat /\ now' \in Nat /\ now <= now'
    BY TypeStep, EnvironmentType DEF TypeOK
  <2>2. \A p \in Worker : task'[p] \in Task
    BY <2>1 DEF TypeOK
  <2>3. \A p \in Worker : CarriesWellFormed(task'[p], now')
    BY <2>1, <2>2, TasksWellFormed, CarriesLater
  <2>4. QED
    BY <2>3, TableWellFormed DEF RowsWellFormed
<1>3. QED
  BY <1>1, <1>2, TypeCorrect, PTL DEF Spec

-----------------------------------------------------------------------------
(* A row stays about its problem *)

(* A row read from a table is still of the row it was read from.            *)
Refers(row, table) ==
    row.id # NULL => /\ row.id \in AlertId /\ table[row.id] # NULL
                     /\ row.fingerprint = table[row.id].fingerprint
                     /\ row.service = table[row.id].service

CarriesReferring(local, table) ==
    /\ local.entity # NULL => Refers(local.entity, table)
    /\ \A row \in local.batch : Refers(row, table)

EveryoneRefers == \A p \in Worker : CarriesReferring(task[p], alerts)

KeepsProblems ==
    \A i \in AlertId :
        alerts[i] # NULL => /\ alerts'[i] # NULL
                            /\ alerts'[i].fingerprint = alerts[i].fingerprint
                            /\ alerts'[i].service = alerts[i].service

(* What fire, a close or an operator makes of a row is about its problem.   *)
LEMMA ComputedRefers ==
    ASSUME TypeOK, NEW i \in AlertId, alerts[i] # NULL, NEW t
    PROVE  /\ Refers(alerts[i], alerts)
           /\ Refers(Refreshed(alerts[i], t), alerts)
           /\ Refers(Reopened(alerts[i], t), alerts)
           /\ \A silent \in BOOLEAN : Refers(Closed(alerts[i], t, silent), alerts)
           /\ Refers([alerts[i] EXCEPT !.status = "acknowledged"], alerts)
           /\ Refers([alerts[i] EXCEPT !.status = "resolved", !.resolvedAt = t], alerts)
<1>1. alerts[i] \in Row /\ alerts[i].id = i
  BY DEF TypeOK
<1>2. /\ Refreshed(alerts[i], t).id = i
      /\ Refreshed(alerts[i], t).fingerprint = alerts[i].fingerprint
      /\ Refreshed(alerts[i], t).service = alerts[i].service
  <2> DEFINE counted == [alerts[i] EXCEPT !.occurrenceCount = NextOccurrence(@), !.lastFiredAt = t]
  <2>1. /\ counted.id = i /\ counted.fingerprint = alerts[i].fingerprint
        /\ counted.service = alerts[i].service
        /\ \A v : /\ [counted EXCEPT !.lastNotifiedAt = v].id = counted.id
                  /\ [counted EXCEPT !.lastNotifiedAt = v].fingerprint = counted.fingerprint
                  /\ [counted EXCEPT !.lastNotifiedAt = v].service = counted.service
    BY <1>1 DEF Row
  <2>2. \E v : Refreshed(alerts[i], t) = [counted EXCEPT !.lastNotifiedAt = v]
    BY DEF Refreshed
  <2> HIDE DEF counted
  <2>3. QED
    BY <2>1, <2>2
<1>3. /\ Reopened(alerts[i], t).id = i
      /\ Reopened(alerts[i], t).fingerprint = alerts[i].fingerprint
      /\ Reopened(alerts[i], t).service = alerts[i].service
  BY <1>1 DEF Reopened, Row
<1>4. \A silent \in BOOLEAN :
         /\ Closed(alerts[i], t, silent).id = i
         /\ Closed(alerts[i], t, silent).fingerprint = alerts[i].fingerprint
         /\ Closed(alerts[i], t, silent).service = alerts[i].service
  BY <1>1 DEF Closed, Row
<1>5. QED
  BY <1>1, <1>2, <1>3, <1>4 DEF Refers, Row

(* A new row refers to nothing yet.                                         *)
LEMMA NewRefers ==
    ASSUME NEW problem, NEW t PROVE Refers(NewAlert(problem, t), alerts)
  BY DEF NewAlert, Refers

(* The table keeps every row and what it is about.                          *)
LEMMA ProblemsKept ==
    ASSUME TypeOK, EveryoneRefers, [Next]_vars
    PROVE  KeepsProblems
<1>1. ASSUME NEW entity \in Row, Refers(entity, alerts), Save(entity) PROVE KeepsProblems
  <2> DEFINE id == SavedId(entity)
             saved == [entity EXCEPT !.id = id]
  <2>1. id \in AlertId /\ alerts' = [alerts EXCEPT ![id] = saved] /\ saved \in Row
    BY <1>1, SaveType
  <2>2. saved.fingerprint = entity.fingerprint /\ saved.service = entity.service /\ saved # NULL
    BY <2>1, NullAssumption DEF Row
  <2>3. alerts[id] # NULL => entity.id = id
    BY <1>1 DEF Save, HasRoom, SavedId
  <2>4. alerts \in [AlertId -> Row \cup {NULL}]
    BY DEF TypeOK
  <2>5. alerts[id] # NULL => /\ saved.fingerprint = alerts[id].fingerprint
                             /\ saved.service = alerts[id].service
    <3>1. entity.id # NULL => /\ entity.fingerprint = alerts[entity.id].fingerprint
                              /\ entity.service = alerts[entity.id].service
      BY <1>1 DEF Refers
    <3>2. id # NULL
      BY <2>1, ServiceAssumption
    <3> HIDE DEF id, saved
    <3>3. QED
      BY <2>2, <2>3, <3>1, <3>2
  <2> HIDE DEF id, saved
  <2>6. QED
    BY <2>1, <2>2, <2>4, <2>5 DEF KeepsProblems
<1>2. ASSUME NEW id, NEW t \in Nat, markResolveNotified(id, t) PROVE KeepsProblems
  <2>1. SUFFICES ASSUME NEW i \in AlertId, alerts[i] # NULL
                 PROVE  /\ alerts'[i] # NULL
                        /\ alerts'[i].fingerprint = alerts[i].fingerprint
                        /\ alerts'[i].service = alerts[i].service
    BY DEF KeepsProblems
  <2> DEFINE marked == [alerts[i] EXCEPT !.pendingResolveSince = NULL, !.lastNotifiedAt = t]
  <2>2. alerts[i] \in Row
    BY <2>1 DEF TypeOK
  <2>3. /\ marked.fingerprint = alerts[i].fingerprint /\ marked.service = alerts[i].service
        /\ marked.id = alerts[i].id
    BY <2>2 DEF Row
  <2>4. alerts'[i] = alerts[i] \/ alerts'[i] = marked
    BY <1>2, <2>1 DEF markResolveNotified
  <2>5. alerts[i] # NULL /\ marked # NULL
    BY <2>1, <2>2, MarkedType, NullAssumption
  <2> HIDE DEF marked
  <2>6. QED
    BY <2>3, <2>4, <2>5
<1>3. CASE UNCHANGED alerts
  BY <1>3 DEF KeepsProblems
<1>4. ASSUME NEW p \in Worker, task[p].entity \in Row, Save(task[p].entity) PROVE KeepsProblems
  BY <1>1, <1>4, NullAssumption DEF EveryoneRefers, CarriesReferring
<1>5. ASSUME NEW p \in Worker, NEW entity \in task[p].batch, entity \in Row, Save(entity)
      PROVE  KeepsProblems
  BY <1>1, <1>5 DEF EveryoneRefers, CarriesReferring
<1>6. \A p \in Worker : task[p].at \in Nat
  BY DEF TypeOK, Task
<1>7. QED
  BY <1>2, <1>3, <1>4, <1>5, <1>6, TableStep

(* What somebody carries refers to the table as it becomes, too.            *)
LEMMA RefersLater ==
    ASSUME KeepsProblems, NEW local, CarriesReferring(local, alerts)
    PROVE  CarriesReferring(local, alerts')
  BY DEF KeepsProblems, CarriesReferring, Refers

LEMMA RefersUpdate ==
    ASSUME TypeOK, EveryoneRefers, KeepsProblems, NEW p \in Worker, NEW t,
           CarriesReferring(t, alerts) \/ CarriesReferring(t, alerts'),
           task' = [task EXCEPT ![p] = t]
    PROVE  EveryoneRefers'
<1>1. CarriesReferring(t, alerts')
  BY RefersLater
<1>2. \A q \in Worker : CarriesReferring(task[q], alerts')
  BY RefersLater DEF EveryoneRefers
<1>3. QED
  BY <1>1, <1>2 DEF TypeOK, EveryoneRefers

LEMMA IdleRefers == CarriesReferring(Idle, alerts)
  BY DEF CarriesReferring, Idle

(* Whoever waits for a save, or works off a batch.                          *)
LEMMA HandedOn ==
    ASSUME NEW t, NEW n
    PROVE  /\ \A row, notify : Refers(row, alerts) => CarriesReferring(ToSave(t, row, notify), alerts)
           /\ \A batch : (\A row \in batch : Refers(row, alerts)) =>
                 CarriesReferring([Idle EXCEPT !.step = n, !.at = t, !.batch = batch], alerts)
           /\ \A row : Refers(row, alerts) =>
                 CarriesReferring([Idle EXCEPT !.step = n, !.at = t, !.entity = row], alerts)
  BY DEF CarriesReferring, ToSave, Idle

LEMMA NextInRefers ==
    ASSUME TypeOK, EveryoneRefers, KeepsProblems, NEW p \in Worker, NEW step,
           NEW rest \in SUBSET task[p].batch, NextIn(p, step, rest)
    PROVE  EveryoneRefers'
<1> DEFINE t == [Idle EXCEPT !.step = step, !.at = task[p].at, !.batch = rest]
<1>1. CarriesReferring(t, alerts)
  BY HandedOn DEF EveryoneRefers, CarriesReferring
<1>2. task' = [task EXCEPT ![p] = Idle] \/ task' = [task EXCEPT ![p] = t]
  BY DEF NextIn
<1> HIDE DEF t
<1>3. QED
  BY <1>1, <1>2, IdleRefers, RefersUpdate

LEMMA FireRefers ==
    ASSUME TypeOK, EveryoneRefers, KeepsProblems, NEW p \in Worker,
           \/ \E problem \in Problems : fire(p, problem)
           \/ fireFindPending(p) \/ fireSave(p) \/ fireConflict(p)
           \/ \E s \in Service : create(p, s)
    PROVE  EveryoneRefers'
<1>1. ASSUME NEW row, Refers(row, alerts), NEW t, NEW notify,
             task' = [task EXCEPT ![p] = ToSave(t, row, notify)]
      PROVE  EveryoneRefers'
  BY <1>1, HandedOn, RefersUpdate
<1>2. ASSUME NEW problem \in Problems, fire(p, problem) PROVE EveryoneRefers'
  <2>1. CASE task' = [task EXCEPT ![p] = ToSave(now, NewAlert(problem, now), TRUE)]
    BY <1>1, <2>1, NewRefers
  <2>2. ASSUME NEW i \in ActiveFor(problem.fingerprint), NEW notify,
               task' = [task EXCEPT ![p] = ToSave(now, Refreshed(alerts[i], now), notify)]
        PROVE  EveryoneRefers'
    BY <1>1, <2>2, ComputedRefers DEF ActiveFor
  <2>3. CASE task' = [task EXCEPT ![p] = [Idle EXCEPT !.step = "findPending",
                                                      !.at = now, !.problem = problem]]
    <3>1. CarriesReferring([Idle EXCEPT !.step = "findPending", !.at = now,
                                        !.problem = problem], alerts)
      BY DEF CarriesReferring, Idle
    <3>2. QED
      BY <2>3, <3>1, RefersUpdate
  <2>4. QED
    BY <1>2, <2>1, <2>2, <2>3 DEF fire
<1>3. ASSUME fireFindPending(p) PROVE EveryoneRefers'
  <2> DEFINE problem == task[p].problem
             t == task[p].at
  <2>1. CASE task' = [task EXCEPT ![p] = ToSave(t, NewAlert(problem, t), TRUE)]
    BY <1>1, <2>1, NewRefers
  <2>2. ASSUME NEW i \in LatestResolved(problem.fingerprint),
               task' = [task EXCEPT ![p] = ToSave(t, Reopened(alerts[i], t), FALSE)]
        PROVE  EveryoneRefers'
    BY <1>1, <2>2, ComputedRefers DEF LatestResolved, ResolvedFor
  <2>3. QED
    BY <1>3, <2>1, <2>2 DEF fireFindPending
<1>4. ASSUME fireSave(p) PROVE EveryoneRefers'
  <2> DEFINE entity == task[p].entity
             saved == [entity EXCEPT !.id = SavedId(entity)]
             told == [task[p] EXCEPT !.step = "notify", !.entity = saved]
  <2>1. entity \in Row
    BY <1>4 DEF fireSave, TypeOK, Task, LocalsOK
  <2>2. /\ SavedId(entity) \in AlertId /\ saved \in Row
        /\ alerts' = [alerts EXCEPT ![SavedId(entity)] = saved]
    BY <1>4, <2>1, SaveType DEF fireSave
  <2>3. alerts \in [AlertId -> Row \cup {NULL}] /\ task[p] \in Task
    BY DEF TypeOK
  <2>4. saved.id = SavedId(entity) /\ alerts'[SavedId(entity)] = saved /\ saved # NULL
    BY <2>1, <2>2, <2>3, NullAssumption DEF Row
  <2>5. task' = [task EXCEPT ![p] = told] \/ task' = [task EXCEPT ![p] = Idle]
    BY <1>4 DEF fireSave
  <2>6. Refers(saved, alerts')
    BY <2>2, <2>4 DEF Refers
  <2>7. CarriesReferring(task[p], alerts')
    BY RefersLater DEF EveryoneRefers
  <2> HIDE DEF saved
  <2>8. CarriesReferring(told, alerts')
    BY <2>3, <2>6, <2>7 DEF CarriesReferring, Task
  <2> HIDE DEF told
  <2>9. QED
    BY <2>5, <2>8, IdleRefers, RefersUpdate
<1>5. ASSUME fireConflict(p) PROVE EveryoneRefers'
  BY <1>5, IdleRefers, RefersUpdate DEF fireConflict
<1>6. ASSUME NEW s \in Service, create(p, s) PROVE EveryoneRefers'
  <2> DEFINE problem == [fingerprint |-> NULL, service |-> s]
  <2>1. task' = [task EXCEPT ![p] = ToSave(now, NewAlert(problem, now), FALSE)]
    BY <1>6 DEF create
  <2> HIDE DEF problem
  <2>2. QED
    BY <1>1, <2>1, NewRefers
<1>7. QED
  BY <1>2, <1>3, <1>4, <1>5, <1>6

LEMMA CloseRefers ==
    ASSUME TypeOK, EveryoneRefers, KeepsProblems, NEW p \in Worker,
           \/ \E f \in Fingerprint : resolveByFingerprint(p, f)
           \/ \E s \in Service : resolveByService(p, s)
           \/ saveClosed(p) \/ ExpireStale(p) \/ ExpireFind(p) \/ ExpireSave(p) \/ ExpireFails(p)
    PROVE  EveryoneRefers'
<1>1. ASSUME NEW step, NEW t, NEW batch, \A row \in batch : Refers(row, alerts),
             task' = [task EXCEPT ![p] = [Idle EXCEPT !.step = step, !.at = t, !.batch = batch]]
      PROVE  EveryoneRefers'
  BY <1>1, HandedOn, RefersUpdate
<1>2. ASSUME NEW f \in Fingerprint, resolveByFingerprint(p, f) PROVE EveryoneRefers'
  <2>1. CASE UNCHANGED task
    BY <2>1, RefersLater DEF EveryoneRefers
  <2>2. ASSUME NEW i \in ActiveFor(f),
               task' = [task EXCEPT ![p] = [Idle EXCEPT !.step = "saveClosed", !.at = now,
                                                        !.batch = {Closed(alerts[i], now, FALSE)}]]
        PROVE  EveryoneRefers'
    <3> DEFINE batch == {Closed(alerts[i], now, FALSE)}
    <3>1. \A row \in batch : Refers(row, alerts)
      BY ComputedRefers DEF ActiveFor
    <3>2. task' = [task EXCEPT ![p] = [Idle EXCEPT !.step = "saveClosed", !.at = now,
                                                   !.batch = batch]]
      BY <2>2
    <3> HIDE DEF batch
    <3>3. QED
      BY <1>1, <3>1, <3>2
  <2>3. QED
    BY <1>2, <2>1, <2>2 DEF resolveByFingerprint
<1>3. ASSUME NEW s \in Service, resolveByService(p, s) PROVE EveryoneRefers'
  <2> DEFINE active == {i \in AlertId : /\ alerts[i] # NULL /\ alerts[i].status = "active"
                                        /\ alerts[i].service = s}
             batch == {Closed(alerts[i], now, FALSE) : i \in active}
  <2>1. \A row \in batch : Refers(row, alerts)
    BY ComputedRefers
  <2>2. task' = [task EXCEPT ![p] = [Idle EXCEPT !.step = "saveClosed", !.at = now, !.batch = batch]]
    BY <1>3 DEF resolveByService
  <2> HIDE DEF batch
  <2>3. QED
    BY <1>1, <2>1, <2>2
<1>4. ASSUME saveClosed(p) PROVE EveryoneRefers'
  <2> PICK entity \in task[p].batch :
        task' = [task EXCEPT ![p] = IF task[p].batch = {entity} THEN Idle
                                    ELSE [task[p] EXCEPT !.batch = @ \ {entity}]]
    BY <1>4 DEF saveClosed
  <2> DEFINE t == [task[p] EXCEPT !.batch = @ \ {entity}]
  <2>1. CarriesReferring(t, alerts)
    BY DEF EveryoneRefers, CarriesReferring, TypeOK, Task
  <2>2. task' = [task EXCEPT ![p] = Idle] \/ task' = [task EXCEPT ![p] = t]
    OBVIOUS
  <2> HIDE DEF t
  <2>3. QED
    BY <2>1, <2>2, IdleRefers, RefersUpdate
<1>5. ASSUME ExpireStale(p) PROVE EveryoneRefers'
  <2>1. \A row \in findStale : Refers(row, alerts)
    BY ComputedRefers DEF findStale
  <2>2. QED
    BY <1>1, <1>5, <2>1 DEF ExpireStale
<1>6. ASSUME ExpireFind(p) PROVE EveryoneRefers'
  <2>1. PICK stale \in task[p].batch :
           \/ \E i \in ActiveFor(stale.fingerprint) :
                 task' = [task EXCEPT ![p] =
                             [task[p] EXCEPT !.step = "saveExpired",
                                             !.batch = @ \ {stale},
                                             !.entity = Closed(alerts[i], now, TRUE)]]
           \/ NextIn(p, "expire", task[p].batch \ {stale})
    BY <1>6 DEF ExpireFind
  <2>2. ASSUME NEW i \in ActiveFor(stale.fingerprint),
               task' = [task EXCEPT ![p] =
                           [task[p] EXCEPT !.step = "saveExpired",
                                           !.batch = @ \ {stale},
                                           !.entity = Closed(alerts[i], now, TRUE)]]
        PROVE  EveryoneRefers'
    <3> DEFINE closed == Closed(alerts[i], now, TRUE)
               t == [task[p] EXCEPT !.step = "saveExpired", !.batch = @ \ {stale}, !.entity = closed]
    <3>1. Refers(closed, alerts)
      BY ComputedRefers DEF ActiveFor
    <3>2. task' = [task EXCEPT ![p] = t]
      BY <2>2
    <3> HIDE DEF closed
    <3>3. CarriesReferring(t, alerts)
      BY <3>1 DEF EveryoneRefers, CarriesReferring, TypeOK, Task
    <3> HIDE DEF t
    <3>4. QED
      BY <3>2, <3>3, RefersUpdate
  <2>3. task[p].batch \ {stale} \in SUBSET task[p].batch
    OBVIOUS
  <2>4. QED
    BY <2>1, <2>2, <2>3, NextInRefers
<1>7. ASSUME ExpireSave(p) \/ ExpireFails(p) PROVE EveryoneRefers'
  <2>1. NextIn(p, "expire", task[p].batch)
    BY <1>7 DEF ExpireSave, ExpireFails
  <2>2. QED
    BY <2>1, NextInRefers
<1>8. QED
  BY <1>2, <1>3, <1>4, <1>5, <1>6, <1>7

LEMMA OtherRefers ==
    ASSUME TypeOK, EveryoneRefers, KeepsProblems, NEW p \in Worker,
           \/ SweepLoad(p) \/ Mark(p) \/ MarkFails(p)
           \/ \E alert \in task[p].batch : Announce(p, alert) \/ AnnounceFails(p, alert)
           \/ \E id \in AlertId : acknowledge(p, id) \/ resolve(p, id)
           \/ saveAdmin(p) \/ Notify(p) \/ Abort(p)
    PROVE  EveryoneRefers'
<1>1. ASSUME SweepLoad(p) PROVE EveryoneRefers'
  <2>1. \A row \in findDueResolves(now) : Refers(row, alerts)
    BY ComputedRefers DEF findDueResolves
  <2>2. CarriesReferring([Idle EXCEPT !.step = "announce", !.at = now,
                                      !.batch = findDueResolves(now)], alerts)
    BY <2>1, HandedOn
  <2>3. QED
    BY <1>1, <2>2, RefersUpdate DEF SweepLoad
<1>2. ASSUME NEW alert \in task[p].batch, Announce(p, alert) PROVE EveryoneRefers'
  <2> DEFINE t == [task[p] EXCEPT !.step = "markNotified", !.batch = @ \ {alert}, !.entity = alert]
  <2>1. CarriesReferring(t, alerts)
    BY DEF EveryoneRefers, CarriesReferring, TypeOK, Task
  <2>2. task' = [task EXCEPT ![p] = t]
    BY <1>2 DEF Announce
  <2> HIDE DEF t
  <2>3. QED
    BY <2>1, <2>2, RefersUpdate
<1>3. ASSUME NEW alert \in task[p].batch, AnnounceFails(p, alert) PROVE EveryoneRefers'
  <2>1. NextIn(p, "announce", task[p].batch \ {alert})
    BY <1>3 DEF AnnounceFails
  <2>2. task[p].batch \ {alert} \in SUBSET task[p].batch
    OBVIOUS
  <2>3. QED
    BY <2>1, <2>2, NextInRefers
<1>4. ASSUME Mark(p) \/ MarkFails(p) PROVE EveryoneRefers'
  <2>1. NextIn(p, "announce", task[p].batch)
    BY <1>4 DEF Mark, MarkFails
  <2>2. QED
    BY <2>1, NextInRefers
<1>5. ASSUME NEW id \in AlertId, acknowledge(p, id) \/ resolve(p, id) PROVE EveryoneRefers'
  <2>1. \E row : /\ Refers(row, alerts)
                 /\ task' = [task EXCEPT ![p] = [Idle EXCEPT !.step = "saveAdmin", !.at = now,
                                                             !.entity = row]]
    BY <1>5, ComputedRefers DEF acknowledge, resolve
  <2>2. QED
    BY <2>1, HandedOn, RefersUpdate
<1>6. ASSUME saveAdmin(p) \/ Notify(p) \/ Abort(p) PROVE EveryoneRefers'
  BY <1>6, IdleRefers, RefersUpdate DEF saveAdmin, Notify, Abort
<1>7. QED
  BY <1>1, <1>2, <1>3, <1>4, <1>5, <1>6

LEMMA RefersStep ==
    ASSUME TypeOK, EveryoneRefers, [Next]_vars
    PROVE  EveryoneRefers' /\ KeepsProblems
<1>1. KeepsProblems
  BY ProblemsKept
<1>2. CASE UNCHANGED task
  BY <1>1, <1>2, RefersLater DEF EveryoneRefers
<1>3. UNCHANGED vars \/ Tick => UNCHANGED task
  BY DEF vars, Tick
<1>4. ASSUME NEW p \in Worker, SourceStep(p) \/ OperatorStep(p) \/ Sweep(p) PROVE EveryoneRefers'
  <2>1. CASE SourceStep(p)
    BY <1>1, <2>1, FireRefers, CloseRefers DEF SourceStep, Fire, Resolve, ResolveService
  <2>2. CASE OperatorStep(p)
    BY <1>1, <2>2, FireRefers, OtherRefers DEF OperatorStep, Create, Acknowledge, ResolveById
  <2>3. CASE Sweep(p)
    BY <1>1, <2>3, OtherRefers DEF Sweep
  <2>4. QED
    BY <1>4, <2>1, <2>2, <2>3
<1>5. ASSUME NEW p \in Worker, Continue(p) \/ Fail(p) PROVE EveryoneRefers'
  <2>1. CASE FireFindPending(p) \/ FireSave(p) \/ FireConflict(p)
    BY <1>1, <2>1, FireRefers DEF FireFindPending, FireSave, FireConflict
  <2>2. CASE SaveClosed(p) \/ ExpireFind(p) \/ ExpireSave(p) \/ ExpireFails(p)
    BY <1>1, <2>2, CloseRefers DEF SaveClosed
  <2>3. CASE \/ Notify(p) \/ Mark(p) \/ MarkFails(p) \/ SaveAdmin(p) \/ Abort(p)
             \/ \E alert \in task[p].batch : Announce(p, alert) \/ AnnounceFails(p, alert)
    BY <1>1, <2>3, OtherRefers DEF SaveAdmin
  <2>4. QED
    BY <1>5, <2>1, <2>2, <2>3 DEF Continue, Fail
<1>6. QED
  BY <1>1, <1>2, <1>3, <1>4, <1>5 DEF Next

(* However many pods write entities back whole, and however stale: no row   *)
(* is lost, and none is ever overwritten with another problem's or moved to *)
(* another service (alerts.service.ts:55-263).                              *)
THEOREM RowsKeepTheirProblem == Spec => [][KeepsProblems]_vars
<1>1. Init => EveryoneRefers
  BY IdleRefers DEF Init, EveryoneRefers
<1>2. TypeOK /\ EveryoneRefers /\ [Next]_vars => EveryoneRefers' /\ [KeepsProblems]_vars
  BY RefersStep
<1>3. QED
  BY <1>1, <1>2, TypeCorrect, PTL DEF Spec
=============================================================================
