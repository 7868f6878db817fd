------------------------ MODULE AlertPromiseProofs -------------------------
(***************************************************************************)
(* Proofs about handlers that stay apart, in the sense of AlertProperties,  *)
(* for any policy, table, set of problems, workers, roles and bounds: that  *)
(* they keep AlertPromise through every failure, what the chat then knows,  *)
(* and when it hears a repeat.  Nothing in the code keeps handlers apart,   *)
(* so these theorems say what their overlaps can be blamed for; a service   *)
(* whose handlers never overlap is the one case in which they do stay       *)
(* apart.  The last section draws from AlertPromise what it promises of a   *)
(* recovery.                                                                *)
(***************************************************************************)
EXTENDS AlertLifecycleProofs

(* NULL is neither a row nor a problem. *)
USE NullAssumption DEF Time

(* One worker in every role: nothing ever overlaps. *)
Serial == \A p, q \in Worker : p = q

-----------------------------------------------------------------------------
(* The inductive invariant *)

Active(i) == alerts[i] # NULL /\ alerts[i].status = "active"

(* Row i owes a recovery whose window has passed at t. *)
Due(i, t) ==
    alerts[i] # NULL /\ alerts[i].status = "resolved" /\ isResolveDue(alerts[i], t)

(* What a handler holds is what the table still says, or will be saved over *)
(* a row that it may be saved over.                                         *)
SaveFiredFresh(t) ==
    /\ t.entity.status = "active" /\ t.entity.pendingResolveSince = NULL
    /\ t.entity.id # NULL =>
          /\ alerts[t.entity.id] # NULL
          /\ alerts[t.entity.id].fingerprint = t.entity.fingerprint
          /\ chat[t.entity.id].said # "up"
          /\ \/ alerts[t.entity.id].status = "active"
             \/ /\ alerts[t.entity.id].status = "resolved"
                /\ isFlapReopen(alerts[t.entity.id], t.at)

SaveClosedFresh(t) ==
    \A row \in t.batch : Active(row.id) /\ row = Closed(alerts[row.id], t.at, FALSE)

SaveExpiredFresh(t) ==
    /\ t.entity.id # NULL /\ Active(t.entity.id)
    /\ t.entity.status = "resolved" /\ t.entity.pendingResolveSince = NULL
    /\ t.entity.fingerprint = alerts[t.entity.id].fingerprint
    /\ t.entity.lastNotifiedAt = alerts[t.entity.id].lastNotifiedAt

AnnounceFresh(t) ==
    \A row \in t.batch : row = alerts[row.id] /\ Due(row.id, t.at)

MarkFresh(t) ==
    /\ t.entity = alerts[t.entity.id] /\ Due(t.entity.id, t.at)
    /\ chat[t.entity.id].said = "up"
    /\ t.entity \notin t.batch

SaveAdminFresh(t) ==
    /\ t.entity.id # NULL /\ alerts[t.entity.id] # NULL
    /\ t.entity.status \in {"acknowledged", "resolved"}
    /\ t.entity.fingerprint = alerts[t.entity.id].fingerprint
    /\ t.entity.pendingResolveSince = alerts[t.entity.id].pendingResolveSince
    /\ t.entity.lastNotifiedAt = alerts[t.entity.id].lastNotifiedAt

Fresh(t) ==
    /\ t.step = "saveFired" => SaveFiredFresh(t)
    /\ t.step = "notify" => Active(t.entity.id)
    /\ t.step = "saveClosed" => SaveClosedFresh(t)
    /\ t.step = "saveExpired" => SaveExpiredFresh(t)
    /\ t.step \in {"announce", "markNotified"} => AnnounceFresh(t)
    /\ t.step = "markNotified" => MarkFresh(t)
    /\ t.step = "saveAdmin" => SaveAdminFresh(t)

(* A row that still owes a recovery already announced is past its window,   *)
(* for a fire that looks for it too, hence never reopened.                  *)
Past(i) ==
    /\ isResolveDue(alerts[i], now)
    /\ \A p \in Worker :
          /\ task[p].step = "findPending"
          /\ task[p].problem.fingerprint = alerts[i].fingerprint
          => isResolveDue(alerts[i], task[p].at)

ChatFresh ==
    \A i \in AlertId :
        /\ alerts[i] = NULL => chat[i].said = "nothing"
        /\ Active(i) => chat[i].said # "up"
        /\ alerts[i] # NULL /\ alerts[i].pendingResolveSince # NULL /\ chat[i].said = "up"
              => Past(i)

FreshInv ==
    /\ TypeOK /\ RowsWellFormed
    /\ ChatFresh
    /\ \A p \in Worker : Fresh(task[p])

(* The rows that a handler writes or tells of from here on. *)
Uses(t, i) ==
    \/ /\ t.step \in {"saveFired", "notify", "saveExpired", "markNotified", "saveAdmin"}
       /\ t.entity.id = i
    \/ /\ t.step \in {"saveClosed", "announce", "markNotified"}
       /\ \E row \in t.batch : row.id = i

-----------------------------------------------------------------------------
(* Effects: what one step of a handler does to the table and the chat *)

SavesRow(i, row) ==
    alerts' = [alerts EXCEPT ![i] = row] /\ row.id = i /\ UNCHANGED chat

NoneOpen(f, i) ==
    f # NULL => \A j \in AlertId \ {i} : Active(j) => alerts[j].fingerprint # f

Opens(row) == row.status = "active" /\ row.pendingResolveSince = NULL

Inserts(i, row) == alerts[i] = NULL /\ Opens(row) /\ NoneOpen(row.fingerprint, i)

Same(i, row) == alerts[i] # NULL /\ row.fingerprint = alerts[i].fingerprint

Repeats(i, row) == Active(i) /\ Same(i, row) /\ Opens(row)

Reopens(i, row, t) ==
    /\ Same(i, row) /\ Opens(row) /\ NoneOpen(row.fingerprint, i)
    /\ alerts[i].status = "resolved" /\ isFlapReopen(alerts[i], t)
    /\ chat[i].said # "up"

Closes(i, row) == Active(i) /\ Same(i, row) /\ row.status = "resolved"

Operates(i, row) ==
    /\ Same(i, row)
    /\ row.status \in {"acknowledged", "resolved"}
    /\ row.pendingResolveSince = alerts[i].pendingResolveSince

Tells(i, what) == Tell(i, what) /\ UNCHANGED alerts

Settles(i, t) ==
    /\ Due(i, t) /\ chat[i].said = "up" /\ UNCHANGED chat
    /\ alerts' = [alerts EXCEPT ![i] = [alerts[i] EXCEPT !.pendingResolveSince = NULL,
                                                        !.lastNotifiedAt = t]]

SourceEffect(t) ==
    \/ \E i \in AlertId, row \in Row :
          /\ SavesRow(i, row)
          /\ \/ Inserts(i, row)
             \/ Uses(t, i) /\ (Repeats(i, row) \/ Reopens(i, row, t.at) \/ Closes(i, row))
    \/ \E i \in AlertId : Uses(t, i) /\ Active(i) /\ Tells(i, "down")

OperatorEffect(t) ==
    \E i \in AlertId, row \in Row : Uses(t, i) /\ SavesRow(i, row) /\ Operates(i, row)

Announces(i, t) == Due(i, t.at) /\ alerts[i] \in t.batch /\ Tells(i, "up")

SweepEffect(t) ==
    \E i \in AlertId : Uses(t, i) /\ (Announces(i, t) \/ Settles(i, t.at))

Effect(t) ==
    \/ UNCHANGED <<alerts, chat>>
    \/ SourceEffect(t)
    \/ OperatorEffect(t)
    \/ Sweeping(t) /\ SweepEffect(t)

(* What every lemma below starts from. *)
LEMMA Basics ==
    ASSUME FreshInv, NEW p \in Worker
    PROVE  /\ task[p] \in Task /\ LocalsOK(task[p]) /\ Fresh(task[p])
           /\ task[p].at \in Nat /\ now \in Nat /\ task[p].at <= now
           /\ task[p].batch \subseteq Row
           /\ task[p].entity # NULL => task[p].entity \in Row
           /\ CarriesWellFormed(task[p], now)
  BY DEF FreshInv, TypeOK, RowsWellFormed, CarriesWellFormed, Task

(* And about a row. *)
LEMMA Rows ==
    ASSUME FreshInv, NEW i \in AlertId, alerts[i] # NULL
    PROVE  alerts[i] \in Row /\ alerts[i].id = i /\ WellFormed(alerts[i], now)
  BY DEF FreshInv, TypeOK, RowsWellFormed

(* The primary keys that rows carry. *)
LEMMA RowId == ASSUME NEW row \in Row, row.id # NULL PROVE row.id \in AlertId
  BY DEF Row

(* The save at the end of fire inserts, repeats or reopens. *)
LEMMA FireSaveEffect ==
    ASSUME FreshInv, NEW p \in Worker, FireSave(p)
    PROVE  Effect(task[p])
<1> DEFINE entity == task[p].entity
           id == SavedId(entity)
           saved == [entity EXCEPT !.id = id]
<1>1. /\ task[p].step = "saveFired" /\ Save(entity) /\ UNCHANGED chat
      /\ entity \in Row /\ SaveFiredFresh(task[p])
  BY Basics, Rows DEF FireSave, fireSave, Fresh, LocalsOK
<1>2. /\ id \in AlertId /\ saved \in Row
      /\ alerts' = [alerts EXCEPT ![id] = saved]
  BY <1>1, SaveType DEF FreshInv
<1>3. /\ saved.id = id /\ saved.status = entity.status
      /\ saved.fingerprint = entity.fingerprint
      /\ saved.pendingResolveSince = entity.pendingResolveSince
  BY <1>1 DEF Row
<1>4. SavesRow(id, saved) /\ Opens(saved)
  BY <1>1, <1>2, <1>3 DEF SavesRow, Opens, SaveFiredFresh
<1>5. NoneOpen(saved.fingerprint, id)
  <2>1. entity.fingerprint # NULL => ActiveFor(entity.fingerprint) \ {entity.id} = {}
    BY <1>1 DEF Save, ViolatesUniqueIndex, SaveFiredFresh
  <2>2. entity.id # NULL => id = entity.id
    BY DEF SavedId
  <2>3. entity.id = NULL => entity.id \notin AlertId
    BY ServiceAssumption
  <2>4. QED
    BY <1>3, <2>1, <2>2, <2>3 DEF NoneOpen, Active, ActiveFor
<1>6. Inserts(id, saved) \/ Repeats(id, saved) \/ Reopens(id, saved, task[p].at)
  <2>1. CASE entity.id = NULL
    <3>1. alerts[id] = NULL
      BY <1>1, <2>1 DEF Save, HasRoom, SavedId
    <3>2. QED
      BY <1>4, <1>5, <3>1 DEF Inserts
  <2>2. CASE entity.id # NULL
    <3>1. id = entity.id
      BY <2>2 DEF SavedId
    <3>2. QED
      BY <1>1, <1>3, <1>4, <1>5, <2>2, <3>1
         DEF SaveFiredFresh, Same, Repeats, Reopens, Active
  <2>3. QED
    BY <2>1, <2>2
<1>7. Inserts(id, saved) \/ Uses(task[p], id)
  <2>1. CASE entity.id = NULL
    BY <1>1, <1>4, <1>5, <2>1 DEF Save, HasRoom, SavedId, Inserts
  <2>2. CASE entity.id # NULL
    BY <1>1, <2>2 DEF SavedId, Uses
  <2>3. QED
    BY <2>1, <2>2
<1> HIDE DEF id, saved
<1>8. QED
  BY <1>2, <1>4, <1>6, <1>7 DEF Effect, SourceEffect

(* The other saves. *)
LEMMA OtherSaveEffect ==
    ASSUME FreshInv, NEW p \in Worker, SaveClosed(p) \/ ExpireSave(p) \/ SaveAdmin(p)
    PROVE  Effect(task[p])
<1>1. ASSUME NEW entity \in Row, entity.id # NULL, Save(entity), UNCHANGED chat
      PROVE  /\ entity.id \in AlertId
             /\ SavesRow(entity.id, entity)
  <2>1. SavedId(entity) = entity.id /\ [entity EXCEPT !.id = entity.id] = entity
    BY <1>1 DEF SavedId, Row
  <2>2. QED
    BY <1>1, <2>1, RowId DEF Save, SavesRow
<1>2. CASE SaveClosed(p)
  <2>1. PICK entity \in task[p].batch : task[p].step = "saveClosed" /\ Save(entity)
    BY <1>2 DEF SaveClosed, saveClosed
  <2>2. /\ entity \in Row /\ entity.id # NULL /\ UNCHANGED chat
        /\ Active(entity.id) /\ entity = Closed(alerts[entity.id], task[p].at, FALSE)
    BY <1>2, <2>1, Basics, Rows DEF SaveClosed, Fresh, SaveClosedFresh, LocalsOK
  <2>3. entity.id \in AlertId /\ SavesRow(entity.id, entity)
    BY <1>1, <2>1, <2>2
  <2>4. alerts[entity.id] \in Row
    BY <2>2, <2>3, Basics, Rows DEF Active
  <2>5. Closes(entity.id, entity)
    <3>1. /\ entity.status = Closed(alerts[entity.id], task[p].at, FALSE).status
          /\ entity.fingerprint = Closed(alerts[entity.id], task[p].at, FALSE).fingerprint
      BY <2>2
    <3>2. QED
      BY <2>2, <2>4, <3>1 DEF Closes, Same, Active, Closed, Row
  <2>6. QED
    BY <2>1, <2>2, <2>3, <2>5 DEF Effect, SourceEffect, Uses
<1>3. CASE ExpireSave(p)
  <2>1. /\ task[p].step = "saveExpired" /\ Save(task[p].entity) /\ UNCHANGED chat
        /\ task[p].entity \in Row /\ SaveExpiredFresh(task[p])
    BY <1>3, Basics, Rows DEF ExpireSave, Fresh, LocalsOK
  <2>2. /\ task[p].entity.id \in AlertId
        /\ SavesRow(task[p].entity.id, task[p].entity)
    BY <1>1, <2>1 DEF SaveExpiredFresh
  <2>3. Closes(task[p].entity.id, task[p].entity)
    BY <2>1 DEF Closes, Same, Active, SaveExpiredFresh
  <2>4. QED
    BY <2>1, <2>2, <2>3 DEF Effect, SourceEffect, Uses
<1>4. CASE SaveAdmin(p)
  <2>1. /\ task[p].step = "saveAdmin" /\ Save(task[p].entity) /\ UNCHANGED chat
        /\ task[p].entity \in Row /\ SaveAdminFresh(task[p])
    BY <1>4, Basics, Rows DEF SaveAdmin, saveAdmin, Fresh, LocalsOK
  <2>2. /\ task[p].entity.id \in AlertId
        /\ SavesRow(task[p].entity.id, task[p].entity)
    BY <1>1, <2>1 DEF SaveAdminFresh
  <2>3. Operates(task[p].entity.id, task[p].entity)
    BY <2>1 DEF Operates, Same, SaveAdminFresh
  <2>4. QED
    BY <2>1, <2>2, <2>3 DEF Effect, OperatorEffect, Uses
<1>5. QED
  BY <1>2, <1>3, <1>4

(* Sends and the delivery mark. *)
LEMMA SendEffect ==
    ASSUME FreshInv, NEW p \in Worker,
           \/ Notify(p) \/ Mark(p)
           \/ \E alert \in task[p].batch : Announce(p, alert) \/ AnnounceFails(p, alert)
    PROVE  Effect(task[p])
<1>1. CASE Notify(p)
  <2>1. task[p].step = "notify" /\ Active(task[p].entity.id) /\ Tells(task[p].entity.id, "down")
    BY <1>1, Basics, Rows DEF Notify, Fresh, Tells
  <2>2. task[p].entity.id \in AlertId
    BY <2>1, Basics, Rows, RowId DEF LocalsOK
  <2>3. QED
    BY <2>1, <2>2 DEF Effect, SourceEffect, Uses
<1>2. ASSUME NEW alert \in task[p].batch, Announce(p, alert) \/ AnnounceFails(p, alert)
      PROVE  Effect(task[p])
  <2>1. /\ task[p].step = "announce"
        /\ UNCHANGED <<alerts, chat>> \/ Tells(alert.id, "up")
    BY <1>2 DEF Announce, AnnounceFails, Tells
  <2>2. alert.id \in AlertId /\ Due(alert.id, task[p].at) /\ alert = alerts[alert.id]
    BY <2>1, Basics, Rows, RowId DEF LocalsOK, Fresh, AnnounceFresh
  <2>3. Uses(task[p], alert.id)
    BY <1>2, <2>1 DEF Uses
  <2>4. Effect(task[p])
    <3>1. CASE UNCHANGED <<alerts, chat>>
      BY <3>1 DEF Effect
    <3>2. CASE Tells(alert.id, "up")
      BY <1>2, <2>1, <2>2, <2>3, <3>2 DEF Effect, SweepEffect, Announces, Sweeping
    <3>3. QED
      BY <2>1, <3>1, <3>2
  <2>5. QED
    BY <2>4
<1>3. CASE Mark(p)
  <2> DEFINE id == task[p].entity.id
  <2>1. /\ task[p].step = "markNotified" /\ UNCHANGED chat
        /\ markResolveNotified(id, task[p].at) /\ MarkFresh(task[p])
    BY <1>3, Basics, Rows DEF Mark, Fresh
  <2>2. id \in AlertId
    BY <2>1, Basics, Rows, RowId DEF LocalsOK
  <2>3. Settles(id, task[p].at)
    <3>1. id \in AlertId /\ alerts[id] # NULL /\ alerts \in [AlertId -> Row \cup {NULL}]
      BY <2>1, <2>2 DEF MarkFresh, Due, FreshInv, TypeOK
    <3>2. alerts' = [alerts EXCEPT ![id] = [alerts[id] EXCEPT !.pendingResolveSince = NULL,
                                                              !.lastNotifiedAt = task[p].at]]
      BY <2>1, <3>1 DEF markResolveNotified
    <3>3. QED
      BY <2>1, <3>2 DEF MarkFresh, Settles
  <2>4. Uses(task[p], id)
    BY <2>1 DEF Uses
  <2>5. QED
    BY <2>1, <2>2, <2>3, <2>4 DEF Effect, SweepEffect, Sweeping
<1>4. QED
  BY <1>1, <1>2, <1>3

(* Every step of a handler in flight has one of these effects. *)
LEMMA ContinueEffect ==
    ASSUME FreshInv, NEW p \in Worker, Continue(p) \/ Fail(p)
    PROVE  Effect(task[p])
<1>1. CASE \/ FireFindPending(p) \/ FireConflict(p) \/ ExpireFind(p)
           \/ Abort(p) \/ ExpireFails(p) \/ MarkFails(p)
  BY <1>1 DEF FireFindPending, fireFindPending, FireConflict, fireConflict, ExpireFind,
              Abort, ExpireFails, MarkFails, Effect
<1>2. CASE FireSave(p)
  BY <1>2, FireSaveEffect
<1>3. CASE SaveClosed(p) \/ ExpireSave(p) \/ SaveAdmin(p)
  BY <1>3, OtherSaveEffect
<1>4. CASE \/ Notify(p) \/ Mark(p)
           \/ \E alert \in task[p].batch : Announce(p, alert) \/ AnnounceFails(p, alert)
  BY <1>4, SendEffect
<1>5. QED
  BY <1>1, <1>2, <1>3, <1>4 DEF Continue, Fail

-----------------------------------------------------------------------------
(* What a handler moves on to is fresh *)

Others(p) == \A q \in Worker \ {p} : task'[q] = task[q]

GoesOn(p) ==
    /\ Others(p)
    /\ task'[p].step # "findPending"
    /\ task'[p].step # "idle" => task[p].step # "idle" /\ task'[p].at = task[p].at

Starts(p) ==
    /\ Others(p)
    /\ task'[p].step # "idle" => task'[p].at = now

(* A handler that is done, or is still looking, holds nothing. *)
LEMMA NothingHeld ==
    ASSUME NEW p \in Worker, task'[p].step \in {"idle", "findPending", "expire"}
    PROVE  Fresh(task[p])'
  BY DEF Fresh

(* One worker's task changes. *)
LEMMA OneTask ==
    ASSUME TypeOK, NEW p \in Worker, NEW u, task' = [task EXCEPT ![p] = u]
    PROVE  task'[p] = u /\ Others(p)
  BY DEF TypeOK, Others

(* Aborting, or being done. *)
LEMMA EndsFresh ==
    ASSUME FreshInv, NEW p \in Worker, task' = [task EXCEPT ![p] = Idle]
    PROVE  Fresh(task[p])' /\ GoesOn(p) /\ task'[p] = Idle
<1>1. task'[p] = Idle /\ Others(p)
  BY OneTask DEF FreshInv
<1>2. Idle.step = "idle"
  BY DEF Idle
<1>3. QED
  BY <1>1, <1>2, NothingHeld DEF GoesOn

(* Going on with a loop. *)
LEMMA NextInTask ==
    ASSUME FreshInv, NEW p \in Worker, NEW step, NEW rest, NextIn(p, step, rest),
           task[p].step # "idle", step # "findPending"
    PROVE  /\ GoesOn(p)
           /\ task'[p].step # "idle" =>
                 task'[p].step = step /\ task'[p].batch = rest /\ task'[p].at = task[p].at
<1> DEFINE u == [Idle EXCEPT !.step = step, !.at = task[p].at, !.batch = rest]
<1>1. task' = [task EXCEPT ![p] = Idle] \/ task' = [task EXCEPT ![p] = u]
  BY DEF NextIn
<1>2. u.step = step /\ u.at = task[p].at /\ u.batch = rest /\ Idle.step = "idle"
  BY DEF Idle
<1> HIDE DEF u
<1>3. Others(p) /\ task'[p] \in {Idle, u}
  BY <1>1, OneTask DEF FreshInv
<1>4. QED
  BY <1>2, <1>3 DEF GoesOn

(* What fire computes may be saved over the row it read. *)
LEMMA SavingFresh ==
    ASSUME FreshInv, UNCHANGED <<alerts, chat>>, NEW p \in Worker, NEW t \in Nat,
           NEW row \in Row, NEW notify,
           task' = [task EXCEPT ![p] = ToSave(t, row, notify)],
           Opens(row),
           row.id # NULL => /\ row.id \in AlertId /\ Same(row.id, row)
                            /\ chat[row.id].said # "up"
                            /\ \/ Active(row.id)
                               \/ /\ alerts[row.id].status = "resolved"
                                  /\ isFlapReopen(alerts[row.id], t)
    PROVE  /\ Fresh(task[p])' /\ Others(p) /\ task'[p].at = t
           /\ task'[p].step = "saveFired" /\ task'[p].entity = row /\ task'[p].notify = notify
<1> DEFINE u == ToSave(t, row, notify)
<1>1. u.step = "saveFired" /\ u.at = t /\ u.entity = row /\ u.notify = notify
  BY DEF ToSave, Idle
<1> HIDE DEF u
<1>2. task'[p] = u /\ Others(p)
  BY OneTask DEF FreshInv, u
<1>3. SaveFiredFresh(task[p])'
  BY <1>1, <1>2 DEF SaveFiredFresh, Opens, Same, Active
<1>4. Fresh(task[p])'
  BY <1>1, <1>2, <1>3 DEF Fresh
<1>5. QED
  BY <1>1, <1>2, <1>4

(* A repeat refreshes the row, and tells its caller to send exactly if it   *)
(* stamped the row as notified.                                             *)
LEMMA RefreshedKeeps ==
    ASSUME NEW row \in Row, NEW t \in Nat
    PROVE  /\ Refreshed(row, t).status = row.status
           /\ Refreshed(row, t).fingerprint = row.fingerprint
           /\ Refreshed(row, t).pendingResolveSince = row.pendingResolveSince
           /\ Refreshed(row, t).occurrenceCount = NextOccurrence(row.occurrenceCount)
           /\ Refreshed(row, t).lastNotifiedAt =
                 LET counted == [row EXCEPT !.occurrenceCount = NextOccurrence(@)]
                 IN  IF shouldNotifyRepeat(counted, t) THEN t ELSE row.lastNotifiedAt
<1> DEFINE counted == [row EXCEPT !.occurrenceCount = NextOccurrence(@)]
           stamped == [row EXCEPT !.occurrenceCount = NextOccurrence(@), !.lastFiredAt = t]
           n == IF shouldNotifyRepeat(stamped, t) THEN t ELSE stamped.lastNotifiedAt
<1>1. /\ stamped \in Row
      /\ stamped.status = row.status /\ stamped.fingerprint = row.fingerprint
      /\ stamped.pendingResolveSince = row.pendingResolveSince
      /\ stamped.lastNotifiedAt = row.lastNotifiedAt
      /\ counted.lastNotifiedAt = row.lastNotifiedAt
      /\ stamped.occurrenceCount = counted.occurrenceCount
      /\ stamped.occurrenceCount = NextOccurrence(row.occurrenceCount)
  BY NextOccurrenceType DEF Row
<1>2. shouldNotifyRepeat(stamped, t) <=> shouldNotifyRepeat(counted, t)
  <2> HIDE DEF stamped, counted
  <2>1. QED
    BY <1>1 DEF shouldNotifyRepeat
<1>3. Refreshed(row, t) = [stamped EXCEPT !.lastNotifiedAt = n]
  BY DEF Refreshed
<1>4. n = IF shouldNotifyRepeat(counted, t) THEN t ELSE row.lastNotifiedAt
  BY <1>1, <1>2
<1> HIDE DEF stamped, n, counted
<1>5. /\ [stamped EXCEPT !.lastNotifiedAt = n].status = stamped.status
      /\ [stamped EXCEPT !.lastNotifiedAt = n].fingerprint = stamped.fingerprint
      /\ [stamped EXCEPT !.lastNotifiedAt = n].pendingResolveSince
             = stamped.pendingResolveSince
      /\ [stamped EXCEPT !.lastNotifiedAt = n].occurrenceCount = stamped.occurrenceCount
      /\ [stamped EXCEPT !.lastNotifiedAt = n].lastNotifiedAt = n
  BY <1>1 DEF Row
<1>6. QED
  BY <1>1, <1>3, <1>4, <1>5 DEF counted

(* The first step of fire. *)
LEMMA FireFresh ==
    ASSUME FreshInv, NEW p \in Worker,
           \/ \E problem \in Problems : Fire(p, problem)
           \/ \E s \in Service : Create(p, s)
    PROVE  Fresh(task[p])' /\ Starts(p)
<1>1. now \in Nat /\ UNCHANGED <<alerts, chat>>
  BY DEF FreshInv, TypeOK, Fire, fire, Create, create
<1>2. ASSUME NEW problem \in Problem, NEW notify,
             task' = [task EXCEPT ![p] = ToSave(now, NewAlert(problem, now), notify)]
      PROVE  Fresh(task[p])' /\ Starts(p)
  <2>1. NewAlert(problem, now) \in Row /\ NewAlert(problem, now).id = NULL
    BY <1>1, NewAlertType
  <2>2. Opens(NewAlert(problem, now))
    BY DEF Opens, NewAlert
  <2>3. QED
    BY <1>1, <1>2, <2>1, <2>2, SavingFresh DEF Starts
<1>3. ASSUME NEW problem \in Problems, Fire(p, problem)
      PROVE  Fresh(task[p])' /\ Starts(p)
  <2>1. problem \in Problem
    BY ServiceAssumption
  <2>2. CASE task' = [task EXCEPT ![p] = ToSave(now, NewAlert(problem, now), TRUE)]
    BY <1>2, <2>1, <2>2
  <2>3. ASSUME NEW i \in ActiveFor(problem.fingerprint), NEW notify,
               task' = [task EXCEPT ![p] = ToSave(now, Refreshed(alerts[i], now), notify)]
        PROVE  Fresh(task[p])' /\ Starts(p)
    <3>1. alerts[i] \in Row /\ alerts[i].id = i /\ i \in AlertId /\ Active(i)
      BY Basics, Rows DEF ActiveFor, Active
    <3>2. alerts[i].pendingResolveSince = NULL
      BY <3>1, Basics, Rows DEF WellFormed, Active
    <3>3. Refreshed(alerts[i], now) \in Row /\ Refreshed(alerts[i], now).id = i
      BY <1>1, <3>1, RefreshedType
    <3>4. Opens(Refreshed(alerts[i], now)) /\ Same(i, Refreshed(alerts[i], now))
      BY <1>1, <3>1, <3>2, RefreshedKeeps DEF Opens, Same, Active
    <3> DEFINE row == Refreshed(alerts[i], now)
    <3>5. /\ row \in Row /\ Opens(row) /\ task' = [task EXCEPT ![p] = ToSave(now, row, notify)]
          /\ row.id \in AlertId /\ Same(row.id, row) /\ Active(row.id)
          /\ chat[row.id].said # "up"
      BY <2>3, <3>1, <3>3, <3>4 DEF FreshInv, ChatFresh
    <3> HIDE DEF row
    <3>6. QED
      BY <1>1, <3>5, SavingFresh DEF Starts
  <2>4. CASE task' = [task EXCEPT ![p] = [Idle EXCEPT !.step = "findPending",
                                                      !.at = now, !.problem = problem]]
    <3> DEFINE u == [Idle EXCEPT !.step = "findPending", !.at = now, !.problem = problem]
    <3>1. u.step = "findPending" /\ u.at = now
      BY DEF Idle
    <3> HIDE DEF u
    <3>2. task'[p] = u /\ Others(p)
      BY <2>4, OneTask DEF FreshInv, u
    <3>3. QED
      BY <3>1, <3>2, NothingHeld DEF Starts
  <2>5. QED
    BY <1>3, <2>2, <2>3, <2>4 DEF Fire, fire
<1>4. ASSUME NEW s \in Service, Create(p, s)
      PROVE  Fresh(task[p])' /\ Starts(p)
  <2> DEFINE problem == [fingerprint |-> NULL, service |-> s]
  <2>1. problem \in Problem
    BY DEF Problem
  <2>2. task' = [task EXCEPT ![p] = ToSave(now, NewAlert(problem, now), FALSE)]
    BY <1>4 DEF Create, create
  <2> HIDE DEF problem
  <2>3. QED
    BY <1>2, <2>1, <2>2
<1>5. QED
  BY <1>3, <1>4

(* The second lookup of fire. *)
LEMMA FindPendingFresh ==
    ASSUME FreshInv, NEW p \in Worker, FireFindPending(p)
    PROVE  Fresh(task[p])' /\ GoesOn(p)
<1> DEFINE problem == task[p].problem
           t == task[p].at
<1>1. /\ task[p].step = "findPending" /\ t \in Nat /\ problem \in Problem
      /\ UNCHANGED <<alerts, chat>>
  BY Basics, Rows DEF FireFindPending, fireFindPending, Task, LocalsOK
<1>2. CASE task' = [task EXCEPT ![p] = ToSave(t, NewAlert(problem, t), TRUE)]
  <2>1. NewAlert(problem, t) \in Row /\ NewAlert(problem, t).id = NULL
    BY <1>1, NewAlertType
  <2>2. Opens(NewAlert(problem, t))
    BY DEF Opens, NewAlert
  <2> HIDE DEF problem, t
  <2>3. Fresh(task[p])' /\ Others(p) /\ task'[p].at = t /\ task'[p].step = "saveFired"
    BY <1>1, <1>2, <2>1, <2>2, SavingFresh
  <2>4. QED
    BY <1>1, <2>3 DEF GoesOn, t
<1>3. ASSUME NEW i \in LatestResolved(problem.fingerprint), isFlapReopen(alerts[i], t),
             task' = [task EXCEPT ![p] = ToSave(t, Reopened(alerts[i], t), FALSE)]
      PROVE  Fresh(task[p])' /\ GoesOn(p)
  <2>1. alerts[i] \in Row /\ alerts[i].id = i /\ i \in AlertId /\ alerts[i].status = "resolved"
    BY Basics, Rows DEF LatestResolved, ResolvedFor
  <2>2. Reopened(alerts[i], t) \in Row /\ Reopened(alerts[i], t).id = i
    BY <1>1, <2>1, ReopenedType
  <2>3. Opens(Reopened(alerts[i], t)) /\ Same(i, Reopened(alerts[i], t))
    BY <2>1 DEF Opens, Same, Reopened, Row
  <2>4. chat[i].said # "up"
    <3>1. task[p].problem.fingerprint = alerts[i].fingerprint
          /\ alerts[i].pendingResolveSince # NULL
      BY <1>3 DEF LatestResolved, ResolvedFor, isFlapReopen
    <3>2. QED
      BY <1>1, <1>3, <2>1, <3>1 DEF FreshInv, ChatFresh, Past, isResolveDue
  <2> DEFINE row == Reopened(alerts[i], t)
  <2>5. row \in Row /\ Opens(row) /\ task' = [task EXCEPT ![p] = ToSave(t, row, FALSE)]
    BY <1>3, <2>2, <2>3
  <2>6. /\ row.id \in AlertId /\ Same(row.id, row) /\ chat[row.id].said # "up"
        /\ alerts[row.id].status = "resolved" /\ isFlapReopen(alerts[row.id], t)
    BY <1>3, <2>1, <2>2, <2>3, <2>4
  <2> HIDE DEF problem, t, row
  <2>7. Fresh(task[p])' /\ Others(p) /\ task'[p].at = t /\ task'[p].step = "saveFired"
    BY <1>1, <2>5, <2>6, SavingFresh
  <2>8. QED
    BY <1>1, <2>7 DEF GoesOn, t
<1>4. QED
  BY <1>2, <1>3 DEF FireFindPending, fireFindPending

(* The save of fire, whose caller then sends. *)
LEMMA FireSaveFresh ==
    ASSUME FreshInv, NEW p \in Worker, FireSave(p)
    PROVE  Fresh(task[p])' /\ GoesOn(p)
<1> DEFINE entity == task[p].entity
           id == SavedId(entity)
           saved == [entity EXCEPT !.id = id]
           u == [task[p] EXCEPT !.step = "notify", !.entity = saved]
<1>1. task[p].step = "saveFired" /\ Save(entity) /\ entity \in Row /\ SaveFiredFresh(task[p])
  BY Basics, Rows DEF FireSave, fireSave, LocalsOK, Fresh
<1>2. id \in AlertId /\ saved \in Row /\ alerts' = [alerts EXCEPT ![id] = saved]
  BY <1>1, SaveType DEF FreshInv
<1>3. saved.id = id /\ saved.status = "active"
  BY <1>1 DEF Row, SaveFiredFresh
<1>4. task' = [task EXCEPT ![p] = u] \/ task' = [task EXCEPT ![p] = Idle]
  BY DEF FireSave, fireSave
<1>5. alerts'[id] = saved
  BY <1>2 DEF FreshInv, TypeOK
<1> HIDE DEF saved, id
<1>6. u.step = "notify" /\ u.at = task[p].at /\ u.entity = saved
  BY Basics, Rows DEF Task
<1> HIDE DEF u
<1>7. CASE task' = [task EXCEPT ![p] = u]
  <2>1. task'[p] = u /\ Others(p)
    BY <1>7, OneTask DEF FreshInv
  <2>2. saved # NULL
    BY <1>2
  <2>3. Active(task[p].entity.id)'
    BY <1>3, <1>5, <1>6, <2>1, <2>2 DEF Active
  <2>4. QED
    BY <1>1, <1>6, <2>1, <2>3 DEF Fresh, GoesOn
<1>8. QED
  BY <1>4, <1>7, EndsFresh

(* What resolving will close is open, and closed as it is read. *)
LEMMA ClosingFresh ==
    ASSUME FreshInv, UNCHANGED <<alerts, chat>>, NEW p \in Worker,
           NEW ids \in SUBSET AlertId, \A i \in ids : Active(i),
           task' = [task EXCEPT ![p] =
                       [Idle EXCEPT !.step = "saveClosed", !.at = now,
                                    !.batch = {Closed(alerts[i], now, FALSE) : i \in ids}]]
    PROVE  Fresh(task[p])' /\ Starts(p)
<1> DEFINE batch == {Closed(alerts[i], now, FALSE) : i \in ids}
           u == [Idle EXCEPT !.step = "saveClosed", !.at = now, !.batch = batch]
<1>1. \A row \in batch : Active(row.id) /\ row = Closed(alerts[row.id], now, FALSE)
  <2> SUFFICES ASSUME NEW i \in ids
               PROVE  Closed(alerts[i], now, FALSE).id = i
    OBVIOUS
  <2>1. alerts[i] \in Row /\ alerts[i].id = i
    BY Basics, Rows DEF Active
  <2>2. QED
    BY <2>1, Basics, Rows, ClosedType
<1>2. task' = [task EXCEPT ![p] = u]
  OBVIOUS
<1> HIDE DEF batch
<1>3. u.step = "saveClosed" /\ u.at = now /\ u.batch = batch
  BY DEF Idle
<1> HIDE DEF u
<1>4. task'[p] = u /\ Others(p)
  BY <1>2, OneTask DEF FreshInv
<1>5. SaveClosedFresh(task[p])'
  BY <1>1, <1>3, <1>4 DEF SaveClosedFresh, Active
<1>6. QED
  BY <1>3, <1>4, <1>5 DEF Fresh, Starts

(* Resolving by fingerprint or by service. *)
LEMMA ResolveFresh ==
    ASSUME FreshInv, NEW p \in Worker,
           \/ \E f \in Fingerprint : Resolve(p, f)
           \/ \E s \in Service : ResolveService(p, s)
    PROVE  Fresh(task[p])' /\ Starts(p)
<1>1. UNCHANGED <<alerts, chat>> /\ task[p].step = "idle"
  BY DEF Resolve, resolveByFingerprint, ResolveService, resolveByService
<1>2. ASSUME NEW f \in Fingerprint, Resolve(p, f) PROVE Fresh(task[p])' /\ Starts(p)
  <2>1. CASE UNCHANGED task
    BY <1>1, <2>1, NothingHeld DEF Starts, Others
  <2>2. ASSUME NEW i \in ActiveFor(f),
               task' = [task EXCEPT ![p] =
                           [Idle EXCEPT !.step = "saveClosed", !.at = now,
                                        !.batch = {Closed(alerts[i], now, FALSE)}]]
        PROVE  Fresh(task[p])' /\ Starts(p)
    <3>1. {Closed(alerts[i], now, FALSE)} = {Closed(alerts[j], now, FALSE) : j \in {i}}
      OBVIOUS
    <3>2. {i} \in SUBSET AlertId /\ \A j \in {i} : Active(j)
      BY DEF ActiveFor, Active
    <3>3. QED
      BY <1>1, <2>2, <3>1, <3>2, ClosingFresh
  <2>3. QED
    BY <1>2, <2>1, <2>2 DEF Resolve, resolveByFingerprint
<1>3. ASSUME NEW s \in Service, ResolveService(p, s) PROVE Fresh(task[p])' /\ Starts(p)
  <2> DEFINE active == {i \in AlertId : /\ alerts[i] # NULL
                                        /\ alerts[i].status = "active"
                                        /\ alerts[i].service = s}
  <2>1. task' = [task EXCEPT ![p] =
                    [Idle EXCEPT !.step = "saveClosed", !.at = now,
                                 !.batch = {Closed(alerts[i], now, FALSE) : i \in active}]]
    BY <1>3 DEF ResolveService, resolveByService
  <2>2. active \in SUBSET AlertId /\ \A i \in active : Active(i)
    BY DEF Active
  <2> HIDE DEF active
  <2>3. QED
    BY <1>1, <2>1, <2>2, ClosingFresh
<1>4. QED
  BY <1>2, <1>3

(* Closing one row leaves the others to be closed as they were read. *)
LEMMA SaveClosedKeeps ==
    ASSUME FreshInv, NEW p \in Worker, SaveClosed(p)
    PROVE  Fresh(task[p])' /\ GoesOn(p)
<1>1. PICK entity \in task[p].batch :
         /\ task[p].step = "saveClosed" /\ Save(entity)
         /\ task' = [task EXCEPT ![p] = IF task[p].batch = {entity} THEN Idle
                                        ELSE [task[p] EXCEPT !.batch = @ \ {entity}]]
  BY DEF SaveClosed, saveClosed
<1> DEFINE u == [task[p] EXCEPT !.batch = @ \ {entity}]
<1>2. u.step = "saveClosed" /\ u.at = task[p].at /\ u.batch = task[p].batch \ {entity}
  BY <1>1, Basics, Rows DEF Task
<1>3. task' = [task EXCEPT ![p] = Idle] \/ task' = [task EXCEPT ![p] = u]
  <2>1. CASE task[p].batch = {entity}
    BY <1>1, <2>1
  <2>2. CASE task[p].batch # {entity}
    BY <1>1, <2>2
  <2>3. QED
    BY <2>1, <2>2
<1>4. /\ SaveClosedFresh(task[p]) /\ entity \in Row /\ entity.id # NULL
      /\ task[p].batch \subseteq Row
  BY <1>1, Basics, Rows DEF Fresh, LocalsOK
<1>5. \A i \in AlertId \ {entity.id} : alerts'[i] = alerts[i]
  <2>1. SavedId(entity) = entity.id
    BY <1>4 DEF SavedId
  <2>2. QED
    BY <1>1, <2>1 DEF Save, FreshInv, TypeOK
<1>6. \A row \in u.batch : row.id \in AlertId \ {entity.id}
  <2> SUFFICES ASSUME NEW row \in task[p].batch, row # entity
               PROVE  row.id \in AlertId \ {entity.id}
    BY <1>2
  <2>1. row.id \in AlertId
    BY <1>1, Basics, Rows, RowId DEF LocalsOK
  <2>2. row.id # entity.id
    BY <1>4 DEF SaveClosedFresh
  <2>3. QED
    BY <2>1, <2>2
<1> HIDE DEF u
<1>7. CASE task' = [task EXCEPT ![p] = u]
  <2>1. task'[p] = u /\ Others(p)
    BY <1>7, OneTask DEF FreshInv
  <2>2. SaveClosedFresh(task[p])'
    BY <1>2, <1>4, <1>5, <1>6, <2>1 DEF SaveClosedFresh, Active
  <2>3. QED
    BY <1>1, <1>2, <2>1, <2>2 DEF Fresh, GoesOn
<1>8. QED
  BY <1>3, <1>7, EndsFresh

(* Expiry looks the alert up again before it closes it. *)
LEMMA ExpireFresh ==
    ASSUME FreshInv, NEW p \in Worker
    PROVE  /\ ExpireStale(p) => Fresh(task[p])' /\ Starts(p)
           /\ ExpireFind(p) \/ ExpireSave(p) \/ ExpireFails(p) => Fresh(task[p])' /\ GoesOn(p)
<1>1. ASSUME ExpireStale(p) PROVE Fresh(task[p])' /\ Starts(p)
  <2> DEFINE u == [Idle EXCEPT !.step = "expire", !.at = now, !.batch = findStale]
  <2>1. u.step = "expire" /\ u.at = now
    BY DEF Idle
  <2>2. task' = [task EXCEPT ![p] = u]
    BY <1>1 DEF ExpireStale
  <2> HIDE DEF u
  <2>3. task'[p] = u /\ Others(p)
    BY <2>2, OneTask DEF FreshInv
  <2>4. QED
    BY <2>1, <2>3, NothingHeld DEF Starts
<1>2. ASSUME NEW rest, task[p].step # "idle", NextIn(p, "expire", rest)
      PROVE  Fresh(task[p])' /\ GoesOn(p)
  BY <1>2, NextInTask, NothingHeld
<1>3. ASSUME ExpireFind(p) PROVE Fresh(task[p])' /\ GoesOn(p)
  <2>1. PICK stale \in task[p].batch :
           \/ \E i \in ActiveFor(stale.fingerprint) :
                 task' = [task EXCEPT ![p] =
                             [task[p] EXCEPT !.step = "saveExpired",
                                             !.batch = @ \ {stale},
                                             !.entity = Closed(alerts[i], now, TRUE)]]
           \/ NextIn(p, "expire", task[p].batch \ {stale})
    BY <1>3 DEF ExpireFind
  <2>2. task[p].step = "expire" /\ UNCHANGED <<alerts, chat>>
    BY <1>3 DEF ExpireFind
  <2>3. ASSUME NEW i \in ActiveFor(stale.fingerprint),
               task' = [task EXCEPT ![p] =
                           [task[p] EXCEPT !.step = "saveExpired",
                                           !.batch = @ \ {stale},
                                           !.entity = Closed(alerts[i], now, TRUE)]]
        PROVE  Fresh(task[p])' /\ GoesOn(p)
    <3> DEFINE closed == Closed(alerts[i], now, TRUE)
               u == [task[p] EXCEPT !.step = "saveExpired", !.batch = @ \ {stale},
                                    !.entity = closed]
    <3>1. i \in AlertId /\ Active(i) /\ alerts[i] \in Row /\ alerts[i].id = i
      BY Basics, Rows DEF ActiveFor, Active
    <3>2. /\ closed.id = i /\ closed.status = "resolved"
          /\ closed.pendingResolveSince = NULL
          /\ closed.fingerprint = alerts[i].fingerprint
          /\ closed.lastNotifiedAt = alerts[i].lastNotifiedAt
      BY <3>1 DEF Closed, Row
    <3> HIDE DEF closed
    <3>3. u.step = "saveExpired" /\ u.at = task[p].at /\ u.entity = closed
      BY Basics, Rows DEF Task
    <3>4. task' = [task EXCEPT ![p] = u]
      BY <2>3 DEF closed
    <3> HIDE DEF u
    <3>5. task'[p] = u /\ Others(p)
      BY <3>4, OneTask DEF FreshInv
    <3>6. SaveExpiredFresh(task[p])'
      BY <2>2, <3>1, <3>2, <3>3, <3>5, ServiceAssumption DEF SaveExpiredFresh, Active
    <3>7. QED
      BY <2>2, <3>3, <3>5, <3>6 DEF Fresh, GoesOn
  <2>4. QED
    BY <1>2, <2>1, <2>2, <2>3
<1>4. ASSUME ExpireSave(p) \/ ExpireFails(p) PROVE Fresh(task[p])' /\ GoesOn(p)
  <2>1. task[p].step = "saveExpired" /\ NextIn(p, "expire", task[p].batch)
    BY <1>4 DEF ExpireSave, ExpireFails
  <2>2. QED
    BY <1>2, <2>1
<1>5. QED
  BY <1>1, <1>3, <1>4

(* The sweeper announces the rows that are due, as it read them. *)
LEMMA SweepFresh ==
    ASSUME FreshInv, NEW p \in Worker, SweepLoad(p)
    PROVE  Fresh(task[p])' /\ Starts(p)
<1> DEFINE due == findDueResolves(now)
           u == [Idle EXCEPT !.step = "announce", !.at = now, !.batch = due]
<1>1. task' = [task EXCEPT ![p] = u] /\ UNCHANGED <<alerts, chat>>
  BY DEF SweepLoad
<1>2. \A row \in due : row = alerts[row.id] /\ Due(row.id, now)
  BY Basics, Rows DEF findDueResolves, Due
<1> HIDE DEF due
<1>3. u.step = "announce" /\ u.at = now /\ u.batch = due
  BY DEF Idle
<1> HIDE DEF u
<1>4. task'[p] = u /\ Others(p)
  BY <1>1, OneTask DEF FreshInv
<1>5. AnnounceFresh(task[p])'
  BY <1>1, <1>2, <1>3, <1>4 DEF AnnounceFresh, Due
<1>6. QED
  BY <1>3, <1>4, <1>5 DEF Fresh, Starts

(* Its batch shrinks, and what is left of it is as it was. *)
LEMMA AnnounceRest ==
    ASSUME FreshInv, NEW p \in Worker, AnnounceFresh(task[p]),
           task'[p].batch \subseteq task[p].batch, task'[p].at = task[p].at,
           \A row \in task'[p].batch : alerts'[row.id] = alerts[row.id]
    PROVE  AnnounceFresh(task[p])'
  BY DEF AnnounceFresh, Due

(* After a send it marks the row it has announced. *)
LEMMA AnnouncedFresh ==
    ASSUME FreshInv, NEW p \in Worker, NEW alert \in task[p].batch,
           Announce(p, alert) \/ AnnounceFails(p, alert)
    PROVE  Fresh(task[p])' /\ GoesOn(p)
<1>1. /\ task[p].step = "announce" /\ UNCHANGED alerts /\ AnnounceFresh(task[p])
      /\ task[p].batch \subseteq Row /\ alert.id \in AlertId
      /\ alert = alerts[alert.id] /\ Due(alert.id, task[p].at)
  BY Basics, Rows, RowId DEF Announce, AnnounceFails, Fresh, AnnounceFresh, LocalsOK
<1>2. CASE AnnounceFails(p, alert)
  <2>1. NextIn(p, "announce", task[p].batch \ {alert})
    BY <1>2 DEF AnnounceFails
  <2>2. /\ GoesOn(p)
        /\ task'[p].step # "idle" =>
              /\ task'[p].step = "announce" /\ task'[p].batch = task[p].batch \ {alert}
              /\ task'[p].at = task[p].at
    BY <1>1, <2>1, NextInTask
  <2>3. task'[p].step # "idle" => AnnounceFresh(task[p])'
    BY <1>1, <2>2, AnnounceRest
  <2>4. QED
    BY <2>2, <2>3 DEF Fresh
<1>3. CASE Announce(p, alert)
  <2> DEFINE u == [task[p] EXCEPT !.step = "markNotified", !.batch = @ \ {alert},
                                  !.entity = alert]
  <2>1. /\ u.step = "markNotified" /\ u.at = task[p].at
        /\ u.batch = task[p].batch \ {alert} /\ u.entity = alert
    BY Basics, Rows DEF Task
  <2>2. task' = [task EXCEPT ![p] = u] /\ Tell(alert.id, "up")
    BY <1>3 DEF Announce
  <2> HIDE DEF u
  <2>3. task'[p] = u /\ Others(p)
    BY <2>2, OneTask DEF FreshInv
  <2>4. AnnounceFresh(task[p])'
    BY <1>1, <2>1, <2>3, AnnounceRest
  <2>5. chat'[alert.id].said = "up"
    BY <1>1, <2>2 DEF Tell, FreshInv, TypeOK
  <2>6. MarkFresh(task[p])'
    BY <1>1, <2>1, <2>3, <2>5 DEF MarkFresh, Due
  <2>7. QED
    BY <1>1, <2>1, <2>3, <2>4, <2>6 DEF Fresh, GoesOn
<1>4. QED
  BY <1>2, <1>3

(* The delivery mark changes no other row it will announce. *)
LEMMA MarkedFresh ==
    ASSUME FreshInv, NEW p \in Worker, Mark(p) \/ MarkFails(p)
    PROVE  Fresh(task[p])' /\ GoesOn(p)
<1>1. /\ task[p].step = "markNotified" /\ NextIn(p, "announce", task[p].batch)
      /\ AnnounceFresh(task[p]) /\ MarkFresh(task[p])
      /\ task[p].batch \subseteq Row
  BY Basics, Rows DEF Mark, MarkFails, Fresh
<1>2. /\ GoesOn(p)
      /\ task'[p].step # "idle" =>
            /\ task'[p].step = "announce" /\ task'[p].batch = task[p].batch
            /\ task'[p].at = task[p].at
  BY <1>1, NextInTask
<1>3. ASSUME NEW row \in task[p].batch PROVE alerts'[row.id] = alerts[row.id]
  <2>1. row.id \in AlertId /\ row.id # task[p].entity.id
    BY <1>1, Basics, Rows, RowId DEF LocalsOK, AnnounceFresh, MarkFresh
  <2>2. QED
    BY <2>1 DEF Mark, MarkFails, markResolveNotified
<1>4. task'[p].step # "idle" => AnnounceFresh(task[p])'
  BY <1>1, <1>2, <1>3, AnnounceRest
<1>5. QED
  BY <1>2, <1>4 DEF Fresh

(* The operator's endpoints compute from the row they read. *)
LEMMA AdminFresh ==
    ASSUME FreshInv, NEW p \in Worker, NEW id \in AlertId,
           Acknowledge(p, id) \/ ResolveById(p, id)
    PROVE  Fresh(task[p])' /\ Starts(p)
<1>1. alerts[id] \in Row /\ alerts[id].id = id /\ UNCHANGED <<alerts, chat>>
  BY Basics, Rows DEF Acknowledge, acknowledge, ResolveById, resolve
<1> DEFINE acked == [alerts[id] EXCEPT !.status = "acknowledged"]
           closed == [alerts[id] EXCEPT !.status = "resolved", !.resolvedAt = now]
<1>2. \A row \in {acked, closed} :
         /\ row.id = id /\ row.status \in {"acknowledged", "resolved"}
         /\ row.fingerprint = alerts[id].fingerprint
         /\ row.pendingResolveSince = alerts[id].pendingResolveSince
         /\ row.lastNotifiedAt = alerts[id].lastNotifiedAt
  BY <1>1 DEF Row
<1>3. PICK row \in {acked, closed} :
         task' = [task EXCEPT ![p] = [Idle EXCEPT !.step = "saveAdmin", !.at = now,
                                                  !.entity = row]]
  BY DEF Acknowledge, acknowledge, ResolveById, resolve
<1> HIDE DEF acked, closed
<1> DEFINE u == [Idle EXCEPT !.step = "saveAdmin", !.at = now, !.entity = row]
<1>4. u.step = "saveAdmin" /\ u.at = now /\ u.entity = row
  BY DEF Idle
<1> HIDE DEF u
<1>5. task'[p] = u /\ Others(p)
  BY <1>3, OneTask DEF FreshInv, u
<1>6. SaveAdminFresh(task[p])'
  BY <1>1, <1>2, <1>4, <1>5, ServiceAssumption DEF SaveAdminFresh
<1>7. QED
  BY <1>4, <1>5, <1>6 DEF Fresh, Starts

(* One step of a handler moves one task, which is then fresh. *)
LEMMA OwnFresh ==
    ASSUME FreshInv, NEW p \in Worker
    PROVE  /\ SourceStep(p) \/ OperatorStep(p) \/ Sweep(p) =>
                 Fresh(task[p])' /\ Starts(p) /\ task[p].step = "idle"
           /\ Continue(p) \/ Fail(p) =>
                 Fresh(task[p])' /\ GoesOn(p) /\ task[p].step # "idle"
<1>1. ASSUME SourceStep(p) \/ OperatorStep(p) \/ Sweep(p)
      PROVE  Fresh(task[p])' /\ Starts(p)
  <2>1. CASE SourceStep(p)
    BY <2>1, FireFresh, ResolveFresh, ExpireFresh DEF SourceStep
  <2>2. CASE OperatorStep(p)
    BY <2>2, FireFresh, AdminFresh DEF OperatorStep
  <2>3. CASE Sweep(p)
    BY <2>3, SweepFresh DEF Sweep
  <2>4. QED
    BY <1>1, <2>1, <2>2, <2>3
<1>2. ASSUME Continue(p) \/ Fail(p)
      PROVE  Fresh(task[p])' /\ GoesOn(p)
  <2>1. CASE FireConflict(p) \/ Notify(p) \/ SaveAdmin(p) \/ Abort(p)
    <3>1. task' = [task EXCEPT ![p] = Idle]
      BY <2>1 DEF FireConflict, fireConflict, Notify, SaveAdmin, saveAdmin, Abort
    <3>2. QED
      BY <3>1, EndsFresh
  <2>2. CASE FireFindPending(p) \/ FireSave(p)
    BY <2>2, FindPendingFresh, FireSaveFresh
  <2>3. CASE SaveClosed(p) \/ ExpireFind(p) \/ ExpireSave(p) \/ ExpireFails(p)
    BY <2>3, SaveClosedKeeps, ExpireFresh
  <2>4. CASE \/ Mark(p) \/ MarkFails(p)
             \/ \E alert \in task[p].batch : Announce(p, alert) \/ AnnounceFails(p, alert)
    BY <2>4, MarkedFresh, AnnouncedFresh
  <2>5. QED
    BY <1>2, <2>1, <2>2, <2>3, <2>4 DEF Continue, Fail
<1>3. SourceStep(p) \/ OperatorStep(p) \/ Sweep(p) => task[p].step = "idle"
  BY DEF SourceStep, Fire, fire, Resolve, resolveByFingerprint, ResolveService,
         resolveByService, ExpireStale, OperatorStep, Create, create, Acknowledge,
         acknowledge, ResolveById, resolve, Sweep, SweepLoad
<1>4. Continue(p) \/ Fail(p) => task[p].step # "idle"
  BY DEF Continue, FireFindPending, fireFindPending, FireSave, fireSave, FireConflict,
         fireConflict, Notify, SaveClosed, saveClosed, ExpireFind, ExpireSave, Announce,
         Mark, SaveAdmin, saveAdmin, Fail, Abort, ExpireFails, MarkFails, AnnounceFails
<1>5. QED
  BY <1>1, <1>2, <1>3, <1>4

-----------------------------------------------------------------------------
(* Handlers do not disturb each other *)

(* What a handler uses it holds, and it is in the table. *)
LEMMA UsedHeld ==
    ASSUME FreshInv, NEW p \in Worker, NEW i \in AlertId, Uses(task[p], i)
    PROVE  i \in Held(task[p]) /\ alerts[i] # NULL
<1>1. i # NULL /\ Fresh(task[p]) /\ LocalsOK(task[p])
  BY Basics, ServiceAssumption
<1>2. CASE /\ task[p].step \in {"saveFired", "notify", "saveExpired", "markNotified", "saveAdmin"}
           /\ task[p].entity.id = i
  <2>1. task[p].entity # NULL /\ i \in Held(task[p])
    <3>1. task[p].entity # NULL
      BY <1>1, <1>2 DEF LocalsOK
    <3>2. QED
      BY <1>1, <1>2, <3>1 DEF Held
  <2>2. CASE task[p].step = "saveFired"
    <3>1. SaveFiredFresh(task[p])
      BY <1>1, <2>2 DEF Fresh
    <3>2. QED
      BY <1>1, <1>2, <2>1, <3>1 DEF SaveFiredFresh
  <2>3. CASE task[p].step \in {"notify", "saveExpired"}
    <3>1. Active(task[p].entity.id)
      BY <1>1, <2>3 DEF Fresh, SaveExpiredFresh
    <3>2. QED
      BY <1>2, <2>1, <3>1 DEF Active
  <2>4. CASE task[p].step \in {"markNotified", "saveAdmin"}
    <3>1. alerts[task[p].entity.id] # NULL
      BY <1>1, <2>4 DEF Fresh, MarkFresh, Due, SaveAdminFresh
    <3>2. QED
      BY <1>2, <2>1, <3>1
  <2>5. QED
    BY <1>2, <2>1, <2>2, <2>3, <2>4
<1>3. ASSUME task[p].step \in {"saveClosed", "announce", "markNotified"},
             NEW row \in task[p].batch, row.id = i
      PROVE  i \in Held(task[p]) /\ alerts[i] # NULL
  <2>1. row # NULL
    BY <1>3, Basics, NullAssumption
  <2>2. i \in Held(task[p])
    BY <1>1, <1>3, <2>1 DEF Held
  <2>3. alerts[i] # NULL
    BY <1>1, <1>3 DEF Fresh, SaveClosedFresh, AnnounceFresh, Due, Active
  <2>4. QED
    BY <2>2, <2>3
<1>4. QED
  BY <1>2, <1>3 DEF Uses

(* So handlers that are apart use different rows. *)
LEMMA ApartUses ==
    ASSUME FreshInv, Apart, NEW p \in Worker, NEW q \in Worker, p # q,
           NEW i \in AlertId, Uses(task[p], i)
    PROVE  ~Uses(task[q], i)
  BY UsedHeld DEF Apart

(* A step of a handler writes and tells of a row it uses, or a new one.     *)
Touches(p) ==
    \A i \in AlertId :
        Uses(task[p], i) \/ alerts[i] = NULL \/ (alerts'[i] = alerts[i] /\ chat'[i] = chat[i])

LEMMA EffectTouches ==
    ASSUME FreshInv, NEW p \in Worker, Effect(task[p])
    PROVE  Touches(p)
<1>1. ASSUME NEW i \in AlertId, NEW row \in Row, SavesRow(i, row)
      PROVE  \A j \in AlertId \ {i} : alerts'[j] = alerts[j] /\ chat'[j] = chat[j]
  BY <1>1 DEF SavesRow, FreshInv, TypeOK
<1>2. ASSUME NEW i \in AlertId, NEW what, Tells(i, what)
      PROVE  \A j \in AlertId \ {i} : alerts'[j] = alerts[j] /\ chat'[j] = chat[j]
  BY <1>2 DEF Tells, Tell, FreshInv, TypeOK
<1>3. ASSUME NEW i \in AlertId, Settles(i, task[p].at)
      PROVE  \A j \in AlertId \ {i} : alerts'[j] = alerts[j] /\ chat'[j] = chat[j]
  BY <1>3 DEF Settles, FreshInv, TypeOK
<1>4. CASE UNCHANGED <<alerts, chat>>
  BY <1>4 DEF Touches
<1>5. CASE SourceEffect(task[p])
  BY <1>1, <1>2, <1>5 DEF SourceEffect, Inserts, Touches
<1>6. CASE OperatorEffect(task[p])
  BY <1>1, <1>6 DEF OperatorEffect, Touches
<1>7. CASE SweepEffect(task[p])
  BY <1>2, <1>3, <1>7 DEF SweepEffect, Announces, Touches
<1>8. QED
  BY <1>4, <1>5, <1>6, <1>7 DEF Effect

(* What a handler does not see change under it stays fresh. *)
LEMMA Undisturbed ==
    ASSUME FreshInv, NEW q \in Worker, task'[q] = task[q],
           \A i \in AlertId : Uses(task[q], i) => alerts'[i] = alerts[i] /\ chat'[i] = chat[i]
    PROVE  Fresh(task[q])'
<1> DEFINE id == task[q].entity.id
<1>1. ASSUME task[q].step \in {"saveFired", "notify", "saveExpired", "markNotified", "saveAdmin"},
             id # NULL
      PROVE  alerts'[id] = alerts[id] /\ chat'[id] = chat[id]
  <2>1. id \in AlertId
    BY <1>1, Basics, RowId DEF LocalsOK
  <2>2. QED
    BY <1>1, <2>1 DEF Uses
<1>2. ASSUME task[q].step \in {"saveClosed", "announce", "markNotified"},
             NEW row \in task[q].batch
      PROVE  alerts'[row.id] = alerts[row.id]
  <2>1. row.id \in AlertId
    BY Basics, RowId DEF LocalsOK
  <2>2. QED
    BY <1>2, <2>1 DEF Uses
<1>3. Fresh(task[q]) /\ LocalsOK(task[q])
  BY Basics
<1>4. CASE task[q].step = "saveFired"
  BY <1>1, <1>3, <1>4 DEF Fresh, SaveFiredFresh
<1>5. CASE task[q].step = "notify"
  BY <1>1, <1>3, <1>5 DEF Fresh, LocalsOK, Active
<1>6. CASE task[q].step = "saveExpired"
  BY <1>1, <1>3, <1>6 DEF Fresh, SaveExpiredFresh, Active
<1>7. CASE task[q].step = "saveAdmin"
  BY <1>1, <1>3, <1>7 DEF Fresh, SaveAdminFresh
<1>8. CASE task[q].step = "saveClosed"
  BY <1>2, <1>3, <1>8 DEF Fresh, SaveClosedFresh, Active
<1>9. CASE task[q].step = "announce"
  BY <1>2, <1>3, <1>9 DEF Fresh, AnnounceFresh, Due
<1>10. CASE task[q].step = "markNotified"
  <2>1. AnnounceFresh(task[q])'
    BY <1>2, <1>3, <1>10 DEF Fresh, AnnounceFresh, Due
  <2>2. MarkFresh(task[q])'
    BY <1>1, <1>3, <1>10 DEF Fresh, LocalsOK, MarkFresh, Due
  <2>3. QED
    BY <1>10, <2>1, <2>2 DEF Fresh
<1>11. QED
  BY <1>4, <1>5, <1>6, <1>7, <1>8, <1>9, <1>10 DEF Fresh

(* A step that writes and tells nothing disturbs nobody. *)
LEMMA QuietUndisturbed ==
    ASSUME FreshInv, NEW q \in Worker, UNCHANGED <<alerts, chat>>, task'[q] = task[q]
    PROVE  Fresh(task[q])'
  BY Undisturbed

(* What a handler apart from p uses, p's step leaves as it is. *)
LEMMA ApartUntouched ==
    ASSUME FreshInv, Apart, NEW p \in Worker, NEW q \in Worker, p # q, Touches(p),
           NEW i \in AlertId, Uses(task[q], i)
    PROVE  alerts'[i] = alerts[i] /\ chat'[i] = chat[i]
  BY ApartUses, UsedHeld DEF Touches

(* So handlers that are apart do not disturb each other. *)
LEMMA ApartUndisturbed ==
    ASSUME FreshInv, Apart, NEW p \in Worker, NEW q \in Worker, p # q,
           Effect(task[p]), task'[q] = task[q]
    PROVE  Fresh(task[q])'
  BY EffectTouches, ApartUntouched, Undisturbed

-----------------------------------------------------------------------------
(* The chat *)

(* What is due stays due. *)
LEMMA DueLater ==
    ASSUME NEW row \in Row, NEW t \in Nat, NEW u \in Nat, t <= u, isResolveDue(row, t)
    PROVE  isResolveDue(row, u)
  BY PolicyAssumption DEF isResolveDue, isFlapReopen, Row

(* A step that tells and writes nothing changes nothing for the chat, if    *)
(* whoever starts in it starts now.                                         *)
LEMMA QuietChat ==
    ASSUME FreshInv, UNCHANGED <<alerts, chat, now>>,
           \A q \in Worker : task'[q].step = "findPending" =>
               task'[q].at = now \/ task'[q] = task[q]
    PROVE  ChatFresh'
<1>1. \A i \in AlertId : Past(i) => Past(i)'
  BY DEF Past
<1>2. QED
  BY <1>1 DEF FreshInv, ChatFresh, Active

(* The clock. *)
LEMMA TickChat ==
    ASSUME FreshInv, Tick
    PROVE  ChatFresh'
<1>1. now \in Nat /\ now' \in Nat /\ now <= now'
  BY DEF FreshInv, TypeOK, Tick
<1>2. \A i \in AlertId : alerts[i] # NULL /\ isResolveDue(alerts[i], now)
         => isResolveDue(alerts[i], now')
  BY <1>1, DueLater DEF FreshInv, TypeOK
<1>3. \A i \in AlertId : alerts[i] # NULL /\ Past(i) => Past(i)'
  BY <1>2 DEF Past, Tick
<1>4. QED
  BY <1>3 DEF FreshInv, ChatFresh, Active, Tick

(* A step that writes or tells. *)
LEMMA EffectChat ==
    ASSUME FreshInv, Apart, NEW p \in Worker, GoesOn(p),
           Effect(task[p]), now' = now
    PROVE  ChatFresh'
<1> DEFINE Fine(i) ==
       /\ alerts[i] = NULL => chat[i].said = "nothing"
       /\ Active(i) => chat[i].said # "up"
       /\ alerts[i] # NULL /\ alerts[i].pendingResolveSince # NULL /\ chat[i].said = "up"
             => Past(i)
<1>1. \A i \in AlertId : Fine(i)
  BY DEF FreshInv, ChatFresh
<1>2. \A q \in Worker : task'[q].step = "findPending" => task'[q] = task[q]
  BY DEF GoesOn, Others
<1>3. ASSUME NEW i \in AlertId, Past(i),
             \A t : isResolveDue(alerts[i], t) => isResolveDue(alerts'[i], t),
             alerts'[i].fingerprint = alerts[i].fingerprint
      PROVE  Past(i)'
  BY <1>2, <1>3 DEF Past
<1>4. ASSUME NEW i \in AlertId, alerts'[i] = alerts[i], chat'[i].said = chat[i].said
      PROVE  Fine(i)'
  BY <1>1, <1>3, <1>4 DEF Active
<1>5. SUFFICES \A i \in AlertId : Fine(i)'
  BY DEF ChatFresh
<1>6. CASE UNCHANGED <<alerts, chat>>
  BY <1>4, <1>6
<1>7. ASSUME NEW i \in AlertId, NEW row \in Row, SavesRow(i, row)
      PROVE  /\ alerts'[i] = row /\ row # NULL /\ chat' = chat
             /\ \A j \in AlertId \ {i} : Fine(j)'
  <2>1. alerts'[i] = row /\ chat' = chat /\ \A j \in AlertId \ {i} : alerts'[j] = alerts[j]
    BY <1>7 DEF SavesRow, FreshInv, TypeOK
  <2>2. QED
    BY <1>4, <2>1
<1>8. CASE SourceEffect(task[p])
  <2>1. ASSUME NEW i \in AlertId, Active(i), Tells(i, "down") PROVE \A j \in AlertId : Fine(j)'
    <3>1. chat'[i].said = "down" /\ alerts' = alerts
          /\ \A j \in AlertId \ {i} : chat'[j] = chat[j]
      BY <2>1 DEF Tells, Tell, FreshInv, TypeOK
    <3>2. QED
      BY <1>4, <2>1, <3>1 DEF Active
  <2>2. ASSUME NEW i \in AlertId, NEW row \in Row, SavesRow(i, row),
               Inserts(i, row) \/ Repeats(i, row) \/ Reopens(i, row, task[p].at) \/ Closes(i, row)
        PROVE  \A j \in AlertId : Fine(j)'
    <3>1. chat[i].said # "up"
      BY <1>1, <2>2 DEF Inserts, Repeats, Reopens, Closes
    <3>2. Fine(i)'
      BY <1>7, <2>2, <3>1
    <3>3. QED
      BY <1>7, <2>2, <3>2
  <2>3. QED
    BY <1>8, <2>1, <2>2 DEF SourceEffect
<1>9. CASE OperatorEffect(task[p])
  <2>1. PICK i \in AlertId, row \in Row : SavesRow(i, row) /\ Operates(i, row)
    BY <1>9 DEF OperatorEffect
  <2>2. /\ alerts[i] # NULL /\ row.fingerprint = alerts[i].fingerprint
        /\ row.pendingResolveSince = alerts[i].pendingResolveSince /\ row.status # "active"
    BY <2>1 DEF Operates, Same
  <2>3. \A t : isResolveDue(alerts[i], t) => isResolveDue(row, t)
    BY <2>2 DEF isResolveDue, isFlapReopen
  <2>4. Past(i) => Past(i)'
    BY <1>3, <1>7, <2>1, <2>2, <2>3
  <2>5. Fine(i)'
    BY <1>1, <1>7, <2>1, <2>2, <2>4 DEF Active
  <2>6. QED
    BY <1>7, <2>1, <2>5
<1>10. CASE Sweeping(task[p]) /\ SweepEffect(task[p])
  <2>1. PICK i \in AlertId : Announces(i, task[p]) \/ Settles(i, task[p].at)
    BY <1>10 DEF SweepEffect
  <2>2. CASE Settles(i, task[p].at)
    <3>1. /\ alerts[i] \in Row /\ alerts[i].status = "resolved" /\ alerts[i] # NULL
          /\ alerts' = [alerts EXCEPT ![i] = [alerts[i] EXCEPT !.pendingResolveSince = NULL,
                                                              !.lastNotifiedAt = task[p].at]]
          /\ chat' = chat
      BY <2>2, Basics, Rows DEF Settles, Due
    <3>2. /\ alerts'[i].pendingResolveSince = NULL /\ alerts'[i].status = "resolved"
          /\ alerts'[i] \in Row
          /\ \A j \in AlertId \ {i} : alerts'[j] = alerts[j]
      <4> DEFINE marked == [alerts[i] EXCEPT !.pendingResolveSince = NULL,
                                             !.lastNotifiedAt = task[p].at]
      <4>1. marked \in Row
        BY <3>1, Basics, Rows, MarkedType
      <4>2. marked.pendingResolveSince = NULL /\ marked.status = "resolved"
        BY <3>1 DEF Row
      <4>3. alerts' = [alerts EXCEPT ![i] = marked]
        BY <3>1
      <4> HIDE DEF marked
      <4>4. QED
        BY <4>1, <4>2, <4>3 DEF FreshInv, TypeOK
    <3>3. QED
      BY <1>4, <3>1, <3>2 DEF Active
  <2>3. CASE Announces(i, task[p])
    <3>1. /\ alerts' = alerts /\ \A j \in AlertId \ {i} : chat'[j] = chat[j]
      BY <2>3 DEF Announces, Tells, Tell, FreshInv, TypeOK
    <3>2. /\ alerts[i] \in Row /\ alerts[i].status # "active"
          /\ isResolveDue(alerts[i], task[p].at) /\ alerts[i] \in task[p].batch
      BY <2>3, Basics, Rows DEF Announces, Due
    <3>3. isResolveDue(alerts[i], now)
      BY <3>2, Basics, Rows, DueLater
    <3>4. ASSUME NEW q \in Worker, task[q].step = "findPending",
                 task[q].problem.fingerprint = alerts[i].fingerprint
          PROVE  isResolveDue(alerts[i], task[q].at)
      <4>1. p # q
        BY <1>10, <3>4 DEF Sweeping
      <4>2. QED
        BY <1>10, <3>2, <3>4, <4>1 DEF Apart
    <3>5. Past(i)
      BY <3>3, <3>4 DEF Past
    <3>6. Fine(i)'
      BY <1>3, <3>1, <3>2, <3>5 DEF Active
    <3>7. QED
      BY <1>4, <3>1, <3>6
  <2>4. QED
    BY <2>1, <2>2, <2>3
<1>11. QED
  BY <1>6, <1>8, <1>9, <1>10 DEF Effect

-----------------------------------------------------------------------------
(* The inductive step *)

(* Handlers that are apart leave each other's locals fresh. *)
LEMMA FreshStep ==
    ASSUME FreshInv, Apart, [Next]_vars, TypeOK', RowsWellFormed'
    PROVE  FreshInv'
<1>1. CASE UNCHANGED vars \/ Tick
  <2>1. UNCHANGED <<alerts, chat, task>>
    BY <1>1 DEF vars, Tick
  <2>2. \A p \in Worker : Fresh(task[p])'
    BY <2>1, QuietUndisturbed
  <2>3. ChatFresh'
    BY <1>1, <2>1, TickChat, QuietChat DEF vars
  <2>4. QED
    BY <2>2, <2>3 DEF FreshInv
<1>2. ASSUME NEW p \in Worker, SourceStep(p) \/ OperatorStep(p) \/ Sweep(p)
      PROVE  FreshInv'
  <2>1. UNCHANGED <<alerts, chat, now>>
    BY <1>2 DEF SourceStep, Fire, fire, Resolve, resolveByFingerprint,
                ResolveService, resolveByService, ExpireStale, OperatorStep, Create, create,
                Acknowledge, acknowledge, ResolveById, resolve, Sweep, SweepLoad, NoFault, Request
  <2>2. Fresh(task[p])' /\ Starts(p)
    BY <1>2, OwnFresh
  <2>3. \A q \in Worker \ {p} : Fresh(task[q])'
    BY <2>1, <2>2, QuietUndisturbed DEF Starts, Others
  <2>4. ChatFresh'
    BY <2>1, <2>2, QuietChat DEF Starts, Others
  <2>5. QED
    BY <2>2, <2>3, <2>4 DEF FreshInv
<1>3. ASSUME NEW p \in Worker, Continue(p) \/ Fail(p)
      PROVE  FreshInv'
  <2>1. now' = now
    BY <1>3 DEF Continue, FireFindPending, FireSave, FireConflict, Notify, SaveClosed,
                ExpireFind, ExpireSave, Announce, Mark, SaveAdmin, Fail, Abort, ExpireFails,
                MarkFails, AnnounceFails, NoFault, Fault
  <2>2. Fresh(task[p])' /\ GoesOn(p) /\ task[p].step # "idle"
    BY <1>3, OwnFresh
  <2>3. Effect(task[p])
    BY <1>3, ContinueEffect
  <2>4. \A q \in Worker \ {p} : Fresh(task[q])'
    BY <2>2, <2>3, ApartUndisturbed DEF GoesOn, Others
  <2>5. ChatFresh'
    BY <2>1, <2>2, <2>3, EffectChat
  <2>6. QED
    BY <2>2, <2>4, <2>5 DEF FreshInv
<1>4. QED
  BY <1>1, <1>2, <1>3 DEF Next

-----------------------------------------------------------------------------
(* Each effect is a step of AlertPromise, or a stutter *)

(* A save inserts, reopens, closes or operates, or repeats, which it hides. *)
LEMMA SavePromise ==
    ASSUME FreshInv, NEW i \in AlertId, NEW row \in Row, SavesRow(i, row), NEW t \in Nat
    PROVE  /\ Inserts(i, row) => Promise!Open(i, row.fingerprint)
           /\ Repeats(i, row) => UNCHANGED Promise!vars
           /\ Reopens(i, row, t) => Promise!Reopen(i)
           /\ Closes(i, row) => Promise!Close(i)
           /\ Operates(i, row) => Promise!Operate(i)
<1> DEFINE status == [j \in AlertId |-> IF alerts[j] = NULL THEN "none" ELSE alerts[j].status]
           about == [j \in AlertId |-> IF alerts[j] = NULL THEN NULL ELSE alerts[j].fingerprint]
           owes == [j \in AlertId |-> IF alerts[j] = NULL THEN FALSE
                                      ELSE alerts[j].pendingResolveSince # NULL]
           told == [j \in AlertId |-> chat[j].said]
<1>1. /\ alerts' = [alerts EXCEPT ![i] = row] /\ chat' = chat /\ row # NULL
      /\ alerts \in [AlertId -> Row \cup {NULL}]
  BY DEF SavesRow, FreshInv, TypeOK
<1>2. /\ status' = [status EXCEPT ![i] = row.status]
      /\ about' = [about EXCEPT ![i] = row.fingerprint]
      /\ owes' = [owes EXCEPT ![i] = (row.pendingResolveSince # NULL)]
      /\ told' = told
  BY <1>1
<1>3. NoneOpen(row.fingerprint, i) /\ status[i] # "active" /\ row.fingerprint # NULL =>
         \A j \in AlertId : status[j] = "active" => about[j] # row.fingerprint
  BY DEF NoneOpen, Active
<1>4. /\ alerts[i] = NULL => status[i] = "none" /\ owes[i] = FALSE
      /\ alerts[i] # NULL => /\ status[i] = alerts[i].status
                             /\ about[i] = alerts[i].fingerprint
                             /\ owes[i] = (alerts[i].pendingResolveSince # NULL)
      /\ told[i] = chat[i].said
      /\ \A fun \in {status, about, owes} : fun = [fun EXCEPT ![i] = fun[i]]
  OBVIOUS
<1> HIDE DEF status, about, owes, told
<1>5. ASSUME Inserts(i, row) PROVE Promise!Open(i, row.fingerprint)
  <2>1. /\ status[i] = "none"
        /\ row.fingerprint # NULL =>
              \A j \in AlertId : status[j] = "active" => about[j] # row.fingerprint
        /\ status' = [status EXCEPT ![i] = "active"]
        /\ about' = [about EXCEPT ![i] = row.fingerprint]
        /\ owes' = owes /\ told' = told
    BY <1>2, <1>3, <1>4, <1>5 DEF Inserts, Opens
  <2>2. QED
    BY <2>1 DEF Promise!Open, status, about, owes, told
<1>6. ASSUME Repeats(i, row) PROVE UNCHANGED Promise!vars
  <2>1. alerts[i].pendingResolveSince = NULL
    BY <1>6, Basics, Rows DEF Repeats, Active, WellFormed
  <2>2. status' = status /\ about' = about /\ owes' = owes /\ told' = told
    BY <1>2, <1>4, <1>6, <2>1 DEF Repeats, Same, Active, Opens
  <2>3. QED
    BY <2>2 DEF Promise!vars, status, about, owes, told
<1>7. ASSUME Reopens(i, row, t) PROVE Promise!Reopen(i)
  <2>1. /\ status[i] = "resolved" /\ owes[i] = TRUE /\ told[i] # "up"
        /\ about[i] # NULL => \A j \in AlertId : status[j] = "active" => about[j] # about[i]
        /\ status' = [status EXCEPT ![i] = "active"]
        /\ owes' = [owes EXCEPT ![i] = FALSE]
        /\ about' = about /\ told' = told
    BY <1>2, <1>3, <1>4, <1>7 DEF Reopens, Same, Opens, isFlapReopen
  <2>2. QED
    BY <2>1 DEF Promise!Reopen, status, about, owes, told
<1>8. ASSUME Closes(i, row) PROVE Promise!Close(i)
  <2>1. /\ status[i] = "active"
        /\ status' = [status EXCEPT ![i] = "resolved"]
        /\ \E debt \in BOOLEAN : owes' = [owes EXCEPT ![i] = debt]
        /\ about' = about /\ told' = told
    BY <1>2, <1>4, <1>8 DEF Closes, Same, Active
  <2>2. QED
    BY <2>1 DEF Promise!Close, status, about, owes, told
<1>9. ASSUME Operates(i, row) PROVE Promise!Operate(i)
  <2>1. alerts[i].status # "none"
    BY <1>9, Basics, Rows DEF Operates, Same, Row, Status
  <2>2. /\ status[i] # "none"
        /\ \E s \in {"acknowledged", "resolved"} : status' = [status EXCEPT ![i] = s]
        /\ about' = about /\ owes' = owes /\ told' = told
    BY <1>2, <1>4, <1>9, <2>1 DEF Operates, Same
  <2>3. QED
    BY <2>2 DEF Promise!Operate, status, about, owes, told
<1>10. QED
  BY <1>5, <1>6, <1>7, <1>8, <1>9

(* A send reports or announces, a delivery mark settles. *)
LEMMA SendPromise ==
    ASSUME FreshInv, NEW i \in AlertId, NEW t \in Nat
    PROVE  /\ Active(i) /\ Tells(i, "down") => Promise!Report(i)
           /\ Due(i, t) /\ Tells(i, "up") => Promise!Announce(i)
           /\ Settles(i, t) => Promise!Settle(i)
<1> DEFINE status == [j \in AlertId |-> IF alerts[j] = NULL THEN "none" ELSE alerts[j].status]
           about == [j \in AlertId |-> IF alerts[j] = NULL THEN NULL ELSE alerts[j].fingerprint]
           owes == [j \in AlertId |-> IF alerts[j] = NULL THEN FALSE
                                      ELSE alerts[j].pendingResolveSince # NULL]
           told == [j \in AlertId |-> chat[j].said]
<1>1. /\ alerts \in [AlertId -> Row \cup {NULL}]
      /\ chat \in [AlertId -> [said : Said, at : Nat]]
  BY DEF FreshInv, TypeOK
<1>2. ASSUME NEW what, Tells(i, what)
      PROVE  /\ told' = [told EXCEPT ![i] = what]
             /\ status' = status /\ about' = about /\ owes' = owes
  BY <1>1, <1>2 DEF Tells, Tell
<1>3. /\ Active(i) => status[i] = "active"
      /\ Due(i, t) => status[i] = "resolved" /\ owes[i]
      /\ told[i] = chat[i].said
  BY DEF Active, Due, isResolveDue
<1>4. ASSUME Settles(i, t)
      PROVE  /\ owes' = [owes EXCEPT ![i] = FALSE]
             /\ status' = status /\ about' = about /\ told' = told
  <2> DEFINE marked == [alerts[i] EXCEPT !.pendingResolveSince = NULL, !.lastNotifiedAt = t]
  <2>1. alerts[i] # NULL /\ alerts[i] \in Row
    BY <1>4, Rows DEF Settles, Due
  <2>2. /\ marked # NULL /\ marked.pendingResolveSince = NULL
        /\ marked.status = alerts[i].status /\ marked.fingerprint = alerts[i].fingerprint
    BY <2>1 DEF Row
  <2>3. alerts' = [alerts EXCEPT ![i] = marked] /\ chat' = chat
    BY <1>4 DEF Settles
  <2> HIDE DEF marked
  <2>4. QED
    BY <1>1, <2>1, <2>2, <2>3
<1> HIDE DEF status, about, owes, told
<1>5. ASSUME Active(i), Tells(i, "down") PROVE Promise!Report(i)
  <2>1. /\ status[i] = "active" /\ told' = [told EXCEPT ![i] = "down"]
        /\ status' = status /\ about' = about /\ owes' = owes
    BY <1>2, <1>3, <1>5
  <2>2. QED
    BY <2>1 DEF Promise!Report, status, about, owes, told
<1>6. ASSUME Due(i, t), Tells(i, "up") PROVE Promise!Announce(i)
  <2>1. /\ status[i] = "resolved" /\ owes[i] /\ told' = [told EXCEPT ![i] = "up"]
        /\ status' = status /\ about' = about /\ owes' = owes
    BY <1>2, <1>3, <1>6
  <2>2. QED
    BY <2>1 DEF Promise!Announce, status, about, owes, told
<1>7. ASSUME Settles(i, t) PROVE Promise!Settle(i)
  <2>1. /\ owes[i] /\ told[i] = "up" /\ owes' = [owes EXCEPT ![i] = FALSE]
        /\ status' = status /\ about' = about /\ told' = told
    BY <1>3, <1>4, <1>7 DEF Settles
  <2>2. QED
    BY <2>1 DEF Promise!Settle, status, about, owes, told
<1>8. QED
  BY <1>5, <1>6, <1>7

(* Every step of handlers whose locals are fresh maps to one of AlertPromise. *)
LEMMA PromiseStep ==
    ASSUME FreshInv, [Next]_vars
    PROVE  [Promise!Next]_(Promise!vars)
<1>1. UNCHANGED <<alerts, chat>> => UNCHANGED Promise!vars
  BY DEF Promise!vars
<1>2. CASE UNCHANGED vars \/ Tick
  BY <1>1, <1>2 DEF vars, Tick
<1>3. ASSUME NEW p \in Worker, SourceStep(p) \/ OperatorStep(p) \/ Sweep(p)
      PROVE  UNCHANGED <<alerts, chat>>
  BY <1>3 DEF SourceStep, Fire, fire, Resolve, resolveByFingerprint, ResolveService,
              resolveByService, ExpireStale, OperatorStep, Create, create, Acknowledge,
              acknowledge, ResolveById, resolve, Sweep, SweepLoad
<1>4. ASSUME NEW p \in Worker, Effect(task[p]), task[p].step # "idle"
      PROVE  Promise!Next \/ UNCHANGED Promise!vars
  <2>1. task[p].at \in Nat
    BY Basics
  <2>2. ASSUME NEW i \in AlertId, NEW row \in Row, SavesRow(i, row),
               \/ Inserts(i, row) \/ Repeats(i, row) \/ Reopens(i, row, task[p].at)
               \/ Closes(i, row) \/ Operates(i, row)
        PROVE  Promise!Next \/ UNCHANGED Promise!vars
    <3>1. /\ Inserts(i, row) => Promise!Open(i, row.fingerprint)
          /\ Repeats(i, row) => UNCHANGED Promise!vars
          /\ Reopens(i, row, task[p].at) => Promise!Reopen(i)
          /\ Closes(i, row) => Promise!Close(i)
          /\ Operates(i, row) => Promise!Operate(i)
      BY <2>1, <2>2, SavePromise
    <3>2. row.fingerprint \in Fingerprint \cup {NULL}
      BY DEF Row
    <3>3. QED
      BY <2>2, <3>1, <3>2 DEF Promise!Next
  <2>3. ASSUME NEW i \in AlertId,
               \/ Active(i) /\ Tells(i, "down")
               \/ Due(i, task[p].at) /\ Tells(i, "up")
               \/ Settles(i, task[p].at)
        PROVE  Promise!Next
    <3>1. Promise!Report(i) \/ Promise!Announce(i) \/ Promise!Settle(i)
      BY <2>1, <2>3, SendPromise
    <3>2. QED
      BY <3>1 DEF Promise!Next
  <2>4. QED
    BY <1>1, <1>4, <2>2, <2>3 DEF Effect, SourceEffect, OperatorEffect, SweepEffect, Announces
<1>5. QED
  BY <1>1, <1>2, <1>3, <1>4, ContinueEffect, OwnFresh DEF Next

-----------------------------------------------------------------------------
(* Implementing AlertPromise *)

(* Initially nobody holds anything. *)
LEMMA InitFresh == Init => FreshInv /\ Apart
<1> SUFFICES ASSUME Init PROVE FreshInv /\ Apart
  OBVIOUS
<1>1. TypeOK /\ RowsWellFormed
  BY IdleType, IdleCarries DEF Init, TypeOK, Said, RowsWellFormed
<1>2. \A p \in Worker : task[p].step = "idle"
  BY DEF Init, Idle
<1>3. ChatFresh /\ \A p \in Worker : Fresh(task[p])
  BY <1>2 DEF Init, ChatFresh, Active, Fresh
<1>4. \A p \in Worker : Held(task[p]) = {} /\ ~Sweeping(task[p])
  BY DEF Init, Idle, Held, Sweeping
<1>5. QED
  BY <1>1, <1>3, <1>4 DEF FreshInv, Apart

(* The empty table is the initial promise. *)
LEMMA InitPromise == Init => Promise!Init
  BY DEF Init, Promise!Init

(* The behaviours in which handlers stay apart are behaviours, with an      *)
(* invariant.                                                               *)
LEMMA ApartAlways == ApartSpec => Spec /\ []Apart /\ []FreshInv
<1>1. Apart /\ UNCHANGED vars => Apart'
  BY DEF Apart, vars
<1>2. FreshInv /\ Apart /\ [Next]_vars /\ TypeOK' /\ RowsWellFormed' => FreshInv'
  BY FreshStep
<1>3. ApartSpec => Spec
  BY PTL DEF ApartSpec, Spec
<1>4. ApartSpec => []Apart
  BY <1>1, InitFresh, PTL DEF ApartSpec
<1>5. QED
  BY <1>2, <1>3, <1>4, InitFresh, TypeCorrect, WellFormedRows, PTL DEF Spec

(* Handlers that stay apart keep AlertPromise, whatever their roles, however *)
(* long they take, whatever the operator does and however often they crash, *)
(* or a query or a send fails (alerts.service.ts:55-263,                    *)
(* alert-sweeper.ts:46-77).                                                 *)
THEOREM ApartKeepsPromise == ApartSpec => KeepsPromise
<1>1. FreshInv /\ [Next]_vars => [Promise!Next]_(Promise!vars)
  BY PromiseStep
<1>2. QED
  BY <1>1, InitPromise, ApartAlways, PTL DEF Spec, KeepsPromise, Promise!Spec

(* So does a service whose handlers never overlap: with no other handler    *)
(* in flight they do stay apart.                                            *)
THEOREM SerialKeepsPromise ==
    ASSUME Serial
    PROVE  Spec => KeepsPromise
<1>1. Apart'
  BY DEF Serial, Apart
<1>2. [Next]_vars => [Next /\ Apart']_vars
  BY <1>1
<1>3. Spec => ApartSpec
  BY <1>2, PTL DEF Spec, ApartSpec
<1>4. QED
  BY <1>3, ApartKeepsPromise, PTL

-----------------------------------------------------------------------------
(* What the chat knows, and when it was told *)

Owed(i) ==
    /\ alerts[i] # NULL /\ alerts[i].status = "resolved"
    /\ alerts[i].pendingResolveSince # NULL

At(step, i) == \E p \in Worker : task[p].step = step /\ task[p].entity.id = i

(* No handler is in flight for longer than the clock lets it. *)
InTime == \A p \in Worker : task[p].step # "idle" => now - task[p].at <= MaxOpTicks

(* A row's lastNotifiedAt, which is dated before the send, is hardly older  *)
(* than the report the chat has of it.                                      *)
DatedOK(i) ==
    /\ chat[i].at <= now
    /\ alerts[i] # NULL /\ chat[i].said = "down" =>
          /\ alerts[i].lastNotifiedAt # NULL
          /\ chat[i].at <= alerts[i].lastNotifiedAt + MaxOpTicks

Spaced(t) ==
    LET gap == ScheduledGap(t.entity.occurrenceCount)
    IN  gap \in Nat /\ t.at - chat[t.entity.id].at >= gap - MaxOpTicks

(* A repeat is only prepared once the last message is old enough.           *)
SpacingOK(t) ==
    /\ t.step = "saveFired" =>
          /\ t.notify => t.entity.lastNotifiedAt = t.at
          /\ t.entity.id # NULL =>
                IF t.notify THEN chat[t.entity.id].said = "down" => Spaced(t)
                ELSE t.entity.lastNotifiedAt = alerts[t.entity.id].lastNotifiedAt
    /\ t.step = "notify" =>
          /\ alerts[t.entity.id].lastNotifiedAt = t.at
          /\ chat[t.entity.id].said = "down" => Spaced(t)

DatedInv ==
    /\ InTime
    /\ \A i \in AlertId : DatedOK(i)
    /\ \A p \in Worker : SpacingOK(task[p])

DatedPre == FreshInv /\ Apart /\ DatedInv

(* The steps of handlers take no time. *)
LEMMA NoTime ==
    ASSUME NEW p \in Worker,
           SourceStep(p) \/ OperatorStep(p) \/ Sweep(p) \/ Continue(p) \/ Fail(p)
    PROVE  now' = now
  BY DEF SourceStep, Fire, Resolve, ResolveService, ExpireStale, OperatorStep, Create,
         Acknowledge, ResolveById, Sweep, SweepLoad, Continue, FireFindPending, FireSave,
         FireConflict, Notify, SaveClosed, ExpireFind, ExpireSave, Announce, Mark, SaveAdmin,
         Fail, Abort, ExpireFails, MarkFails, AnnounceFails, NoFault, Fault, Request

(* The first ones write and tell nothing. *)
LEMMA StartsQuiet ==
    ASSUME NEW p \in Worker, SourceStep(p) \/ OperatorStep(p) \/ Sweep(p)
    PROVE  UNCHANGED <<alerts, chat>>
  BY DEF SourceStep, Fire, fire, Resolve, resolveByFingerprint,
         ResolveService, resolveByService, ExpireStale, OperatorStep, Create, create,
         Acknowledge, acknowledge, ResolveById, resolve, Sweep, SweepLoad

(* Time passes only while every handler has some left. *)
LEMMA InTimeStep ==
    ASSUME FreshInv, InTime, [Next]_vars
    PROVE  InTime'
<1>1. now \in Nat /\ MaxOpTicks \in Nat /\ \A p \in Worker : task[p].at \in Nat
  BY Basics, LifecycleAssumption DEF FreshInv, TypeOK
<1>2. CASE UNCHANGED vars
  BY <1>2 DEF vars, InTime
<1>3. CASE Tick
  BY <1>1, <1>3 DEF Tick, InTime
<1>4. ASSUME NEW p \in Worker, SourceStep(p) \/ OperatorStep(p) \/ Sweep(p)
      PROVE  InTime'
  BY <1>1, <1>4, NoTime, OwnFresh DEF Starts, Others, InTime
<1>5. ASSUME NEW p \in Worker, Continue(p) \/ Fail(p)
      PROVE  InTime'
  BY <1>5, NoTime, OwnFresh DEF GoesOn, Others, InTime
<1>6. QED
  BY <1>2, <1>3, <1>4, <1>5 DEF Next

(* A gap that the policy asks for a repeat is the schedule's. *)
LEMMA BackoffScheduled ==
    ASSUME NEW n \in 1..MaxOccurrence
    PROVE  /\ repeatBackoff(NextOccurrence(n)) = ScheduledGap(NextOccurrence(n))
           /\ repeatBackoff(NextOccurrence(n)) \in Nat
<1>1. NextOccurrence(n) \in Nat /\ NextOccurrence(n) >= 2
  BY PolicyAssumption, ServiceAssumption DEF NextOccurrence
<1>2. QED
  BY <1>1, PolicyAssumption DEF repeatBackoff, ScheduledGap

(* What a handler does not see change under it stays spaced. *)
LEMMA OthersSpaced ==
    ASSUME DatedPre, NEW p \in Worker, Others(p), Effect(task[p]), NEW q \in Worker \ {p}
    PROVE  SpacingOK(task[q])'
<1>1. task'[q] = task[q] /\ SpacingOK(task[q])
  BY DEF Others, DatedPre, DatedInv
<1>2. ASSUME task[q].step \in {"saveFired", "notify"}, task[q].entity.id # NULL
      PROVE  /\ alerts'[task[q].entity.id] = alerts[task[q].entity.id]
             /\ chat'[task[q].entity.id] = chat[task[q].entity.id]
  <2>1. task[q].entity.id \in AlertId
    BY <1>2, Basics, RowId DEF DatedPre, LocalsOK
  <2>2. QED
    BY <1>2, <2>1, EffectTouches, ApartUntouched DEF DatedPre, Uses
<1>3. task[q].step = "notify" => task[q].entity.id # NULL
  BY Basics DEF DatedPre, LocalsOK
<1>4. QED
  BY <1>1, <1>2, <1>3 DEF SpacingOK, Spaced

(* A step that neither writes nor tells. *)
LEMMA QuietDated ==
    ASSUME DatedPre, NEW p \in Worker, UNCHANGED <<alerts, chat, now>>, Others(p),
           SpacingOK(task[p])'
    PROVE  /\ \A i \in AlertId : DatedOK(i)'
           /\ \A q \in Worker : SpacingOK(task[q])'
<1>1. \A i \in AlertId : DatedOK(i)'
  BY DEF DatedPre, DatedInv, DatedOK
<1>2. \A q \in Worker \ {p} : SpacingOK(task[q])'
  BY OthersSpaced DEF Effect
<1>3. QED
  BY <1>1, <1>2

(* A handler that turns to something else than a report or a request. *)
LEMMA TurnsElsewhere ==
    ASSUME FreshInv, NEW p \in Worker,
           \/ FireConflict(p) \/ Notify(p) \/ SaveClosed(p) \/ ExpireFind(p) \/ ExpireSave(p)
           \/ \E alert \in task[p].batch : Announce(p, alert)
           \/ Mark(p) \/ SaveAdmin(p) \/ Fail(p)
    PROVE  task'[p].step \notin {"saveFired", "notify", "saveAdmin"}
<1>1. CASE FireConflict(p) \/ Notify(p) \/ SaveAdmin(p) \/ Abort(p)
  <2>1. task' = [task EXCEPT ![p] = Idle]
    BY <1>1 DEF FireConflict, fireConflict, Notify, SaveAdmin, saveAdmin, Abort
  <2>2. task'[p] = Idle
    BY <2>1, EndsFresh
  <2>3. QED
    BY <2>2 DEF Idle
<1>2. CASE SaveClosed(p)
  <2>1. PICK rest : \/ task' = [task EXCEPT ![p] = Idle]
                    \/ task' = [task EXCEPT ![p] = [task[p] EXCEPT !.batch = rest]]
    BY <1>2 DEF SaveClosed, saveClosed
  <2>2. Idle.step = "idle" /\ [task[p] EXCEPT !.batch = rest].step = task[p].step
    BY Basics DEF Idle, Task
  <2>3. task[p].step = "saveClosed"
    BY <1>2 DEF SaveClosed, saveClosed
  <2>4. QED
    BY <2>1, <2>2, <2>3, OneTask DEF FreshInv
<1>3. CASE ExpireFind(p)
  <2>1. PICK batch, entity, rest :
           \/ task' = [task EXCEPT ![p] = [task[p] EXCEPT !.step = "saveExpired",
                                                          !.batch = batch,
                                                          !.entity = entity]]
           \/ NextIn(p, "expire", rest)
    BY <1>3 DEF ExpireFind
  <2>2. [task[p] EXCEPT !.step = "saveExpired", !.batch = batch, !.entity = entity].step
           = "saveExpired"
    BY Basics DEF Task
  <2>3. task[p].step = "expire"
    BY <1>3 DEF ExpireFind
  <2>4. QED
    BY <2>1, <2>2, <2>3, OneTask, NextInTask DEF FreshInv
<1>4. CASE ExpireSave(p) \/ ExpireFails(p) \/ Mark(p) \/ MarkFails(p)
  BY <1>4, NextInTask DEF ExpireSave, ExpireFails, Mark, MarkFails
<1>5. ASSUME NEW alert \in task[p].batch, Announce(p, alert) \/ AnnounceFails(p, alert)
      PROVE  task'[p].step \notin {"saveFired", "notify", "saveAdmin"}
  <2> DEFINE u == [task[p] EXCEPT !.step = "markNotified", !.batch = @ \ {alert},
                                  !.entity = alert]
  <2>1. u.step = "markNotified"
    BY Basics DEF Task
  <2>2. Announce(p, alert) => task' = [task EXCEPT ![p] = u]
    BY DEF Announce
  <2> HIDE DEF u
  <2>3. Announce(p, alert) => task'[p] = u
    BY <2>2, OneTask DEF FreshInv
  <2>4. AnnounceFails(p, alert) => task'[p].step \notin {"saveFired", "notify", "saveAdmin"}
    BY NextInTask DEF AnnounceFails
  <2>5. QED
    BY <1>5, <2>1, <2>3, <2>4
<1>6. QED
  BY <1>1, <1>2, <1>3, <1>4, <1>5 DEF Fail

(* A repeat that fire asks for comes a scheduled gap after the last message. *)
LEMMA FireSpaced ==
    ASSUME DatedPre, NEW p \in Worker, NEW problem \in Problems,
           Fire(p, problem)
    PROVE  SpacingOK(task[p])'
<1>1. UNCHANGED <<alerts, chat>> /\ task[p].step = "idle" /\ now \in Nat
  BY DEF Fire, fire, DatedPre, FreshInv, TypeOK
<1>2. ASSUME NEW t, NEW row, NEW notify, task' = [task EXCEPT ![p] = ToSave(t, row, notify)]
      PROVE  /\ task'[p].step = "saveFired" /\ task'[p].at = t
             /\ task'[p].entity = row /\ task'[p].notify = notify
  <2>1. task'[p] = ToSave(t, row, notify)
    BY <1>2, OneTask DEF DatedPre, FreshInv
  <2>2. QED
    BY <2>1 DEF ToSave, Idle
<1>3. CASE task' = [task EXCEPT ![p] = ToSave(now, NewAlert(problem, now), TRUE)]
  <2>1. NewAlert(problem, now).id = NULL /\ NewAlert(problem, now).lastNotifiedAt = now
    BY DEF NewAlert
  <2>2. QED
    BY <1>2, <1>3, <2>1 DEF SpacingOK
<1>4. ASSUME NEW i \in ActiveFor(problem.fingerprint),
             LET counted == [alerts[i] EXCEPT !.occurrenceCount = NextOccurrence(@)]
             IN  task' = [task EXCEPT ![p] = ToSave(now, Refreshed(alerts[i], now),
                                                    shouldNotifyRepeat(counted, now))]
      PROVE  SpacingOK(task[p])'
  <2> DEFINE counted == [alerts[i] EXCEPT !.occurrenceCount = NextOccurrence(@)]
             notify == shouldNotifyRepeat(counted, now)
             row == Refreshed(alerts[i], now)
             gap == repeatBackoff(counted.occurrenceCount)
  <2>1. i \in AlertId /\ Active(i) /\ alerts[i] \in Row /\ alerts[i].id = i /\ i # NULL
    BY Rows, ServiceAssumption DEF ActiveFor, Active, DatedPre
  <2>2. /\ row.id = i
        /\ row.lastNotifiedAt = IF notify THEN now ELSE alerts[i].lastNotifiedAt
        /\ row.occurrenceCount = NextOccurrence(alerts[i].occurrenceCount)
    BY <1>1, <2>1, RefreshedKeeps, RefreshedType
  <2>3. /\ counted.lastNotifiedAt = alerts[i].lastNotifiedAt
        /\ counted.occurrenceCount = NextOccurrence(alerts[i].occurrenceCount)
        /\ alerts[i].lastNotifiedAt \in Nat \cup {NULL}
    BY <2>1, NextOccurrenceType DEF Row
  <2>4. gap = ScheduledGap(row.occurrenceCount) /\ gap \in Nat
    BY <2>1, <2>2, <2>3, BackoffScheduled DEF Row
  <2>5. chat[i].said = "down" =>
           /\ alerts[i].lastNotifiedAt # NULL
           /\ chat[i].at <= alerts[i].lastNotifiedAt + MaxOpTicks
    BY <2>1 DEF DatedPre, DatedInv, DatedOK, Active
  <2>6. chat[i].at \in Nat /\ MaxOpTicks \in Nat
    BY <2>1, LifecycleAssumption DEF DatedPre, FreshInv, TypeOK
  <2>7. notify => \/ counted.lastNotifiedAt = NULL
                  \/ now - counted.lastNotifiedAt >= gap
    BY DEF shouldNotifyRepeat
  <2>8. task' = [task EXCEPT ![p] = ToSave(now, row, notify)]
    BY <1>4
  <2> HIDE DEF counted, row, notify, gap
  <2>9. notify /\ chat[i].said = "down" => now - chat[i].at >= gap - MaxOpTicks
    BY <1>1, <2>3, <2>4, <2>5, <2>6, <2>7
  <2>10. /\ task'[p].step = "saveFired" /\ task'[p].at = now
         /\ task'[p].entity = row /\ task'[p].notify = notify
    BY <1>2, <2>8
  <2>11. notify /\ chat[i].said = "down" => Spaced(task[p])'
    BY <1>1, <2>2, <2>4, <2>9, <2>10 DEF Spaced
  <2>12. QED
    BY <1>1, <2>1, <2>2, <2>10, <2>11 DEF SpacingOK
<1>5. CASE task' = [task EXCEPT ![p] = [Idle EXCEPT !.step = "findPending",
                                                    !.at = now, !.problem = problem]]
  <2> DEFINE u == [Idle EXCEPT !.step = "findPending", !.at = now, !.problem = problem]
  <2>1. u.step = "findPending"
    BY DEF Idle
  <2> HIDE DEF u
  <2>2. task'[p] = u
    BY <1>5, OneTask DEF DatedPre, FreshInv, u
  <2>3. QED
    BY <2>1, <2>2 DEF SpacingOK
<1>6. QED
  BY <1>3, <1>4, <1>5 DEF Fire, fire

(* A reopened row keeps the date of its last message. *)
LEMMA FindPendingSpaced ==
    ASSUME DatedPre, NEW p \in Worker, FireFindPending(p)
    PROVE  SpacingOK(task[p])'
<1> DEFINE problem == task[p].problem
           t == task[p].at
<1>1. UNCHANGED <<alerts, chat>> /\ t \in Nat
  BY Basics DEF FireFindPending, fireFindPending, DatedPre
<1>2. ASSUME NEW row, NEW notify, task' = [task EXCEPT ![p] = ToSave(t, row, notify)],
             IF notify THEN row.id = NULL /\ row.lastNotifiedAt = t
             ELSE row.id # NULL /\ row.lastNotifiedAt = alerts[row.id].lastNotifiedAt
      PROVE  SpacingOK(task[p])'
  <2>1. task'[p] = ToSave(t, row, notify)
    BY <1>2, OneTask DEF DatedPre, FreshInv
  <2>2. /\ task'[p].step = "saveFired" /\ task'[p].at = t
        /\ task'[p].entity = row /\ task'[p].notify = notify
    BY <2>1 DEF ToSave, Idle
  <2>3. QED
    BY <1>1, <1>2, <2>2 DEF SpacingOK
<1>3. CASE task' = [task EXCEPT ![p] = ToSave(t, NewAlert(problem, t), TRUE)]
  <2>1. NewAlert(problem, t).id = NULL /\ NewAlert(problem, t).lastNotifiedAt = t
    BY DEF NewAlert
  <2> HIDE DEF t, problem
  <2>2. QED
    BY <1>2, <1>3, <2>1
<1>4. ASSUME NEW i \in LatestResolved(problem.fingerprint),
             task' = [task EXCEPT ![p] = ToSave(t, Reopened(alerts[i], t), FALSE)]
      PROVE  SpacingOK(task[p])'
  <2>1. i \in AlertId /\ alerts[i] # NULL
    BY DEF LatestResolved, ResolvedFor
  <2>2. alerts[i] \in Row /\ alerts[i].id = i /\ i # NULL
    BY <2>1, Rows, ServiceAssumption DEF DatedPre
  <2>3. Reopened(alerts[i], t).id = i
        /\ Reopened(alerts[i], t).lastNotifiedAt = alerts[i].lastNotifiedAt
    BY <2>2 DEF Reopened, Row
  <2> HIDE DEF t, problem
  <2>4. QED
    BY <1>2, <1>4, <2>2, <2>3
<1>5. QED
  BY <1>3, <1>4 DEF FireFindPending, fireFindPending

(* A save that dates the row's last message as it was, or as now. *)
LEMMA SavedDated ==
    ASSUME DatedPre, NEW p \in Worker, task[p].step # "idle", now' = now,
           NEW i \in AlertId, NEW row \in Row, SavesRow(i, row),
           \/ alerts[i] = NULL
           \/ row.lastNotifiedAt \in {alerts[i].lastNotifiedAt, task[p].at}
    PROVE  \A j \in AlertId : DatedOK(j)'
<1>1. /\ alerts'[i] = row /\ row # NULL /\ chat' = chat
      /\ \A j \in AlertId \ {i} : alerts'[j] = alerts[j]
  BY DEF SavesRow, DatedPre, FreshInv, TypeOK
<1>2. DatedOK(i) /\ (alerts[i] = NULL => chat[i].said = "nothing")
  BY DEF DatedPre, DatedInv, FreshInv, ChatFresh
<1>3. chat[i].at <= task[p].at + MaxOpTicks /\ task[p].at # NULL
  <2>1. /\ now \in Nat /\ task[p].at \in Nat /\ chat[i].at \in Nat /\ MaxOpTicks \in Nat
        /\ now - task[p].at <= MaxOpTicks /\ chat[i].at <= now
    BY <1>2, Basics, LifecycleAssumption DEF DatedPre, DatedInv, DatedOK, InTime, FreshInv, TypeOK
  <2>2. task[p].at # NULL
    BY <2>1, PolicyAssumption
  <2>3. QED
    BY <2>1, <2>2
<1>4. DatedOK(i)'
  BY <1>1, <1>2, <1>3 DEF DatedOK
<1>5. \A j \in AlertId \ {i} : DatedOK(j)'
  BY <1>1 DEF DatedPre, DatedInv, DatedOK
<1>6. QED
  BY <1>4, <1>5

(* The save at the end of fire. *)
LEMMA FireSaveDated ==
    ASSUME DatedPre, NEW p \in Worker, FireSave(p)
    PROVE  (\A i \in AlertId : DatedOK(i)') /\ SpacingOK(task[p])'
<1> DEFINE entity == task[p].entity
           saved == [entity EXCEPT !.id = SavedId(entity)]
           u == [task[p] EXCEPT !.step = "notify", !.entity = saved]
<1>1. /\ task[p].step = "saveFired" /\ Save(entity) /\ UNCHANGED <<chat, now>>
      /\ entity \in Row /\ SpacingOK(task[p]) /\ task[p].notify \in BOOLEAN
  BY Basics DEF FireSave, fireSave, NoFault, LocalsOK, DatedPre, DatedInv, Task
<1>2. PICK id \in AlertId : /\ id = SavedId(entity) /\ saved \in Row
                            /\ alerts' = [alerts EXCEPT ![id] = saved]
  BY <1>1, SaveType DEF DatedPre, FreshInv
<1>3. alerts'[id] = saved
  BY <1>2 DEF DatedPre, FreshInv, TypeOK
<1>4. /\ saved.id = id
      /\ saved.lastNotifiedAt = entity.lastNotifiedAt
      /\ saved.occurrenceCount = entity.occurrenceCount
  BY <1>1, <1>2 DEF Row
<1>5. /\ entity.id # NULL => id = entity.id
      /\ entity.id = NULL => alerts[id] = NULL /\ chat[id].said = "nothing"
  <2>1. entity.id = NULL => alerts[id] = NULL
    BY <1>1, <1>2 DEF Save, HasRoom, SavedId
  <2>2. QED
    BY <1>2, <2>1 DEF SavedId, DatedPre, FreshInv, ChatFresh
<1>6. u.step = "notify" /\ u.at = task[p].at /\ u.entity = saved
  <2> HIDE DEF saved
  <2>1. QED
    BY Basics DEF Task, DatedPre
<1>7. task' = [task EXCEPT ![p] = IF task[p].notify THEN u ELSE Idle]
  BY DEF FireSave, fireSave
<1> HIDE DEF saved, u
<1>8. task'[p] = IF task[p].notify THEN u ELSE Idle
  BY <1>7, OneTask DEF DatedPre, FreshInv
<1>9. \A i \in AlertId : DatedOK(i)'
  <2>1. \/ alerts[id] = NULL
        \/ saved.lastNotifiedAt \in {alerts[id].lastNotifiedAt, task[p].at}
    BY <1>1, <1>4, <1>5 DEF SpacingOK
  <2>2. SavesRow(id, saved)
    BY <1>1, <1>2, <1>4 DEF SavesRow
  <2>3. QED
    BY <1>1, <1>2, <2>1, <2>2, SavedDated
<1>10. CASE task[p].notify
  <2>1. chat[id].said = "down" =>
           /\ ScheduledGap(saved.occurrenceCount) \in Nat
           /\ task[p].at - chat[id].at >= ScheduledGap(saved.occurrenceCount) - MaxOpTicks
    BY <1>1, <1>4, <1>5, <1>10 DEF SpacingOK, Spaced
  <2>2. saved.lastNotifiedAt = task[p].at
    BY <1>1, <1>4, <1>10 DEF SpacingOK
  <2>3. SpacingOK(task[p])'
    BY <1>1, <1>3, <1>4, <1>6, <1>8, <1>10, <2>1, <2>2 DEF SpacingOK, Spaced
  <2>4. QED
    BY <1>9, <2>3
<1>11. CASE ~task[p].notify
  BY <1>8, <1>9, <1>11 DEF SpacingOK, Idle
<1>12. QED
  BY <1>1, <1>10, <1>11

(* The other saves keep that date. *)
LEMMA OtherSaveDated ==
    ASSUME DatedPre, NEW p \in Worker, SaveClosed(p) \/ ExpireSave(p) \/ SaveAdmin(p)
    PROVE  \A i \in AlertId : DatedOK(i)'
<1>1. PICK entity \in Row :
         /\ task[p].step # "idle" /\ Save(entity) /\ UNCHANGED chat
         /\ entity.id # NULL /\ entity.lastNotifiedAt = alerts[entity.id].lastNotifiedAt
  <2>1. CASE ExpireSave(p)
    <3>1. task[p].step = "saveExpired" /\ Save(task[p].entity) /\ UNCHANGED chat
      BY <2>1 DEF ExpireSave
    <3>2. task[p].entity \in Row /\ SaveExpiredFresh(task[p])
      BY <3>1, Basics DEF LocalsOK, Fresh, DatedPre
    <3>3. QED
      BY <3>1, <3>2 DEF SaveExpiredFresh
  <2>2. CASE SaveAdmin(p)
    <3>1. task[p].step = "saveAdmin" /\ Save(task[p].entity) /\ UNCHANGED chat
      BY <2>2 DEF SaveAdmin, saveAdmin
    <3>2. task[p].entity \in Row /\ SaveAdminFresh(task[p])
      BY <3>1, Basics DEF LocalsOK, Fresh, DatedPre
    <3>3. QED
      BY <3>1, <3>2 DEF SaveAdminFresh
  <2>3. CASE SaveClosed(p)
    <3>1. PICK entity \in task[p].batch : task[p].step = "saveClosed" /\ Save(entity)
      BY <2>3 DEF SaveClosed, saveClosed
    <3>2. /\ entity \in Row /\ entity.id # NULL /\ UNCHANGED chat
          /\ Active(entity.id) /\ entity = Closed(alerts[entity.id], task[p].at, FALSE)
      BY <2>3, <3>1, Basics DEF SaveClosed, Fresh, SaveClosedFresh, LocalsOK, DatedPre
    <3>3. alerts[entity.id] \in Row
      BY <3>2, Rows, RowId DEF Active, DatedPre
    <3>4. entity.lastNotifiedAt = Closed(alerts[entity.id], task[p].at, FALSE).lastNotifiedAt
      BY <3>2
    <3>5. QED
      BY <3>1, <3>2, <3>3, <3>4 DEF Closed, Row
  <2>4. QED
    BY <2>1, <2>2, <2>3
<1>2. entity.id \in AlertId /\ SavesRow(entity.id, entity)
  <2>1. SavedId(entity) = entity.id /\ [entity EXCEPT !.id = entity.id] = entity
    BY <1>1 DEF SavedId, Row
  <2>2. QED
    BY <1>1, <2>1, RowId DEF Save, SavesRow
<1>3. QED
  BY <1>1, <1>2, NoTime, SavedDated DEF Continue

(* The chat hears at most a handler's time after the row says it did. *)
LEMMA SendDated ==
    ASSUME DatedPre, NEW p \in Worker,
           \/ Notify(p) \/ Mark(p)
           \/ \E alert \in task[p].batch : Announce(p, alert) \/ AnnounceFails(p, alert)
    PROVE  \A i \in AlertId : DatedOK(i)'
<1>1. now' = now /\ now \in Nat
  BY NoTime DEF Continue, Fail, DatedPre, FreshInv, TypeOK
<1>2. ASSUME NEW i \in AlertId, NEW what, Tell(i, what)
      PROVE  /\ chat'[i].said = what /\ chat'[i].at = now
             /\ \A j \in AlertId \ {i} : chat'[j] = chat[j]
  BY <1>2 DEF Tell, DatedPre, FreshInv, TypeOK
<1>3. CASE Notify(p)
  <2>1. PICK i \in AlertId :
           /\ UNCHANGED alerts /\ Tell(i, "down")
           /\ task[p].step = "notify" /\ alerts[i].lastNotifiedAt = task[p].at
    BY <1>3, Basics, RowId DEF Notify, LocalsOK, DatedPre, DatedInv, SpacingOK
  <2>2. now <= task[p].at + MaxOpTicks /\ task[p].at # NULL
    <3>1. now - task[p].at <= MaxOpTicks /\ task[p].at \in Nat /\ MaxOpTicks \in Nat
      BY <2>1, Basics, LifecycleAssumption DEF DatedPre, DatedInv, InTime
    <3>2. QED
      BY <1>1, <3>1, PolicyAssumption
  <2>3. DatedOK(i)'
    BY <1>1, <1>2, <2>1, <2>2 DEF DatedOK
  <2>4. \A j \in AlertId \ {i} : DatedOK(j)'
    BY <1>1, <1>2, <2>1 DEF DatedPre, DatedInv, DatedOK
  <2>5. QED
    BY <2>3, <2>4
<1>4. ASSUME NEW alert \in task[p].batch, Announce(p, alert) \/ AnnounceFails(p, alert)
      PROVE  \A i \in AlertId : DatedOK(i)'
  <2>1. /\ alert.id \in AlertId /\ UNCHANGED alerts
        /\ UNCHANGED chat \/ Tell(alert.id, "up")
    BY <1>4, Basics, RowId DEF Announce, AnnounceFails, LocalsOK, DatedPre
  <2>2. CASE UNCHANGED chat
    BY <1>1, <2>1, <2>2 DEF DatedPre, DatedInv, DatedOK
  <2>3. CASE Tell(alert.id, "up")
    <3>1. DatedOK(alert.id)'
      BY <1>1, <1>2, <2>1, <2>3 DEF DatedOK
    <3>2. \A j \in AlertId \ {alert.id} : DatedOK(j)'
      BY <1>1, <1>2, <2>1, <2>3 DEF DatedPre, DatedInv, DatedOK
    <3>3. QED
      BY <3>1, <3>2
  <2>4. QED
    BY <2>1, <2>2, <2>3
<1>5. CASE Mark(p)
  <2> DEFINE i == task[p].entity.id
  <2>1. /\ task[p].step = "markNotified" /\ UNCHANGED chat
        /\ markResolveNotified(i, task[p].at) /\ i \in AlertId
    BY <1>5, Basics, RowId DEF Mark, LocalsOK, DatedPre
  <2>2. chat[i].said = "up"
    BY <2>1, Basics DEF Fresh, MarkFresh, DatedPre
  <2>3. \A j \in AlertId \ {i} : alerts'[j] = alerts[j]
    BY <2>1 DEF markResolveNotified
  <2> HIDE DEF i
  <2>4. QED
    BY <1>1, <2>1, <2>2, <2>3 DEF DatedPre, DatedInv, DatedOK
<1>6. QED
  BY <1>3, <1>4, <1>5

(* Every step of handlers that are apart. *)
LEMMA DatedStep ==
    ASSUME DatedPre, [Next]_vars
    PROVE  DatedInv'
<1>1. InTime'
  BY InTimeStep DEF DatedPre, DatedInv
<1>2. SUFFICES (\A i \in AlertId : DatedOK(i)') /\ (\A p \in Worker : SpacingOK(task[p])')
  BY <1>1 DEF DatedInv
<1>3. CASE UNCHANGED vars \/ Tick
  <2>1. now' \in Nat /\ now \in Nat /\ now <= now' /\ UNCHANGED <<alerts, task, chat>>
    BY <1>3 DEF vars, Tick, DatedPre, FreshInv, TypeOK
  <2>2. \A i \in AlertId : DatedOK(i)'
    BY <2>1 DEF DatedPre, DatedInv, DatedOK, FreshInv, TypeOK
  <2>3. \A p \in Worker : SpacingOK(task[p])'
    BY <2>1 DEF DatedPre, DatedInv, SpacingOK, Spaced
  <2>4. QED
    BY <2>2, <2>3
<1>4. ASSUME NEW p \in Worker, SourceStep(p) \/ OperatorStep(p) \/ Sweep(p)
      PROVE  (\A i \in AlertId : DatedOK(i)') /\ (\A q \in Worker : SpacingOK(task[q])')
  <2>1. task[p].step = "idle" /\ Starts(p) /\ UNCHANGED <<alerts, chat, now>>
    BY <1>4, OwnFresh, NoTime, StartsQuiet DEF DatedPre
  <2>2. SpacingOK(task[p])'
    <3>1. CASE p \in Firers /\ \E problem \in Problems : Fire(p, problem)
      BY <3>1, FireSpaced
    <3>2. ASSUME NEW u, u.step \notin {"saveFired", "notify"},
                 task' = [task EXCEPT ![p] = u]
          PROVE  SpacingOK(task[p])'
      BY <3>2, OneTask DEF DatedPre, FreshInv, SpacingOK
    <3>3. ASSUME NEW step \in {"saveClosed", "expire", "announce"}, NEW batch,
                 task' = [task EXCEPT ![p] = [Idle EXCEPT !.step = step, !.at = now,
                                                          !.batch = batch]]
          PROVE  SpacingOK(task[p])'
      <4>1. [Idle EXCEPT !.step = step, !.at = now, !.batch = batch].step = step
        BY DEF Idle
      <4>2. QED
        BY <3>2, <3>3, <4>1
    <3>4. CASE UNCHANGED task
      BY <2>1, <3>4 DEF SpacingOK
    <3>5. CASE \/ \E f \in Fingerprint : Resolve(p, f)
               \/ \E s \in Service : ResolveService(p, s)
      BY <3>3, <3>4, <3>5
         DEF Resolve, resolveByFingerprint, ResolveService, resolveByService
    <3>6. CASE ExpireStale(p) \/ Sweep(p)
      BY <3>3, <3>6 DEF ExpireStale, Sweep, SweepLoad
    <3>7. CASE \E id \in AlertId : Acknowledge(p, id) \/ ResolveById(p, id)
      <4>1. PICK row : task' = [task EXCEPT ![p] = [Idle EXCEPT !.step = "saveAdmin",
                                                                !.at = now, !.entity = row]]
        BY <3>7 DEF Acknowledge, acknowledge, ResolveById, resolve
      <4>2. [Idle EXCEPT !.step = "saveAdmin", !.at = now, !.entity = row].step = "saveAdmin"
        BY DEF Idle
      <4>3. QED
        BY <3>2, <4>1, <4>2
    <3>8. ASSUME NEW s \in Service, Create(p, s)
          PROVE  SpacingOK(task[p])'
      <4> DEFINE problem == [fingerprint |-> NULL, service |-> s]
      <4>1. task' = [task EXCEPT ![p] = ToSave(now, NewAlert(problem, now), FALSE)]
        BY <3>8 DEF Create, create
      <4>2. NewAlert(problem, now).id = NULL
        BY DEF NewAlert
      <4> HIDE DEF problem
      <4>3. task'[p] = ToSave(now, NewAlert(problem, now), FALSE)
        BY <4>1, OneTask DEF DatedPre, FreshInv
      <4>4. /\ task'[p].step = "saveFired" /\ ~task'[p].notify
            /\ task'[p].entity = NewAlert(problem, now)
        BY <4>3 DEF ToSave, Idle
      <4>5. QED
        BY <4>2, <4>4 DEF SpacingOK
    <3>9. QED
      BY <1>4, <3>1, <3>5, <3>6, <3>7, <3>8 DEF SourceStep, OperatorStep
  <2>3. QED
    BY <2>1, <2>2, QuietDated DEF Starts
<1>5. ASSUME NEW p \in Worker, Continue(p) \/ Fail(p)
      PROVE  (\A i \in AlertId : DatedOK(i)') /\ (\A q \in Worker : SpacingOK(task[q])')
  <2>1. Others(p) /\ now' = now /\ Effect(task[p])
    BY <1>5, OwnFresh, NoTime, ContinueEffect DEF DatedPre, GoesOn
  <2>2. \A q \in Worker \ {p} : SpacingOK(task[q])'
    BY <2>1, OthersSpaced
  <2>3. SpacingOK(task[p])'
    <3>1. CASE FireFindPending(p)
      BY <3>1, FindPendingSpaced
    <3>2. CASE FireSave(p)
      BY <3>2, FireSaveDated
    <3>3. CASE ~FireFindPending(p) /\ ~FireSave(p)
      <4>1. task'[p].step \notin {"saveFired", "notify"}
        BY <1>5, <3>3, TurnsElsewhere DEF DatedPre, Continue
      <4>2. QED
        BY <4>1 DEF SpacingOK
    <3>4. QED
      BY <3>1, <3>2, <3>3
  <2>4. \A i \in AlertId : DatedOK(i)'
    <3>1. CASE FireSave(p)
      BY <3>1, FireSaveDated
    <3>2. CASE SaveClosed(p) \/ ExpireSave(p) \/ SaveAdmin(p)
      BY <3>2, OtherSaveDated
    <3>3. CASE \/ Notify(p) \/ Mark(p)
               \/ \E alert \in task[p].batch : Announce(p, alert) \/ AnnounceFails(p, alert)
      BY <3>3, SendDated
    <3>4. CASE \/ FireFindPending(p) \/ FireConflict(p) \/ ExpireFind(p)
               \/ Abort(p) \/ ExpireFails(p) \/ MarkFails(p)
      <4>1. UNCHANGED <<alerts, chat>>
        BY <3>4 DEF FireFindPending, fireFindPending, FireConflict, fireConflict, ExpireFind,
                    Abort, ExpireFails, MarkFails
      <4>2. QED
        BY <2>1, <2>3, <4>1, QuietDated
    <3>5. QED
      BY <1>5, <3>1, <3>2, <3>3, <3>4 DEF Continue, Fail
  <2>5. QED
    BY <2>2, <2>3, <2>4
<1>6. QED
  BY <1>3, <1>4, <1>5 DEF Next

LEMMA ApartDated == ApartSpec => []DatedPre
<1>1. Init => DatedInv
  BY DEF Init, DatedInv, InTime, DatedOK, SpacingOK, Idle
<1>2. FreshInv /\ Apart /\ DatedInv /\ [Next]_vars => DatedInv'
  BY DatedStep DEF DatedPre
<1>3. ApartSpec => []DatedInv
  BY <1>1, <1>2, ApartAlways, PTL DEF Spec
<1>4. QED
  BY <1>3, ApartAlways, PTL DEF DatedPre

(* Whatever fails, a repeat about an alert follows the last message by the  *)
(* gap its occurrence calls for, less a handler's time, if handlers stay    *)
(* apart (alert-policy.ts:24-38).                                           *)
THEOREM RepeatsAreSpaced == ApartSpec => RepeatsSpaced
<1>1. ASSUME DatedPre, NEW p \in Worker, Notify(p), chat[task[p].entity.id].said = "down"
      PROVE  now - chat[task[p].entity.id].at
                >= ScheduledGap(task[p].entity.occurrenceCount) - MaxOpTicks
  <2> DEFINE id == task[p].entity.id
             gap == ScheduledGap(task[p].entity.occurrenceCount)
  <2>1. /\ task[p].step = "notify" /\ id \in AlertId
        /\ task[p].entity.occurrenceCount \in 1..MaxOccurrence
    BY <1>1, Basics, RowId DEF Notify, DatedPre, LocalsOK, Row
  <2>2. gap \in Nat /\ task[p].at - chat[id].at >= gap - MaxOpTicks
    BY <1>1, <2>1 DEF DatedPre, DatedInv, SpacingOK, Spaced
  <2>3. /\ now \in Nat /\ chat[id].at \in Nat /\ task[p].at \in Nat /\ task[p].at <= now
        /\ MaxOpTicks \in Nat
    BY <1>1, <2>1, Basics, LifecycleAssumption DEF DatedPre, FreshInv, TypeOK
  <2> HIDE DEF id, gap
  <2>4. now - chat[id].at >= gap - MaxOpTicks
    BY <2>2, <2>3
  <2>5. QED
    BY <2>4 DEF id, gap
<1>2. DatedPre =>
         [\A p \in Worker :
             LET row == task[p].entity IN
             Notify(p) /\ chat[row.id].said = "down"
             => now - chat[row.id].at >= ScheduledGap(row.occurrenceCount) - MaxOpTicks]_vars
  BY <1>1
<1>3. QED
  BY <1>2, ApartDated, PTL DEF RepeatsSpaced

-----------------------------------------------------------------------------
(* What the chat knows as long as nothing fails *)

(* Only the message that is about to be sent is missing from the chat.      *)
ToldOK(i) ==
    /\ Active(i) => chat[i].said = "down" \/ At("notify", i)
    /\ Owed(i) => chat[i].said = "down" \/ At("markNotified", i)

(* A row that fire inserts it reports.                                      *)
ReportsNew(t) ==
    /\ t.step # "saveAdmin"
    /\ t.step = "saveFired" /\ ~t.notify => t.entity.id # NULL

Told ==
    /\ \A i \in AlertId : ToldOK(i)
    /\ \A p \in Worker : ReportsNew(task[p])

ToldInv == Untroubled => Told

(* Nobody else is about to send what a handler that saves is busy with.     *)
LEMMA KnownRow ==
    ASSUME FreshInv, Apart, Told, NEW p \in Worker, NEW i \in AlertId, Uses(task[p], i),
           task[p].step \notin {"notify", "markNotified"}, Active(i) \/ Owed(i)
    PROVE  chat[i].said = "down"
<1> SUFFICES ASSUME NEW step \in {"notify", "markNotified"}, At(step, i)
             PROVE  FALSE
  BY DEF Told, ToldOK
<1>1. PICK q \in Worker : task[q].step = step /\ task[q].entity.id = i
  BY DEF At
<1>2. Uses(task[q], i) /\ q # p
  BY <1>1 DEF Uses
<1>3. QED
  BY <1>2, ApartUses

(* A step that leaves a row alone, and does not tell of it. *)
LEMMA ElseTold ==
    ASSUME NEW p \in Worker, Others(p), NEW j, alerts'[j] = alerts[j], chat'[j] = chat[j],
           task[p].step \in {"notify", "markNotified"} => task[p].entity.id # j,
           ToldOK(j)
    PROVE  ToldOK(j)'
<1>1. ASSUME NEW step \in {"notify", "markNotified"}, At(step, j)
      PROVE  At(step, j)'
  BY <1>1 DEF At, Others
<1>2. QED
  BY <1>1 DEF ToldOK, Active, Owed

(* A save of fire, after which the message it asks for is on its way. *)
LEMMA FireSaveTold ==
    ASSUME FreshInv, Apart, Told, NEW p \in Worker, FireSave(p)
    PROVE  \A i \in AlertId : ToldOK(i)'
<1> DEFINE entity == task[p].entity
           saved == [entity EXCEPT !.id = SavedId(entity)]
           u == [task[p] EXCEPT !.step = "notify", !.entity = saved]
<1>1. /\ task[p].step = "saveFired" /\ Save(entity) /\ UNCHANGED chat
      /\ entity \in Row /\ SaveFiredFresh(task[p]) /\ ReportsNew(task[p])
      /\ task[p].notify \in BOOLEAN
  BY Basics DEF FireSave, fireSave, LocalsOK, Fresh, Told, Task
<1>2. PICK id \in AlertId : /\ id = SavedId(entity) /\ saved \in Row /\ saved # NULL
                            /\ alerts' = [alerts EXCEPT ![id] = saved]
  BY <1>1, SaveType DEF FreshInv
<1>3. alerts'[id] = saved /\ \A j \in AlertId \ {id} : alerts'[j] = alerts[j]
  BY <1>2 DEF FreshInv, TypeOK
<1>4. saved.id = id /\ saved.status = "active"
  BY <1>1, <1>2 DEF Row, SaveFiredFresh
<1>5. u.step = "notify" /\ u.entity = saved
  <2> HIDE DEF saved
  <2>1. QED
    BY Basics DEF Task
<1>6. task' = [task EXCEPT ![p] = IF task[p].notify THEN u ELSE Idle]
  BY DEF FireSave, fireSave
<1> HIDE DEF saved, u
<1>7. Others(p) /\ task'[p] = IF task[p].notify THEN u ELSE Idle
  BY <1>6, OneTask DEF FreshInv
<1>8. \A j \in AlertId \ {id} : ToldOK(j)'
  BY <1>1, <1>3, <1>7, ElseTold DEF Told
<1>9. CASE task[p].notify
  <2>1. At("notify", id)'
    BY <1>4, <1>5, <1>7, <1>9 DEF At
  <2>2. ToldOK(id)'
    BY <1>3, <1>4, <2>1 DEF ToldOK, Owed
  <2>3. QED
    BY <1>8, <2>2
<1>10. CASE ~task[p].notify
  <2>1. entity.id # NULL /\ id = entity.id
    BY <1>1, <1>2, <1>10 DEF ReportsNew, SavedId
  <2>2. Uses(task[p], id)
    BY <1>1, <2>1 DEF Uses
  <2>3. Active(id) \/ Owed(id)
    BY <1>1, <2>1 DEF SaveFiredFresh, Active, Owed, isFlapReopen
  <2>4. chat[id].said = "down"
    BY <1>1, <2>2, <2>3, KnownRow
  <2>5. ToldOK(id)'
    BY <1>1, <1>3, <1>4, <2>4 DEF ToldOK, Owed
  <2>6. QED
    BY <1>8, <2>5
<1>11. QED
  BY <1>1, <1>9, <1>10

(* Closing owes the recovery of an alert that is known. *)
LEMMA CloseTold ==
    ASSUME FreshInv, Apart, Told, NEW p \in Worker, SaveClosed(p) \/ ExpireSave(p)
    PROVE  \A i \in AlertId : ToldOK(i)'
<1>1. Others(p)
  BY OwnFresh DEF GoesOn, Continue
<1>2. PICK entity \in Row :
         /\ task[p].step \in {"saveClosed", "saveExpired"} /\ Uses(task[p], entity.id)
         /\ Save(entity) /\ UNCHANGED chat
         /\ entity.id # NULL /\ Active(entity.id) /\ entity.status = "resolved"
  <2>1. CASE ExpireSave(p)
    <3>1. task[p].step = "saveExpired" /\ Save(task[p].entity) /\ UNCHANGED chat
      BY <2>1 DEF ExpireSave
    <3>2. task[p].entity \in Row /\ SaveExpiredFresh(task[p])
      BY <3>1, Basics DEF LocalsOK, Fresh
    <3>3. Uses(task[p], task[p].entity.id)
      BY <3>1 DEF Uses
    <3>4. QED
      BY <3>1, <3>2, <3>3 DEF SaveExpiredFresh
  <2>2. CASE SaveClosed(p)
    <3>1. PICK entity \in task[p].batch : task[p].step = "saveClosed" /\ Save(entity)
      BY <2>2 DEF SaveClosed, saveClosed
    <3>2. /\ entity \in Row /\ entity.id # NULL /\ UNCHANGED chat
          /\ Active(entity.id) /\ entity = Closed(alerts[entity.id], task[p].at, FALSE)
      BY <2>2, <3>1, Basics DEF SaveClosed, Fresh, SaveClosedFresh, LocalsOK
    <3>3. alerts[entity.id] \in Row /\ Uses(task[p], entity.id)
      BY <3>1, <3>2, Rows, RowId DEF Active, Uses
    <3>4. entity.status = Closed(alerts[entity.id], task[p].at, FALSE).status
      BY <3>2
    <3>5. QED
      BY <3>1, <3>2, <3>3, <3>4 DEF Closed, Row
  <2>3. QED
    BY <2>1, <2>2
<1>3. PICK i \in AlertId : i = entity.id /\ alerts' = [alerts EXCEPT ![i] = entity]
  <2>1. SavedId(entity) = entity.id /\ [entity EXCEPT !.id = entity.id] = entity
    BY <1>2 DEF SavedId, Row
  <2>2. QED
    BY <1>2, <2>1, RowId DEF Save
<1>4. alerts'[i] = entity /\ \A j \in AlertId \ {i} : alerts'[j] = alerts[j]
  BY <1>3 DEF FreshInv, TypeOK
<1>5. chat[i].said = "down"
  BY <1>2, <1>3, KnownRow
<1>6. ToldOK(i)'
  BY <1>2, <1>4, <1>5 DEF ToldOK, Active
<1>7. \A j \in AlertId \ {i} : ToldOK(j)'
  BY <1>1, <1>2, <1>4, ElseTold DEF Told
<1>8. QED
  BY <1>6, <1>7

(* The messages, and the delivery mark that settles the debt. *)
LEMMA SendTold ==
    ASSUME FreshInv, Apart, Told, NEW p \in Worker,
           Notify(p) \/ Mark(p) \/ \E alert \in task[p].batch : Announce(p, alert)
    PROVE  \A i \in AlertId : ToldOK(i)'
<1>1. Others(p)
  BY OwnFresh DEF GoesOn, Continue
<1>2. ASSUME NEW i \in AlertId, NEW what, Tell(i, what)
      PROVE  chat'[i].said = what /\ \A j \in AlertId \ {i} : chat'[j] = chat[j]
  BY <1>2 DEF Tell, FreshInv, TypeOK
<1>3. CASE Notify(p)
  <2>1. PICK i \in AlertId : /\ i = task[p].entity.id /\ task[p].step = "notify"
                             /\ UNCHANGED alerts /\ Tell(i, "down")
    BY <1>3, Basics, RowId DEF Notify, LocalsOK
  <2>2. ToldOK(i)'
    <3>1. Active(i)
      BY <2>1, Basics DEF Fresh
    <3>2. QED
      BY <1>2, <2>1, <3>1 DEF ToldOK, Active, Owed
  <2>3. \A j \in AlertId \ {i} : ToldOK(j)'
    BY <1>1, <1>2, <2>1, ElseTold DEF Told
  <2>4. QED
    BY <2>2, <2>3
<1>4. ASSUME NEW alert \in task[p].batch, Announce(p, alert)
      PROVE  \A i \in AlertId : ToldOK(i)'
  <2> DEFINE u == [task[p] EXCEPT !.step = "markNotified", !.batch = @ \ {alert},
                                  !.entity = alert]
  <2>1. PICK i \in AlertId : i = alert.id
    BY Basics, RowId DEF LocalsOK
  <2>2. /\ task[p].step = "announce" /\ UNCHANGED alerts /\ Tell(i, "up")
        /\ task' = [task EXCEPT ![p] = u]
    BY <1>4, <2>1 DEF Announce
  <2>3. u.step = "markNotified" /\ u.entity = alert
    BY Basics DEF Task
  <2> HIDE DEF u
  <2>4. task'[p] = u
    BY <2>2, OneTask DEF FreshInv
  <2>5. At("markNotified", i)'
    BY <2>1, <2>3, <2>4 DEF At
  <2>6. ~Active(i)
    BY <2>1, <2>2, Basics DEF Fresh, AnnounceFresh, Due, Active
  <2>7. ToldOK(i)'
    BY <2>2, <2>5, <2>6 DEF ToldOK, Active
  <2>8. \A j \in AlertId \ {i} : ToldOK(j)'
    BY <1>1, <1>2, <2>2, ElseTold DEF Told
  <2>9. QED
    BY <2>7, <2>8
<1>5. CASE Mark(p)
  <2>1. PICK i \in AlertId : /\ i = task[p].entity.id /\ task[p].step = "markNotified"
                             /\ UNCHANGED chat /\ markResolveNotified(i, task[p].at)
    BY <1>5, Basics, RowId DEF Mark, LocalsOK
  <2>2. alerts[i] \in Row /\ alerts[i].status = "resolved" /\ alerts[i] # NULL
    BY <2>1, Basics, Rows DEF Fresh, MarkFresh, Due
  <2>3. /\ alerts'[i] = [alerts[i] EXCEPT !.pendingResolveSince = NULL,
                                          !.lastNotifiedAt = task[p].at]
        /\ \A j \in AlertId \ {i} : alerts'[j] = alerts[j]
    BY <2>1, <2>2 DEF markResolveNotified
  <2>4. alerts'[i].status = "resolved" /\ alerts'[i].pendingResolveSince = NULL
    BY <2>2, <2>3 DEF Row
  <2>5. ToldOK(i)'
    BY <2>4 DEF ToldOK, Active, Owed
  <2>6. \A j \in AlertId \ {i} : ToldOK(j)'
    BY <1>1, <2>1, <2>3, ElseTold DEF Told
  <2>7. QED
    BY <2>5, <2>6
<1>6. QED
  BY <1>3, <1>4, <1>5

(* What a source or a sweep starts with, and how fire's lookup ends. *)
LEMMA ReportsStep ==
    ASSUME FreshInv, NEW p \in Worker, ReportsNew(task[p]),
           SourceStep(p) \/ Sweep(p) \/ Continue(p)
    PROVE  ReportsNew(task[p])'
<1>1. ASSUME NEW u, task' = [task EXCEPT ![p] = u],
             u.step # "saveAdmin", u.step = "saveFired" /\ ~u.notify => u.entity.id # NULL
      PROVE  ReportsNew(task[p])'
  <2>1. task'[p] = u
    BY <1>1, OneTask DEF FreshInv
  <2>2. QED
    BY <1>1, <2>1 DEF ReportsNew
<1>2. ASSUME NEW t, NEW row, NEW notify, notify \/ row.id # NULL,
             task' = [task EXCEPT ![p] = ToSave(t, row, notify)]
      PROVE  ReportsNew(task[p])'
  <2> DEFINE u == ToSave(t, row, notify)
  <2>1. u.step = "saveFired" /\ u.entity = row /\ u.notify = notify
    BY DEF ToSave, Idle
  <2> HIDE DEF u
  <2>2. task' = [task EXCEPT ![p] = u]
    BY <1>2 DEF u
  <2>3. QED
    BY <1>1, <1>2, <2>1, <2>2
<1>3. ASSUME NEW step \in {"saveClosed", "expire", "announce"}, NEW batch,
             task' = [task EXCEPT ![p] = [Idle EXCEPT !.step = step, !.at = now,
                                                      !.batch = batch]]
      PROVE  ReportsNew(task[p])'
  <2>1. [Idle EXCEPT !.step = step, !.at = now, !.batch = batch].step = step
    BY DEF Idle
  <2>2. QED
    BY <1>1, <1>3, <2>1
<1>4. ASSUME NEW problem \in Problems, Fire(p, problem) PROVE ReportsNew(task[p])'
  <2>1. CASE task' = [task EXCEPT ![p] = ToSave(now, NewAlert(problem, now), TRUE)]
    BY <1>2, <2>1
  <2>2. ASSUME NEW i \in ActiveFor(problem.fingerprint), NEW notify,
               task' = [task EXCEPT ![p] = ToSave(now, Refreshed(alerts[i], now), notify)]
        PROVE  ReportsNew(task[p])'
    <3>1. i \in AlertId /\ alerts[i] # NULL
      BY DEF ActiveFor
    <3>2. alerts[i] \in Row /\ alerts[i].id = i /\ i # NULL /\ now \in Nat
      BY <3>1, Rows, ServiceAssumption DEF FreshInv, TypeOK
    <3>3. Refreshed(alerts[i], now).id # NULL
      BY <3>2, RefreshedType
    <3>4. QED
      BY <1>2, <2>2, <3>3
  <2>3. CASE task' = [task EXCEPT ![p] = [Idle EXCEPT !.step = "findPending",
                                                      !.at = now, !.problem = problem]]
    <3>1. [Idle EXCEPT !.step = "findPending", !.at = now, !.problem = problem].step
             = "findPending"
      BY DEF Idle
    <3>2. QED
      BY <1>1, <2>3, <3>1
  <2>4. QED
    BY <1>4, <2>1, <2>2, <2>3 DEF Fire, fire
<1>5. CASE UNCHANGED task
  BY <1>5 DEF ReportsNew
<1>6. CASE SourceStep(p) \/ Sweep(p)
  BY <1>3, <1>4, <1>5, <1>6
     DEF SourceStep, Resolve, resolveByFingerprint, ResolveService, resolveByService,
         ExpireStale, Sweep, SweepLoad
<1>7. CASE FireFindPending(p)
  <2> DEFINE problem == task[p].problem
             t == task[p].at
  <2>1. CASE task' = [task EXCEPT ![p] = ToSave(t, NewAlert(problem, t), TRUE)]
    BY <1>2, <2>1
  <2>2. ASSUME NEW i \in LatestResolved(problem.fingerprint),
               task' = [task EXCEPT ![p] = ToSave(t, Reopened(alerts[i], t), FALSE)]
        PROVE  ReportsNew(task[p])'
    <3>1. i \in AlertId /\ alerts[i] # NULL
      BY DEF LatestResolved, ResolvedFor
    <3>2. alerts[i] \in Row /\ alerts[i].id = i /\ i # NULL
      BY <3>1, Rows, ServiceAssumption
    <3>3. Reopened(alerts[i], t).id # NULL
      BY <3>2, Basics, ReopenedType
    <3>4. QED
      BY <1>2, <2>2, <3>3
  <2>3. QED
    BY <1>7, <2>1, <2>2 DEF FireFindPending, fireFindPending
<1>8. CASE FireSave(p)
  <2> DEFINE saved == [task[p].entity EXCEPT !.id = SavedId(task[p].entity)]
             u == [task[p] EXCEPT !.step = "notify", !.entity = saved]
  <2>1. task' = [task EXCEPT ![p] = u] \/ task' = [task EXCEPT ![p] = Idle]
    BY <1>8 DEF FireSave, fireSave
  <2> HIDE DEF saved
  <2>2. u.step = "notify"
    BY Basics DEF Task
  <2> HIDE DEF u
  <2>3. Idle.step = "idle"
    BY DEF Idle
  <2>4. QED
    BY <1>1, <2>1, <2>2, <2>3
<1>9. CASE Continue(p) /\ ~FireFindPending(p) /\ ~FireSave(p)
  BY <1>9, TurnsElsewhere DEF Continue, ReportsNew
<1>10. QED
  BY <1>6, <1>7, <1>8, <1>9

(* Every step of handlers that are apart. *)
LEMMA ToldStep ==
    ASSUME FreshInv, Apart, ToldInv, [Next]_vars
    PROVE  ToldInv'
<1> SUFFICES ASSUME Untroubled' PROVE Told'
  BY DEF ToldInv
<1>1. faults \in Nat /\ requests \in Nat
  BY DEF FreshInv, TypeOK
<1>2. ASSUME UNCHANGED <<faults, requests>> PROVE Told
  BY <1>2 DEF Untroubled, ToldInv
<1>3. ASSUME UNCHANGED <<alerts, chat>>, Told, NEW p \in Worker, Others(p),
             task[p].step \notin {"notify", "markNotified"}, ReportsNew(task[p])'
      PROVE  Told'
  <2>1. \A j \in AlertId : ToldOK(j)'
    BY <1>3, ElseTold DEF Told
  <2>2. \A q \in Worker : ReportsNew(task[q])'
    BY <1>3 DEF Told, Others, ReportsNew
  <2>3. QED
    BY <2>1, <2>2 DEF Told
<1>4. CASE UNCHANGED vars \/ Tick
  <2>1. UNCHANGED <<alerts, task, chat, faults, requests>>
    BY <1>4 DEF vars, Tick
  <2>2. QED
    BY <1>2, <2>1 DEF Told, ToldOK, Active, Owed, At, ReportsNew
<1>5. ASSUME NEW p \in Worker, SourceStep(p) \/ Sweep(p)
      PROVE  Told'
  <2>1. UNCHANGED <<alerts, chat>> /\ Others(p) /\ task[p].step = "idle"
    BY <1>5, StartsQuiet, OwnFresh DEF Starts
  <2>2. UNCHANGED <<faults, requests>>
    BY <1>5 DEF SourceStep, Fire, Resolve, ResolveService, ExpireStale, Sweep, SweepLoad,
                NoFault
  <2>3. ReportsNew(task[p])'
    BY <1>2, <1>5, <2>2, ReportsStep DEF Told
  <2>4. QED
    BY <1>2, <1>3, <2>1, <2>2, <2>3
<1>6. ASSUME NEW p \in Worker, OperatorStep(p)
      PROVE  FALSE
  <2>1. requests' = requests + 1
    BY <1>6 DEF OperatorStep, Create, Acknowledge, ResolveById, Request
  <2>2. QED
    BY <1>1, <2>1 DEF Untroubled
<1>7. ASSUME NEW p \in Worker, Fail(p)
      PROVE  FALSE
  <2>1. faults' = faults + 1
    BY <1>7 DEF Fail, Abort, ExpireFails, MarkFails, AnnounceFails, Fault
  <2>2. QED
    BY <1>1, <2>1 DEF Untroubled
<1>8. ASSUME NEW p \in Worker, Continue(p)
      PROVE  Told'
  <2>1. UNCHANGED <<faults, requests>>
    BY <1>8 DEF Continue, FireFindPending, FireSave, FireConflict, Notify, SaveClosed,
                ExpireFind, ExpireSave, Announce, Mark, SaveAdmin, NoFault
  <2>2. Told /\ Others(p)
    BY <1>2, <1>8, <2>1, OwnFresh DEF GoesOn
  <2>3. ReportsNew(task[p])'
    BY <1>8, <2>2, ReportsStep DEF Told
  <2>4. \A q \in Worker : ReportsNew(task[q])'
    BY <2>2, <2>3 DEF Told, Others, ReportsNew
  <2>5. CASE FireSave(p)
    BY <2>2, <2>4, <2>5, FireSaveTold DEF Told
  <2>6. CASE SaveClosed(p) \/ ExpireSave(p)
    BY <2>2, <2>4, <2>6, CloseTold DEF Told
  <2>7. CASE Notify(p) \/ Mark(p) \/ \E alert \in task[p].batch : Announce(p, alert)
    BY <2>2, <2>4, <2>7, SendTold DEF Told
  <2>8. CASE FireFindPending(p) \/ FireConflict(p) \/ ExpireFind(p)
    <3>1. UNCHANGED <<alerts, chat>> /\ task[p].step \notin {"notify", "markNotified"}
      BY <2>8 DEF FireFindPending, fireFindPending, FireConflict, fireConflict, ExpireFind
    <3>2. QED
      BY <1>3, <2>2, <2>3, <3>1
  <2>9. ~SaveAdmin(p)
    BY <2>2 DEF Told, ReportsNew, SaveAdmin, saveAdmin
  <2>10. QED
    BY <1>8, <2>5, <2>6, <2>7, <2>8, <2>9 DEF Continue
<1>9. QED
  BY <1>4, <1>5, <1>6, <1>7, <1>8 DEF Next

LEMMA ApartTold == ApartSpec => []ToldInv
<1>1. Init => ToldInv
  BY DEF Init, ToldInv, Told, ToldOK, Active, Owed, ReportsNew, Idle
<1>2. FreshInv /\ Apart /\ ToldInv /\ [Next]_vars => ToldInv'
  BY ToldStep
<1>3. QED
  BY <1>1, <1>2, ApartAlways, PTL DEF Spec

(* As long as nothing failed and handlers stayed apart, an alert that is    *)
(* open once they are done is one that the chat knows is down: the claim of *)
(* alerts.service.ts:84-87, of reopened alerts too.                         *)
THEOREM KnownWhenApart == ApartSpec => []OpenAlertsKnown
<1>1. ToldInv => OpenAlertsKnown
  BY DEF ToldInv, Told, ToldOK, At, Active, OpenAlertsKnown
<1>2. QED
  BY <1>1, ApartTold, PTL

(* There the sweeper also announces no recovery but of an alert that the    *)
(* chat was told is down (alert-sweeper.ts:61-74).                          *)
THEOREM RecoveriesRetract == ApartSpec => RecoveryRetractsReport
<1>1. ASSUME FreshInv, Apart, ToldInv, Untroubled,
             NEW p \in Worker, NEW alert \in task[p].batch, Announce(p, alert)
      PROVE  chat[alert.id].said = "down"
  <2>1. task[p].step = "announce" /\ alert.id \in AlertId
    BY <1>1, Basics, RowId DEF Announce, LocalsOK
  <2>2. alert = alerts[alert.id] /\ Due(alert.id, task[p].at)
    BY <1>1, <2>1, Basics DEF Fresh, AnnounceFresh
  <2>3. Owed(alert.id) /\ Uses(task[p], alert.id)
    BY <2>1, <2>2 DEF Owed, Due, isResolveDue, Uses
  <2>4. QED
    BY <1>1, <2>1, <2>3, KnownRow DEF ToldInv
<1>2. FreshInv /\ Apart /\ ToldInv =>
         [\A p \in Worker : \A alert \in task[p].batch :
             Untroubled /\ Announce(p, alert) => chat[alert.id].said = "down"]_vars
  BY <1>1
<1>3. QED
  BY <1>2, ApartAlways, ApartTold, PTL DEF RecoveryRetractsReport

-----------------------------------------------------------------------------
(* What follows from AlertPromise alone *)

StatusOf(i) == IF alerts[i] = NULL THEN "none" ELSE alerts[i].status
OwesOf(i) == IF alerts[i] = NULL THEN FALSE ELSE alerts[i].pendingResolveSince # NULL

(* The chat has been told nothing of an alert that does not exist; no open  *)
(* alert is one that it was told has recovered, and none owes a recovery.   *)
Final(i) ==
    /\ StatusOf(i) = "none" => chat[i].said = "nothing"
    /\ chat[i].said = "up" => StatusOf(i) # "active"
    /\ OwesOf(i) => StatusOf(i) \notin {"none", "active"}

(* A step of AlertPromise neither opens an alert that was announced to have *)
(* recovered nor tells the chat of it again that it is down, and takes back *)
(* a debt only where it was paid or the alert is open again.                *)
LEMMA FinalStep ==
    ASSUME NEW i \in AlertId, Final(i), [Promise!Next]_(Promise!vars)
    PROVE  /\ Final(i)'
           /\ chat[i].said = "up" => chat'[i].said = "up"
           /\ OwesOf(i) /\ ~OwesOf(i)' => chat[i].said = "up" \/ StatusOf(i)' = "active"
<1> DEFINE status == [j \in AlertId |-> IF alerts[j] = NULL THEN "none" ELSE alerts[j].status]
           owes == [j \in AlertId |-> IF alerts[j] = NULL THEN FALSE
                                      ELSE alerts[j].pendingResolveSince # NULL]
           told == [j \in AlertId |-> chat[j].said]
           FinalIn(st, ow, to) ==
               /\ st[i] = "none" => to[i] = "nothing"
               /\ to[i] = "up" => st[i] # "active"
               /\ ow[i] => st[i] \notin {"none", "active"}
<1>1. /\ status[i] = StatusOf(i) /\ owes[i] = OwesOf(i) /\ told[i] = chat[i].said
      /\ status'[i] = StatusOf(i)' /\ owes'[i] = OwesOf(i)' /\ told'[i] = chat'[i].said
      /\ status = [j \in AlertId |-> status[j]] /\ owes = [j \in AlertId |-> owes[j]]
      /\ told = [j \in AlertId |-> told[j]]
  BY DEF StatusOf, OwesOf
<1>2. \/ status' = status /\ owes' = owes /\ told' = told
      \/ \E j \in AlertId :
            \/ /\ status[j] = "none" /\ status' = [status EXCEPT ![j] = "active"]
               /\ owes' = owes /\ told' = told
            \/ /\ status[j] = "active" /\ told' = [told EXCEPT ![j] = "down"]
               /\ status' = status /\ owes' = owes
            \/ /\ status[j] = "active" /\ status' = [status EXCEPT ![j] = "resolved"]
               /\ \E debt \in BOOLEAN : owes' = [owes EXCEPT ![j] = debt]
               /\ told' = told
            \/ /\ told[j] # "up" /\ status' = [status EXCEPT ![j] = "active"]
               /\ owes' = [owes EXCEPT ![j] = FALSE] /\ told' = told
               /\ status[j] = "resolved"
            \/ /\ status[j] = "resolved" /\ told' = [told EXCEPT ![j] = "up"]
               /\ status' = status /\ owes' = owes
            \/ /\ told[j] = "up" /\ owes' = [owes EXCEPT ![j] = FALSE]
               /\ status' = status /\ told' = told
            \/ /\ status[j] # "none" /\ told' = told /\ owes' = owes
               /\ \E s \in {"acknowledged", "resolved"} : status' = [status EXCEPT ![j] = s]
  <2>1. CASE UNCHANGED Promise!vars
    BY <2>1 DEF Promise!vars
  <2>2. CASE Promise!Next
    <3>1. PICK j \in AlertId :
             \/ \E f \in Fingerprint \cup {NULL} : Promise!Open(j, f)
             \/ Promise!Report(j) \/ Promise!Close(j) \/ Promise!Reopen(j)
             \/ Promise!Announce(j) \/ Promise!Settle(j) \/ Promise!Operate(j)
      BY <2>2 DEF Promise!Next
    <3>2. CASE \E f \in Fingerprint \cup {NULL} : Promise!Open(j, f)
      BY <3>2 DEF Promise!Open
    <3>3. CASE Promise!Report(j) \/ Promise!Announce(j)
      BY <3>3 DEF Promise!Report, Promise!Announce
    <3>4. CASE Promise!Close(j) \/ Promise!Reopen(j)
      BY <3>4 DEF Promise!Close, Promise!Reopen
    <3>5. CASE Promise!Settle(j) \/ Promise!Operate(j)
      BY <3>5 DEF Promise!Settle, Promise!Operate
    <3>6. QED
      BY <3>1, <3>2, <3>3, <3>4, <3>5
  <2>3. QED
    BY <2>1, <2>2
<1>3. FinalIn(status, owes, told)
  BY <1>1 DEF Final
<1> HIDE DEF status, owes, told
<1>4. /\ FinalIn(status', owes', told')
      /\ told[i] = "up" => told'[i] = "up"
      /\ owes[i] /\ ~owes'[i] => told[i] = "up" \/ status'[i] = "active"
  BY <1>1, <1>2, <1>3
<1>5. QED
  BY <1>1, <1>4 DEF Final

LEMMA PromisedFinal ==
    ASSUME NEW i \in AlertId
    PROVE  KeepsPromise => []Final(i)
<1>1. Promise!Init => Final(i)
  BY DEF Promise!Init, Final, StatusOf, OwesOf
<1>2. Final(i) /\ [Promise!Next]_(Promise!vars) => Final(i)'
  BY FinalStep
<1>3. QED
  BY <1>1, <1>2, PTL DEF KeepsPromise, Promise!Spec

(* Handlers that stay apart never open again an alert whose recovery was    *)
(* announced, through any crash, failed save and failed send: the problem   *)
(* comes back as an alert of its own, with an opening of its own            *)
(* (alerts.service.ts:84-124).                                              *)
THEOREM RecoveryIsFinal ==
    ASSUME NEW i \in AlertId
    PROVE  ApartSpec => [](chat[i].said = "up" => [](chat[i].said = "up" /\ ~Active(i)))
<1> DEFINE Announced == chat[i].said = "up"
           Over == chat[i].said = "up" /\ ~Active(i)
<1>1. Final(i) /\ [Promise!Next]_(Promise!vars) => (Announced => Announced')
  BY FinalStep
<1>2. Final(i) /\ Announced => Over
  BY DEF Final, StatusOf, Active
<1> HIDE DEF Announced, Over
<1>3. ApartSpec => [](Announced => []Over)
  BY <1>1, <1>2, PromisedFinal, ApartKeepsPromise, PTL DEF KeepsPromise, Promise!Spec
<1>4. QED
  BY <1>3 DEF Announced, Over

(* There no recovery owed is dropped: the debt goes only once the chat has  *)
(* been told, or as the alert opens again (alert-sweeper.ts:61-74,          *)
(* alerts.service.ts:95-124).                                               *)
THEOREM NoDebtIsDropped ==
    ASSUME NEW i \in AlertId
    PROVE  ApartSpec => [][OwesOf(i) /\ ~OwesOf(i)' => chat[i].said = "up" \/ Active(i)']_vars
<1> DEFINE Paid == OwesOf(i) /\ ~OwesOf(i)' => chat[i].said = "up" \/ Active(i)'
<1>1. Final(i) /\ [Promise!Next]_(Promise!vars) => Paid
  <2>1. StatusOf(i)' = "active" => Active(i)'
    BY DEF StatusOf, Active
  <2>2. QED
    BY <2>1, FinalStep
<1> HIDE DEF Paid
<1>2. ApartSpec => [][Paid]_vars
  BY <1>1, PromisedFinal, ApartKeepsPromise, ApartAlways, PTL
     DEF KeepsPromise, Promise!Spec, Spec
<1>3. QED
  BY <1>2 DEF Paid
=============================================================================
