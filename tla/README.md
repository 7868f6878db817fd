# Specification of monitoring-microservice

TLA+ models of the alerting service in this repository, TLC runs that check
them on small instances, and TLAPS proofs that hold for every instance. Paths
below are relative to the repository root; `src/alerts/alerts.service.ts` is
written `alerts.service.ts` where that is clear.

## 1. Inventory

The service detects problems (its watchers), remembers them (the `alerts`
table), tells one Telegram chat about them, and says when they are over. It
runs as one pod; a rolling update runs two for a while (`k8s/deployment.yaml`:
one replica, `maxSurge: 1`). Cron jobs (`@Cron`) are not guarded against
overlap. Every handler is asynchronous: between two awaits any other handler of
the same pod, or of the other pod, may run.

| Component | State | Operations | Correct when |
|---|---|---|---|
| `alert-policy.ts` | none | when a repeat, a silent reopen or a recovery is due | repeats are spaced; one instant is never both inside and past the flap window |
| `alerts.service.ts` + the table | `monitoring.alerts`, with the partial unique index `uq_alerts_active_fingerprint` | fire, resolve by fingerprint / service / id, acknowledge, create, findDueResolves, markResolveNotified, findStale | one open alert per problem; an open alert owes no recovery; nothing owed is lost |
| `alert-sweeper.ts` | none | every minute: load due recoveries; for each send, then mark | each owed recovery is sent, about something the chat was told is down |
| `health-watcher.ts`, `services/` | the registry (constant) | every 5 minutes: expire stale alerts, probe, fire or resolve per service, close demoted services | one failing service never hides another; a wrong path is not an outage; no alert outlives its cause |
| `heartbeat.service.ts` | registry of watchers in memory | register, beat, fail, check | a watcher that fails or stops is reported, and cleared when it beats |
| `error-log-watcher.ts` | set of active fingerprints in memory | fire per error group, resolve what is gone, ingest coverage | never resolves on a cold index; recovers what a restart forgot |
| `job-watcher.ts`, `kube-client.ts`, `cron-schedule.ts` | none | list the CronJobs; fire per overdue one, resolve the others | never reports a job that is on schedule; one job never hides another; a blind watcher does not look alive |
| `credential-watcher.ts`, `credential-self-reporter.ts` | latest report per principal in memory | record, reconcile | silence is a finding; expiry never softens a verdict |
| `repair/`, `config/failure-surfaces.ts` | `repair_attempts` | consider every active alert, gate, record, announce; verify | a fingerprint is decided by one sweep and not again by later ones (one decision each, where sweeps do not overlap), and no decision is announced twice; autonomy is opt-in; every unknown fails closed |
| `digest/` | one snapshot per day | snapshot, diff, send, report the failure | the chat gets a digest or a failure notice; the baseline is what it heard, on days without trouble (a failed send becomes the baseline too) |
| `customer-integrations/` | integrations and their events | create, update, rotate key, remove; ingest events | a rotated key stays rotated, where requests do not overlap; an event is stored once |
| auth guards, logging, notifier formatting, marathon proxy, web console, scripts | none that matters | | not modelled |

How they interact: the watchers and the ingest endpoints call `fire` and
`resolveBy...`; the *caller* of `fire` sends the opening or the repeat that
`fire` asked for, while a recovery is only recorded as owed and is sent by the
sweeper. Repair reads the active alerts. Every watcher beats into the heartbeat
service, which fires alerts of its own.

What is hard here: handlers that write back a whole row they read before an
await; two pods at once; a send and the database write about it, in either
order, with a failure in between; timeouts that delivered; a flap window whose
end races the re-fire and the sweep; and state that a restart forgets.
`PROJECT.json` lists the hazards line by line with the properties that cover
them.

## 2. Modules

| Module | What it is |
|---|---|
| `AlertPolicy` | the pure functions of `alert-policy.ts`, over ticks |
| `AlertsService` | the table, the unique index, and each method of `alerts.service.ts` cut at its awaits: one action reads and computes, a later one saves |
| `AlertLifecycle` | composes the table with its callers: sources, stale expiry, the sweeper, the operator's endpoints, the chat, the clock, crashes and failures; `Spec` and `FairSpec` |
| `AlertPromise` | the abstract specification: per row a status, a debt and what the chat last heard; no database, clock, workers or failures |
| `AlertProperties` | type invariant, invariants, action and liveness properties, the refinement mapping, and `Apart`, the condition that some of them need |
| `MCAlerts`, `MCApart` | instances for TLC; the alerts while handlers stay apart and the error log watcher, side by side |
| `AlertLifecycleProofs` | type correctness, uniqueness, well-formedness, and that rows keep their problem, proved |
| `AlertPromiseProofs` | that handlers which stay apart implement `AlertPromise`, what follows from the promise for recoveries and debts, and what the chat then knows, proved |
| `Heartbeat` | the registry of watchers and the check of `heartbeat.service.ts` |
| `ErrorLogWatcher` | composes the heartbeat with the sweep of `error-log-watcher.ts`, the error index it reads, restarts and failures |
| `ErrorLogProperties` | its type invariant, action and liveness properties |
| `ErrorLogProofs` | its types, `NoFalseRecovery`, what a failure costs a sweep or a heartbeat check, and what persists, proved |
| `CronSchedule` | the interval arithmetic of `cron-schedule.ts` |
| `CronCalendar` | a reference calendar, and what the arithmetic promises when it is compared with it |
| `JobWatcher` | the sweep of `job-watcher.ts` over the Kubernetes API, on the intervals `CronSchedule` computes |
| `ServiceWatch` | the probe of `services.service.ts` and the sweep of `health-watcher.ts` |
| `JobProofs` | the arithmetic against the calendar, the types of both watchers, what each never accuses, what a failure costs them and what persists, proved |
| `MCCronSchedule`, `MCWatchers` | schedules for TLC; the job watcher and the service watcher as one instance |
| `FailureSurfaces` | the ledger of `config/failure-surfaces.ts` and its lookups |
| `Repair` | the sweep of `repair.service.ts` with its gate |
| `RepairVerifier` | the four checks of `repair-verifier.ts` in a world that goes on |
| `RepairProofs` | the types of both and of `MCOperations`, four properties of the sweep, what only overlapping sweeps do, and two properties of the verifier, proved |
| `CredentialMatrix`, `CredentialWatcher`, `CredentialProofs` | the matrix and what must hold of it; reporters, the store of reports and the reconciliation; types and two invariants, proved |
| `IntegrationTables`, `CustomerIntegrations`, `IntegrationProofs` | the two tables and what must hold of them; integrations, keys and event ingest; types, that events are stored once, and what only overlapping requests undo, proved |
| `DigestDays`, `DailyDigest`, `DigestProofs` | days, runs and what must hold of them; the digest of every morning; types, its baseline and `NoSilentDay`, proved |
| `Absent` | the constant `NONE` |
| `MCOperations` | repair, verifier, credentials, integrations and digest as one instance |

`AlertLifecycle` composes the alerts table with everything that writes it, and
`ErrorLogWatcher` the heartbeat with a watcher. The modules further down see
the table through what `AlertPromise` and `UniqueOpenAlert` establish, one open
alert per fingerprint that `fire` adds and a resolve removes, so they keep a set
`open` and neither rows nor messages. `Repair` reads that set; the beat that
ends a sweep is `silentFor` in `JobWatcher` and belongs to `Heartbeat`
otherwise. `CredentialMatrix`, `IntegrationTables` and `DigestDays` hold the
variables a component's properties speak of, and those properties, so that the
component, its proofs and `MCOperations` use the very same definitions.

### The alerts: state

- `alerts[i]` is a row or `NULL`. It keeps the columns that decide something
  (fingerprint, service, status, occurrenceCount, lastFiredAt, resolvedAt,
  pendingResolveSince, lastNotifiedAt). Severity, message, labels, flapCount and
  the acknowledger are only displayed and are left out.
- `task[p]` is what worker `p` holds between two awaits: its step, the time it
  captured (`const now = new Date()`), its dto, the batch it loops over and the
  entity it is about to save. A worker is one execution context.
- `now` is one clock for pods and database. `chat[i]` is history: the last
  thing the chat heard about a row and when. `faults` and `requests` count
  against bounds.

### The alerts: actions and code

`fire` is `AlertsService.fire` up to the first lookup's answer,
`fireFindPending` the second lookup, `fireSave`/`fireConflict` the save that the
index accepts or refuses, `Notify` the caller's send. `resolveByFingerprint`,
`resolveByService` and `saveClosed` are the two ways to close, one save per
loop iteration. `ExpireStale`, `ExpireFind`, `ExpireSave`, `ExpireFails` are the
expiry loop of `HealthWatcher`; `SweepLoad`, `Announce`, `Mark` and their
failing twins the loop of `AlertSweeper`. `Create`, `Acknowledge`,
`ResolveById`, `SaveAdmin` are the operator's endpoints. `Abort` is a crash, or
any exception that leaves a handler: the database keeps what was committed, the
worker forgets the rest.

`AlertsService`'s actions say what happens to the table and the worker;
`AlertLifecycle` wraps each with the chat, the clock and the failure budget.

### The error log watcher

`open` is the table as its promise describes it: one open alert per
fingerprint, opened by fire and closed by a resolve (`UniqueOpenAlert` is what
makes a set enough). `logged` is what services really logged in the window,
`indexed` what logging-microservice still remembers of it, `observed` the age
of that index; time is kept as ages, which lets runs go on for ever. `active`
is the in-memory set, `sweep` the locals of `runCheck` (`seen`,
`trustResolution`, the groups or fingerprints left), `age` the heartbeat
registry and `check` the check's snapshot.

`Start`, `Fetch`, `HandleGroup`, `KeepWatching` / `ListActive`, `Resolve`,
`Resolved`, `CheckIngestCoverage` are the sweep between two awaits, in the order
of the code; `FetchFails`, `GroupFails`, `ResolveFails`, `CoverageFails` its
error paths: a failing group is swallowed, a failing listing falls back on the
in-memory set (second disjunct of `ListActive`), a failing resolve ends the
sweep without a beat. A missing credential and an unreachable log service are
the same to the model (`outage`): neither beats. Each cron starts exactly one
round per tick (`due`). A sweep may still run when the next round begins, not
the one after.

### The job watcher and the service watcher

`JobWatcher` counts time in rounds of its cron. `since[c]` is the age of a
CronJob's last success (or creation), `sweep` what a sweep holds: the jobs of
the listing it has yet to look at and which of them the listing showed overdue.
`ListCronJobs` reads them; `Settle`, `HandleOverdue`, `EvidenceFails` and
`CronJobFails` are the four ways an iteration ends (fine or suspended; fired;
evidence not listable; a query or send that throws). `kube` is what the API
answers: everything, CronJobs without jobs and pods, or nothing. Between any
two iterations jobs succeed, are suspended, deleted and created anew.
`ScheduleOf[c]` is the schedule of a CronJob, and `Interval[c]` what
`CronSchedule` makes of it.

`CronCalendar` looks at one schedule at a time: `schedule` is chosen in the
initial state and never changes. `Dates` is a calendar, the month and the day of
the month of each of its days, the first of them a Sunday. The reference takes
the run times of a day from the same field expansion and adds which days run,
so it judges the gaps.

`ServiceWatch` takes one answer per health path, classified as
`checkServiceHealth` does, and follows `runCheck`: `FindStale` and `Close`
expire, `Probe` asks every service, `Handle`/`HandleFails` work off the
answers, `ListActive` and `Close` again end the alerts of demoted services.
`Deploy` brings another registry. `alerted` is the
set of services with an open alert and `unfired[s]` the age `findStale` looks
at. `serviceVars`, `ServiceNext`, `RoundPasses` and the like carry their prefix
because `MCWatchers` and `JobProofs` EXTEND both watchers at once; the same goes
for `VerifierNext` and its kind in `RepairVerifier`.

### Repair

`Repair` has one worker per running sweep. `Decide` is the lookup and the gate,
`Record` the insert that follows it, `AnnounceBlocked`/`AnnounceFails` the
send; between them other sweeps do the same and alerts come and go. `About[f]`
gives an alert's name and service as the gate sees them; the ledger is spelled
out in `FailureSurfaces`, since what may be repaired *is* that list.

`RepairVerifier` starts where its caller has applied a fix. `check` is the
check to make next and `ok` that none failed; of a service it keeps the time
since it really failed (`erred`), since the last failure the index knows
(`indexed`), the index's age and whether logs are shipped. `seenFor` and
`blind` are history.

### Credentials, integrations, digest

`CredentialWatcher`: `flight[p]` is the report a consumer is posting,
`reports[p]` what the pod's memory holds, `principals` the inventory a sweep is
about to reconcile and `matrix` its rows. `life` and `target` are the truth the
verdicts are about, `worked` remembers when it last held. Restarts lose
`reports`; posts may be lost; consumers stop. A token may be replaced by one of
any life, shorter ones included, since the two consumers' tokens live 30 and 90
days (`credential-watcher.ts:26-30`): what is then still said of the longer one,
in flight, stored or shown, is marked `shortened`, which is history.

`CustomerIntegrations`: a request holds the row it found until it saves or
removes it; a save writes the copy whole and inserts a row that is gone, as
TypeORM does. Ids and keys are numbered as drawn, so that a key drawn is new is
an assumption: the code draws at random and `apiKeyId` has no unique index
(`customer-integrations.service.ts:19-38`). No property claims that keys are
distinct. `ingest[s]` is an event between authentication, lookup and insert, and
`acked` what senders were told.

`DailyDigest` keeps two days. `run["cron"]` and `run["operator"]` are the two
ways into `runDigest`, cut at its awaits; `heard` is the last digest that
reached the chat that day and `trouble` counts what failed. Sends may throw
although they delivered.

### Abstractions, and why they are sound

- A query, a save and a send are each atomic; a save overwrites the row, since
  TypeORM writes every column in which the entity differs from the row. The
  read before `fire`'s first await is merged with the call: nothing is shared
  before it.
- A failed send is `AnnounceFails`, with or without delivery: the client times
  out after 8 s (`notifications.client.ts:18`) and cannot tell.
- `occurrenceCount` saturates at `MaxOccurrence`, which is beyond the last entry
  of the backoff table: the policy cannot tell larger counts apart.
- `findActive()` in the sweeper and in the callers only feeds the digest text;
  that it may throw is `Abort`.
- The partial unique index comes from `scripts/migrate-alert-lifecycle.sql`;
  the model assumes the migration ran (the mutant `NoUniqueIndex` is what
  happens otherwise).
- One tick is the granularity of the policy: windows, backoffs and the expiry
  age are small multiples of it.
- `SourcePeriod` separates fires of one problem: each source fires a problem
  once per cron round. It is 0 where nothing depends on it.
- `MaxOpTicks` bounds how long a handler is in flight. It is 1 in every run of
  the alerts but the two disagreements that do not need it, so the time a
  handler captured may be behind the clock, and behind that of a later handler.

## 3. Runs

Every run of the alerts names its roles: which workers may fire, resolve,
expire, sweep or operate. One worker in every role is a service whose handlers
never overlap; one worker per cron job is one pod; two workers in every role are
two pods.

| Run | Instance | Question |
|---|---|---|
| `alerts_races` | 2 workers in every role, 2 rows, 1 fingerprint, 1 tick | any interleaving at any await keeps the types, one open alert per problem, and well-formed rows |
| `alerts_apart` | the alerts: sources against sweeper and operator, 4 ticks, handlers of up to 1 tick, 1 failure, 1 operator request, handlers apart; the error log: 2 watchers, 1 signature, window of 2 rounds, threshold 2, 1 failure, sweeps outlasting a round | table and chat implement `AlertPromise`; the chat's view of open alerts is right, recoveries retract reports, repeats are spaced by the schedule; no recovery is announced on the strength of an index that forgot |
| `alerts_live` | sources against sweeper, 4 ticks, handlers of up to 1 tick, 1 failure anywhere, fairness; nothing keeps handlers apart | owed recoveries are paid, lost openings are made up for |
| `error_log_live` | 2 signatures of which one can never be processed, window 1, 1 failure, fairness | what persists is reported, what recovers is closed, a silent watcher included |
| `watchers` | schedules of every day or given weekdays; 2 CronJobs that run every round and every other; 2 services of which one can never be processed; 1 failure; fairness | intervals are exact or rounded up; overdue jobs and dead services are reported, also next to a poisoned one; what is over is closed; what is fine is never accused |
| `operations` | 2 sweeps over 3 alerts, one of them never recorded; the verifier; 1 principal, with tokens of up to 4 rounds; 2 requests for 2 integrations and 3 keys, 2 senders of one event; 1 service over two days; 1 failure; fairness where liveness asks for it | decisions, verdicts, expiries, events and digests survive overlap, loss and restart |
| `reopen_announced` | sources against sweeper, 4 ticks, handlers of up to 1 tick, no failure | refutes "the original [report] still stands unretracted and the channel is already correct" |
| `recovery_twice` | 1 failure | refutes "an alert can never announce its recovery twice" |
| `recovery_while_active` | no failure | refutes "if the alert re-fires first ... no message at all" |
| `cron_monthly` | days of the month over January to March, overdue after 3 intervals | refutes "every fallback here rounds up" |
| `rotation_undone` | 1 integration, a rename and a rotation | refutes "existing keys were not changed" |
| `decided_twice` | 2 overlapping sweeps, no failure | refutes "one decision per fingerprint" |

The properties are stated with their reasons where they are defined, those of
the alerts in `AlertProperties`. The six violations are disagreements between
the code and a comment or a message of its own, described under `findings` in
`PROJECT.json`: a silent reopen whose time was captured before that of the sweep
that announces the recovery; a send followed by a failed mark; a re-fire in the
gap between the end of the flap window and the next sweep; a monthly job whose
interval is taken for a week; a rename that writes back the key it read before a
rotation; and two repair sweeps that both find no decision and both record one.

**Handlers apart.** The properties of `alerts_apart` are conditional. `Apart`
says of every moment that no two handlers in flight hold a copy of the same row,
and that no sweep is out to announce a recovery while a fire of that problem
which captured its time before the recovery was due looks for a row to reopen.
*Nothing in the code enforces it.* Within one pod it usually holds, because
handlers take milliseconds and the sources' crons are minutes apart; an
operator's click, the second pod of a rolling update, a slow query or a fire
within a few milliseconds of the end of a flap window breaks it, and each breaks
the properties: `reopen_announced` is the shortest such behaviour. The run
checks, and the theorems prove, that nothing *but* such an overlap does. Time
passes inside handlers here, and the sources, the sweeper and the operator
interleave at every await on different rows, on a row that the other has let go
of, and around one another's failures. What holds with no such condition is in
`alerts_races` (uniqueness, well-formed rows) and `alerts_live` (debts are paid,
openings are made up for).

**Sums.** The modules in `alerts_apart`, in `watchers` and in `operations` share no
variable. `logging`, `moving` and `part` pick, in the initial state, the one
that moves; the others stand still, so their states add up instead of
multiplying, and every property speaks about the variables of one part. A part
that stands still is kept in a state that meets no premise of its own liveness
properties, or the property says that its part moves (`part = "repair" => ...`),
under the fairness that part's own module states. A schedule only stands, so
its part is one state per schedule. Credentials are two parts of
`operations`: in "credentials" consumers stop, targets change and the inventory
does, with tokens of at most one round (`Brief`); in "expiry" these stand still
and tokens of up to `LIFE` rounds replace one another.

**Bounds of the alerts.** Two rows are enough for a reopened or replaced alert
next to its predecessor, and for a race of two inserts; when both are used a
further insert fails like a refused save (`HasRoom`). Two workers give every
pairwise race; uniqueness and well-formedness are also proved for any number.
In `alerts_races` a tick inside a handler (`MaxOpTicks = 1`) lets captured times
fall behind the clock, and symmetry over workers is sound: every worker has
every role and only invariants are checked. In `alerts_apart` and `alerts_live` the window is
one tick, the backoffs (1, 2) differ from each other, and four ticks are enough
for a full cycle of open, close, reopen, close, announce and for a repeat at the
last entry of the schedule. One failure and one operator's request put each of
them anywhere in that history.

**Bounds of the rest.** Everything but the alerts keeps time as ages, so its
runs go on for ever; only failures are bounded (`MaxFaults`, and
`MaxCheckFaults` for the service watcher), one being enough
to lose a pod's memory, a listing, a send or an insert. In the error log's part
of `alerts_apart` a window of two rounds and a threshold of two let an index hold
part of what was logged and restart between the time a sweep captures and the
summary it fetches; services keep shipping there, since the ingest alert is
`error_log_live`'s. In
`watchers` the multiples 2 and the intervals 1 and 2 make one job overdue while
the other is not; a stale age of one round lets expiry race a failing path.
In `operations` two sweeps give the only overlap there can be; the three alerts
are one the ledger lets repair, one of this service and one that can never be
recorded. The verifier's window (2) is shorter than its staleness (3), so an
index can be silent without being stale. A report lives one round, a token up to
four and the horizon is one, so a report can go stale with its expiry still
beyond the horizon, and a token of four rounds be replaced by one of each shorter
life, inside the horizon or beyond it. Three keys for two integrations let each
be rotated once, one after being removed and saved again by a late request. The
digest needs two days: the one it compares and the one it is compared with.

`CronSchedule` shortens hours (4 minutes) and days (3 hours) but not weeks and
months: the arithmetic over minutes does not depend on the 60 and the 24, while
the gaps between days do depend on 7, 28 and 31. For schedules of every day or
of given weekdays the proofs cover any hour, any day and any calendar.

**Fairness.** The event loop resumes a handler that is in flight, the clock
runs, and a cron that is due fires: weak fairness in `error_log_live`,
`watchers` and `operations`. In `alerts_live` the sweeper's cron and the
sources' crons come round again however busy their worker is in between (strong
fairness: the schedule is periodic and a busy pod delays a round, it does not
cancel every later one). In `operations` some sweep of repair goes on rather
than each of them, which is weaker than what the code gives and enough. Nothing
is ever assumed of resolves, expiry, operators, consumers, targets, failures or
the environment: premises such as "fails at every sweep" or "its consumer has
stopped" are part of the properties. The liveness properties of `alerts_live`
exclude what the bound `MaxTime` would cut off: debts made too late for their
window to pass, openings with no room left for a repeat.

**Deadlock** is checked in every run.

## 4. Proofs

The theorems hold for any number of workers, rows, fingerprints, problems,
signatures, schedules, CronJobs, principals, integrations, keys and services,
any roles, windows, backoffs and lives of tokens, any length of an hour and a day, and any number
of failures, under the named assumptions of the modules. These say that numbers
are naturals, that the backoff table is not empty and `MaxOccurrence` lies
beyond it, that the calendar is a sequence of at least two dates, and that
`NULL` and `NONE` are none of the values they stand next to. Theorems that count
(what a failure costs, announcements) assume in addition that the sets they
count over are finite. Where a module
states its assumption as an operator, because TLC reaches it through INSTANCE,
the theorem names it (`ASSUME CredentialAssumption PROVE ...`), and the MC module
has TLC evaluate it. The theorems of `AlertPromiseProofs` have hypotheses of
their own, explained there.

The alerts:

- `TypeCorrect`: `Spec => []TypeOK`. `TypeOK` is inductive because it includes
  `LocalsOK`: a handler at a step that uses a local has it. One lemma per group
  of actions; row-level lemmas say that what `fire`, a close, a mark or an
  operator computes from a row is a row.
- `UniqueOpenAlert`: `Spec => []OneActivePerFingerprint`. The central lemma is
  `TableStep`: in one step the table is unchanged, or takes the save of an
  entity some handler holds, or a delivery mark. The index guards every save and
  a mark changes neither status nor fingerprint, so the invariant is inductive
  given the types.
- `WellFormedRows`: `Spec => []RowsWellFormed`. A table whose rows are well
  formed is not inductive by itself, since handlers write back rows they read
  earlier. The strengthening, part of the invariant that TLC checks too, is
  `CarriesWellFormed`: every entity and batch in flight is well formed with
  respect to the current clock, and captured times are not in the future.
  Well-formedness survives the clock (`WellFormedLater`), so stale rows stay
  harmless.
- `RowsKeepTheirProblem`: `Spec => [][KeepsProblems]_vars`. However many pods
  write back whole rows they read earlier, no row is lost or becomes another
  problem's. The invariant is `EveryoneRefers`: every entity and batch in flight
  still names the row, fingerprint and service it was read from. What an
  interleaving *can* corrupt is thereby confined to status, times and debts.

The promise (`AlertPromiseProofs`) is kept by handlers that find, when they
write, what they read. That is `Apart`, the condition of `alerts_apart` (section
3), and `ApartSpec` are the behaviours in which it holds throughout. The
hypothesis is about a behaviour, not about the constants: the theorems are for
any number of workers in any roles, operators included, handlers of any length
and any number of failures, and say that whatever breaks their conclusion took
an overlap that `Apart` names. They do not say that the service is free of such
overlaps; `reopen_announced` shows one. Only `SerialKeepsPromise` needs no such
hypothesis: with one worker (`Serial`) nothing overlaps.

- `ApartKeepsPromise` (`ApartSpec => KeepsPromise`) proves the refinement. The
  invariant is `FreshInv`: every handler holds what the table still says about
  its row (`Fresh`, one conjunct per step: an entity about to be saved as fired
  is of a row that is open, or resolved and inside its flap window; a batch to
  be announced is of rows still due; and so on), and a row that still owes a
  recovery the chat has already heard is past its window for everyone at work,
  hence never reopened (`ChatFresh`). That second conjunct is what carries the
  refinement over the crash between a send and its mark. Two lemmas do the work:
  a handler's own step leaves it fresh (`OwnFresh`), and leaves fresh whoever
  holds other rows (`ApartUndisturbed`).
- `SerialKeepsPromise` (`Serial` proves `Spec => KeepsPromise`) is its corollary.

What the chat knows:

- `KnownWhenApart` (`ApartSpec => []OpenAlertsKnown`) and `RecoveriesRetract`
  speak of behaviours up to the first failure or operator's request
  (`Untroubled`): a lost opening is exactly what makes them false, and
  `OpeningsMadeUp` says how it heals. `ToldInv` adds to the above that of every
  open or owing row the chat was last told it is down, but for the message that
  is about to be sent or marked.
- `RepeatsAreSpaced` allows failures. `DatedInv` says that a row's
  `lastNotifiedAt` is older than the report the chat has of it by no more than a
  handler takes, and that a handler about to repeat found the last one as old as
  the schedule's entry for the occurrence asks.

What the promise is worth. Two theorems use nothing of the detailed model but
that it implements `AlertPromise`, so they too are about handlers that stay
apart, failures included: `RecoveryIsFinal` (a row whose recovery the chat heard
is never open again; the problem comes back as a new row) and `NoDebtIsDropped`
(a debt goes only once the chat was told, or as the row opens again). The second
is the safety half of `DebtsPaid`. Both follow from one invariant of the promise
(`Final`).

The watchers:

- `ErrorLogTypes` and `RealRecoveries` (`Spec => NoFalseRecovery`): an index
  holds only what was logged and everything logged since it started
  (`IndexHonest`), so one that has been up for the whole window agrees with the
  log (`WarmIndex`); a sweep that trusts it has every failing signature in hand
  or in `seen`, and resolves none of them (`SweepHonest`). The age is measured
  from a time captured before the fetch, which can only make the sweep more
  cautious.
- `JobTypesCorrect` and `JitterIsTolerated` (`Spec => JitterTolerated`): a job
  that misses no more runs than its multiple allows is neither alerted on nor
  held as overdue by a sweep in flight (`NotAccused`). The second half is what
  makes it inductive: a listing may be older than the job it shows.
- `DailyIsExact` and `WeeklyIsRoundedUp` (`ScheduleSpec => []ExactForDaily`,
  `[]WeeklyRoundsUp`): the wait after a run is either a gap to a neighbour of the
  same day or the wrap past midnight, and for a job of every day those are the
  gaps of the calendar, both ways. For given weekdays the next day that runs is
  at most seven later, so an overnight gap is at most a week (or, between two
  runs on one day, an interval of that day). Minima and maxima come from the
  order of the naturals being well founded; no induction over the schedule is
  needed.
- `OnScheduleIsQuiet` joins the two: a CronJob with a readable daily or weekly
  schedule that succeeds as often as the calendar asks is never alerted on.
  `cron_monthly` is the same statement failing for days of the month.
- `ServiceTypesCorrect` and `RegistryBugsAreQuiet`
  (`ServiceSpec => RegistryBugsQuiet`): a service that was never down is neither
  alerted on nor held down by the verdicts of a probe that is being worked off
  (`NotBlamed`).
- `WatcherTypesCorrect` (`MCSpec => []TypesOK`): the composed instance implies
  each watcher's own specification (`EachWatcher`), so all of the above holds of
  it too.

What a failure costs. The sweeps catch a failing element and go on, which a test
with one failure in one place shows little of. The theorems count: of what a
sweep had to do and did not, there are at most as many elements as calls failed
meanwhile, wherever they failed and whatever else happened between two awaits.

- `OneFailureCostsOneJob`, `OneFailureCostsOneService`, `OneFailureCostsOneGroup`,
  `OneFailureCostsOneWatcher` (heartbeat) and `OneFailureCostsOneAlert` (repair,
  where another sweep may do the work). The invariant of each bounds, at every
  await, the mistakes among the elements already visited (`PaidFor` and its
  kind). The jobs are those that exist for the whole sweep of an API that
  answers throughout, and the alerts those that stay open. `Poison`, the elements
  no query can process, is excluded where the model has it.
- `SweepIsExact`: an error sweep in which nothing failed, over a warm index,
  ends with alerts for exactly the signatures that were failing when it looked.

What persists. `FailingKeepsItsAlert`, `QuietStaysClosed`,
`HeartbeatKeepsItsWord`, `RightAlertsStay`, `OutageKeepsItsAlert` and
`EndedAlertStaysEnded` say that an alert that is right stays as it is while its
cause does, through failures and restarts. They are the safety halves of the
liveness properties "what persists is reported" and "what is over is closed":
TLC checks that the right state is reached, the theorems that it is not left.
Each starts where no sweep is under way, because a sweep may act on what it saw
before; each invariant says that what a sweep holds about the element is true.
`OutageKeepsItsAlert` has a limit that the code has: an alert that is not
refreshed expires, so it counts the failures since the last fire and is silent
from the `STALE`th on.

Repair, its verifier, credentials, integrations, digest:

- `DecisionsAreBounded`: a sweep about to record an alert has recorded no row of
  it (`DecidesFirst`), so the rows of a fingerprint are by different sweeps, and
  counting them bounds the decisions by the sweeps that can run at once.
  `OnlyOverlapsDecideTwice` is the other side of `decided_twice`: a second
  decision takes two sweeps between lookup and insert at one time
  (`LookupsApart` fails); the invariant is `StillUndecided`.
  `AutonomyIsOptIn` carries the gate's verdict from the decision to the insert
  (`ShadowsOptedIn`). `EscalationsAnnouncedOnce` counts: announcements made and
  in hand never outnumber the rows recorded, by cardinalities of finite sets, so
  it assumes that finitely many sweeps run at once.
- `VerifierTypesCorrect`, `VerifierFailsClosed` and `QuietWhenPassed`, of
  `VerifierSpec`. A verification that has refused nothing was told yes by every
  check so far, and of a CronJob by one that saw it run (`Refused`). While a
  service ships its logs and the index stays up, the index knows of an error as
  old as the last one (`LastErrorIndexed`), so an index as old as the window that
  knows of none in it is right.
- `AcceptedMeansWorked`: a report is as old as it says, in flight, in store and
  in the matrix (`VerdictInv`), so a row that is accepted is younger than the
  lifetime of reports. `ExpiryIsForewarned`: no expiry in flight, stored or shown
  is later than the token's own, except one of a token that a shorter-lived one
  has replaced (`ExpiryInv`); no code could warn of that before the next report.
- `OneFailureCostsOneAlert`, see above. `OperationTypesCorrect` (`MCSpec =>
  []TypesOK`): the composed instance implies the specification of each of its
  five parts.
- `EventsStoredOnce` is inductive
  with the types alone: the index refuses the second insert.
- `OnlyOverlapsUndo` and `OnlyOverlapsBringBack`: while no two requests about one
  integration overlap (`NoOverlap`), a replaced key stays replaced and a removed
  row stays removed. This is the other side of `rotation_undone`: the overlap is
  not only enough to undo a rotation, it is the only thing that can.
- `DigestBaselineWasHeard`: on a day without trouble the snapshot is what the
  chat heard or what the one run is about to send (`Calm`), and after midnight
  that day is yesterday (`Baseline`). `DaysAreNotSilent`: until the chat has
  heard something, the cron, a run or a run's report is outstanding
  (`Outstanding`), on a day with at most one failure.

Only model-checked is everything under fairness (`DebtsPaid`, `OpeningsMadeUp`,
the liveness of `error_log_live`, `watchers` and `operations`): liveness and
`ENABLED` are beyond the prover, and of these properties only the safety halves
above are proved. That schedules are read correctly (`expandField`) is used by
the proofs as it stands.

## 5. Plan

What is left, in this order:

1. A weaker promise that handlers keep without staying apart, where
   `AlertPromise` is refuted, and its proof. Three conjuncts of it are there: `OneActivePerFingerprint`, `RowsWellFormed` and
   `KeepsProblems` hold for any pods and operators. What overlapping
   handlers can still promise the chat is open.
2. `JobWatcher` and `ServiceWatch` over `AlertsService` instead of over its
   promise, once the state space allows it.
3. When the repository executes repairs: attempts that run, cooldowns and the
   verifier called from the orchestrator.

## 6. Known behaviours that no property judges

Modelling met these beside the disagreements of section 3. Most are a choice the
authors may have made; the first contradicts a comment.

- `alerts.entity.ts:88-91` says `lastNotifiedAt` is when a message "was last
  actually delivered". It is stamped and saved before the send
  (`alerts.service.ts:78`, `:123`), so it is the time a message was due: after a
  lost opening or repeat the backoff runs as if the message had arrived. This
  shows in the source and has no run of its own; `OpeningsMadeUp` says what the
  chat may still count on, and goes by what was delivered.
- Recovery messages of overlapping sweeps, in one pod or two, are duplicates:
  both load the row before either marks it.
- The backoff is indexed by fires (`alert-policy.ts:36`): a problem that fires
  every five minutes is repeated six times on its first day.
- The verifier's third check takes a service for watched when it logged within
  hours, while the window it judges is minutes (`repair-verifier.ts:197-205`).
  `QuietWhenSeen` therefore speaks of services that shipped all their logs.
- The alert `WatcherSilent` is not among `SELF_REFERENTIAL_ALERTS`; it stays
  blocked because this service is not in the ledger.
- An escalation that is not delivered is not sent again: the decision is on
  record.
- When the jobs and pods cannot be listed, an overdue CronJob that has no alert
  yet is not reported while the sweep still beats; `OverdueReported` speaks of
  an API that answers everything. The alert of a deleted CronJob is closed by
  the expiry of stale alerts and by nothing else.
- A removed integration is inserted again by an update that read it before.
  Events without an id of their own are stored twice when their sender retries.
- Acknowledging an alert hides it from both lookups, and a reopen inside the
  flap window is silent even if the opening was never delivered (see `hazards`).

## 7. Not modelled

Authentication guards and the marathon proxy keep no state, the logging client
swallows its errors, and formatting, evidence texts, summaries, the startup
audit of the registry, health endpoints, bootstrap and the repository's scripts
are not what any property is about. The web console renders the API's answers;
that its customer page can send requests that overlap is why
`CustomerIntegrations` has more than one handler.

Of the error log watcher, the patterns that skip probe traffic are left out (a
signature stands for a group that is not skipped), as are two sweeps at once:
that takes a sweep longer than two cron rounds, or two pods. The same holds of
the job, service and credential watchers. Clock skew between pods and database
is not modelled (one `now`), nor are rows written by hand or before the
lifecycle migration.
