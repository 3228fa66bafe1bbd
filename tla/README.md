# Multi-Site AFDD: a TLA+ model of telemetry, evaluation and the rule lifecycle

Multi-Site AFDD takes telemetry of building equipment through a Redis stream
into PostgreSQL, evaluates versioned fault rules over it in device time, and
opens and closes issues. These modules model the way of an observation from its
source to an issue, the life of a rule from a request in plain language to its
retirement, and the database and dashboard around them. TLC checks them on small
instances. TLAPS proves, for every value of the constants, the safety properties that the
passing runs check, and the three refinements.
Paths are relative to the repository's `src/`; file names without a directory
are in `backend/app`.

## 1. The system

| Component | State it keeps | Operations | Correct when |
|---|---|---|---|
| Sources (`simulation/*`, `starter_pack.py`) | the row each file is at | merge, group, publish a frame (`xadd`) or ingest it, begin again | frames come in the order of delivery, nothing disappears, repeats are duplicates |
| Broker (Redis stream, external) | entries, last delivered id, pending entries and their idle time | `xreadgroup`, `xautoclaim`, `xack` | an entry is pending until acknowledged |
| Ingestion worker (`workers/ingestion.py`) | its scan cursor | `run_once`: claim idle entries or read new ones, one transaction per message, then `xack` | nothing is acknowledged that is not committed; what can be processed is acknowledged in the end |
| Telemetry ingestion (`ingestion.py`) | `receipts`, `telemetry`, `current`, `outbox`, `audit`, `health` | `ingest` one observation | exactly-once effects, latest current value, one outbox item per row, rejections and gaps visible |
| Evaluation worker (`workers/evaluation.py`, `evaluator.drain`) | `outbox.done` | `drain`: one transaction over pending items, per device time | every timestamp evaluated once per match, in order; one drain at a time |
| Frame evaluation (`evaluator.evaluate_frame`) | `states`, `issues` | one frame of one version on one equipment | evidence is complete and true, no fault is missed, recovery is proven |
| Rule lifecycle (`rules.py`, `application/rule_service.py`) | `versions` | create, adjust, activate, disable | one version in service; what leaves service is closed; drafts only are activated |
| Ontology registry (`ontology.py`) | none (reads `entities`, `edges`) | `preview`, `validate`, `spaces` | a growing inventory never takes equipment out of scope silently; half of an import is never confirmed |
| Rule authoring (`ai.py`) | `ai_requests` | `author`: two attempts, each step persisted | ends in a state that says why, drafts have their evidence |
| Inventory import (`seed.py`, `starter_pack.inventory`) | `entities`, `edges` | `import_inventory` | refuses conflicts, accepts the same pack again |
| Schema management (`schema.py`, `migrations/`) | the schema and its revision | `upgrade`, `reset` | a recorded revision is true; every old database gets to the head |
| Dashboard (`frontend/src`) | the rule on the screen, its preview, the check box, a snapshot | open, edit, preview, save, confirm, poll | what is confirmed is what is shown |
| HTTP API, read queries, CLI, health check | none | requests | |

How they interact: sources append to the stream; ingestion workers commit
telemetry and its outbox item in one transaction and acknowledge afterwards;
the evaluator reads the outbox and the active versions, and writes states and
issues; requests of the API change versions, and with them issues and states,
at the same time; an import changes what they apply to. Everything meets in the
database. The Compose deployment uses
PostgreSQL at its default isolation, READ COMMITTED; the tests use SQLite,
where `db.transaction` takes `BEGIN IMMEDIATE` and transactions are serial.

What is hard, with the lines where it bites, is the list `hazards` of
`PROJECT.json`. In short: redelivery and crashes between commit and
acknowledgement; the same event in two transactions; READ COMMITTED reads that
are stale when their result is written; deadlocks between point locks and the
health row; device time that runs late, twice or with gaps; frames that are
evaluated before they are complete; requests that race with a drain, a draft with
its activation, an import with a review; answers that reach a screen which has
moved on; processes that end between two transactions.

## 2. Modules

| Module | Models | Status |
|---|---|---|
| `FaultLogic` | `compare`, trusted observations, the verdict of a frame | checked, used in proofs |
| `Evaluation` | `evaluate_frame`, one version on one equipment | checked and proved |
| `IssueLedger` | abstract: issues as a ledger of intervals | refined by `Evaluation`, proved |
| `EvaluationProofs` | theorems about `Evaluation` | proved |
| `Ingestion` | stream, consumer group, workers and their transactions | checked, with liveness; safety proved |
| `TelemetryLedger` | abstract: history, queue and current values grow a transaction at a time | refined by `Ingestion`, proved |
| `IngestionProofs` | theorems about `Ingestion` | proved |
| `Monitoring` | requests and drains at their statements | checked on both dialects, proved |
| `RuleLifecycle` | abstract: draft, activate, disable, evaluate in single steps | refined by `Monitoring` on SQLite, proved |
| `MonitoringProofs` | theorems about `Monitoring`, on either database and where transactions are serial | proved |
| `Collection` | from ingestion transactions through the outbox to evaluated frames | checked, with liveness; safety proved |
| `CollectionProofs` | theorems about `Collection` | proved |
| `Source` | packs, frames, replay, live streaming, demonstration, and what ingestion makes of them | checked, with liveness; safety proved |
| `SourceProofs` | theorems about `Source` | proved |
| `Registry` | preview and validation over an inventory that imports let grow; review and activation | checked, proved |
| `RegistryProofs` | theorems about `Registry` | proved |
| `Authoring` | `author` next to activation and crashes | checked, with liveness; safety proved |
| `Review` | the dashboard's review next to the service | checked, with liveness |
| `ReviewProofs` | theorems about `Review` | proved |
| `Schema` | recognition, stamp, upgrade and reset of a database | checked, with liveness; safety proved |
| `Deployment` | the start of the portal: composes `Schema`, `Registry`, `Authoring` and `Review` | checked, with liveness |
| `DeploymentProofs` | theorems about `Deployment`, and with them about `Schema` and `Authoring` | proved |
| `MC*` | finite constants and symmetry (`MCInventory`: an inventory and what is imported into it) | |

A definition whose comment begins with "Variant:" is a faulty alternative of
the definition after it. No specification uses it; it documents what a property
notices, and `PROJECT.json` lists which one (`mutants`).

### Evaluation

`state` is the row of table `states`, `issues` the rows of table `issues` of
one version and equipment, `frames` a history of what each evaluated frame
showed. `EvaluateFrame(at, inputs)` is one call of `evaluate_frame`; its
disjuncts are the paths through the function: `Late` (63-64), `Insufficient`
(79-80), `Normal` and `Recover` (86-105), `StayActive` (106-107), `Qualify` and
`Trigger` (108-150). Each contains the gap reset of lines 76-77. Any device time
may follow any other, because a later drain may bring an older or an equal
timestamp. A sample is kept as its device time, and an observation as value,
quality and age: the inputs of a frame are all there is to know about it.
Times are integers in one unit; `Freshness` and `Duration` are the rule's after
the building's override.

### Ingestion

A message is a payload (`wellFormed`, a sequence of observations). An
observation keeps what `ingest` tells apart: event id, point, device time,
whether schema, point, unit and value are valid, whether processing it raises
anything but a `ValueError` (`raises`), whether the value is missing, and whether
it comes from the live source. Two observations with the same event
and different fields have different digests.

One `run_once` is `Reclaim` and, when nothing was claimed, `ReadNew` or
`IdlePoll`; a message is `Begin`, then per observation `NextItem` (validation,
the platform clock), `Lookup` (point lock, receipt, collision), `Claim`
(`insert_once`, telemetry, current value, notes) and `PutHealth`, then
`LastItem`, `Commit` (heartbeat and commit) and `Ack`. The steps are cut where a
statement can wait for another transaction: the point's advisory lock, an
uncommitted insert of the same event id, the health row. `tx[w]` is what worker
w has written and not committed, and with `points` and `health` what it has
locked. `Crash` and `DeadlockAbort` roll back and restart a worker, and so does
`Raise`: `ingest` catches `ValueError` only (`ingestion.py:146`), so an observation
whose time cannot be converted or whose id the database cannot store ends the
worker at every delivery. Entries stay pending until they are idle (`GrowIdle`)
and claimed.

### Monitoring

The database is one function from rows (`version`, `issue`, `state`) to values;
`tx[p]` holds the rows a transaction has written. A write waits while another
transaction holds the row (`Unlocked`) and then writes what was read before,
as `UPDATE ... WHERE id` does at READ COMMITTED. Requests follow `rules.py`:
`Create`; `Check`, then `Stop`, `Halt`, `Scan`, `Erase` for each version to stop,
then `Confirm`; or the stop alone for `disable`. A drain is `StartDrain` (try-lock,
pending items, active versions), `Frame`, `Evaluate`, `ReadIssue`, `Recover`,
`PutState`, `FinishDrain`. What a frame shows is left open here, as is whether an
interval has reached its duration: module Evaluation has both. Statements that
cannot be told apart by another transaction share an action: the insert of an
issue, which nobody sees or waits for before the commit, and the reads that
directly follow a lock. `Fail` rolls back at any point: a crash, a deadlock, a
failed validation, a stale digest, a version that is no draft.

### Collection

`Insert` is an ingestion transaction up to its commit, `Commit` makes its rows
and outbox items visible. A drain is `Start` (the batch: the first `BatchSize`
undone items by id, and the active pairs), `Sort` (the device times, the clock),
one `Frame` per device time (wait for the watermark, or evaluate every pair whose
points changed against the latest rows visible now, then mark the items) and
`Finish`; `Fail` rolls back. What is evaluated is remembered as a device time and
the rows seen, which are the inputs of module Evaluation. Forced drains (`force`)
are those without a watermark, and are left to the demonstration.

### Source

`Merge(f)` pulls the next row of the merged schedule: `Delivery` is the running
maximum of line 103, `First` the order of `heapq.merge`, and a frame is
`Complete` when the next row has another delivery time (`groupby`).
`PointEvents` turns a row into events. `Replay`, `Live` and `Demo` deliver the
frame; `Work` is the worker's transaction on a frame, ordered as
`_ingest_payload` orders it, with `Ingested` for one `ingest`. The hashes of live
identities are an order of the records chosen at the start. A pack's columns are
named by their points, and times are whole.

### Registry

`Paths`, `Missing`, `Verdict`, `Match` and `Preview` follow `preview`; the digest
is compared as the preview itself. The order of rows does not matter here, so
previews are sets. `Import` is `import_inventory`, `Inventory` the conversion of
the registers. `Read` is the first query of `load_registry`, `Review` and
`Activate` the second and what follows.

### Authoring

The record is in memory (`record`) and in the row (`stored`); an action ends with
the commit of a trace, of the draft or of the last state. The model's outcomes
are the decisions it may return and the exceptions that the code tells apart.

### Review

`Click` starts the operation of a button, with what its closure has captured
(`rule`, the editor, the digest); `Serve` is the request at the service, `Respond`
the code after `await`. Two variables are histories, for the properties: `ticked`
is what was on the screen when the box was ticked, and an activation takes it along
with the editor (`seen`). One operation runs at a time (`busy`), but rules can be
opened and edited meanwhile. A refresh aborts the one before, and an operation
ends when its refresh arrives or is aborted (`Settle`).

### Schema

A database is its tables, the indexes in which the revisions differ, the table of
revisions, and whether the history repeats a device time, which the unique index
of revision 3 does not survive until an operator has removed it (`Repair`).
`Migrate` ends with the commit of the stamp, `Run` is the upgrade, `Reset` the way
down.

### Deployment

`Setup` is a step of `Schema`, until `Start`: the API starts when no command is
under way and the database is at the head (`require_current`). Then a behaviour
follows one of the registry, the authoring requests and the dashboard. The
three have their own views of the rules and write nothing the others read, so
their interleaving would show nothing new; what crosses them (activation next to
an authoring request, an import next to a review, another user's activation
next to the dashboard) is an action of each. The fourth conversation over the
same tables, requests next to drains, is `Monitoring`.

## 3. Runs

| Run | Shows | Bounds |
|---|---|---|
| `evaluation` | evidence, no missed fault, recovery, one open issue, the ledger | times 0..6, freshness and duration 2: room for two issues, a gap of 3, late and equal frames; inputs for each way to be untrusted, off, equal to the threshold, and faulty |
| `ingestion_race` | exactly-once, current values, accounting, disjoint open rows, the ledger, everything before a message that ends its worker acknowledged in the end, PostgreSQL | two workers, two messages of four payloads that share an event, a device time, a point and an observation, one of them with an observation that raises; clock to 1; one crash, one stolen entry, any number of deadlocks; batch of 1 so that both workers hold messages |
| `ingestion_raise` | a message with such an observation is never visible (violated) | one worker, one message, no crash |
| `ingestion_items` | gaps are explained, for every kind of observation, SQLite | one worker that may crash once, three messages of six payloads, clock to 3 |
| `monitoring_serial` | quiet versions, closed issues, drafts, the atomic lifecycle, SQLite | two versions, two pieces of equipment, two issues each, two frames, failures anywhere |
| `monitoring_concurrent` | one version in service, unique numbers, one open issue, PostgreSQL | two requests, two evaluators, two versions, two issues, one frame pending at a time |
| `monitoring_stop_race`, `monitoring_close_race`, `monitoring_draft_race` | three disagreements with the documentation on PostgreSQL (violated) | one or two requests, one evaluator |
| `collection` | rows committed in time are seen by the evaluation of their device time; items in order are never passed over; every item is done in the end | three transactions, one device time in two of them and a late row in the third, two pairs of which one enters service in between, clock to 3, batch of 3 of the items, one failing drain |
| `source` | order of frames, nothing disappears, repeats, current values, live passes move the values, a replay ends ingested | every file of three rows of six kinds, merged with a meter's two; three modes, two selections, limits, two starts, two passes |
| `deployment` | databases: revisions are true, migrate gets every old database to the head. Registry: the inventory stays in order; growth, narrowing and torn reads change previews only as they should; what is activated was reviewed, and is of an inventory that was committed. Authoring: stop states, evidence, one draft, justified retries, an end. Dashboard: activations, snapshots, and that it does not stay busy | every old, damaged and partial database, both commands, one crash before the start; a base inventory, eight further imports of which three are refused, in any order, four configurations; two requests, ten outcomes of a call, one crash after the start; one draft, a second version to come, two configurations |

The remaining `.cfg` files are for use by hand, `tlc -config X.cfg` on the `MC`
module of the same subject (`Authoring` and `Schema` need none). Two pass:

| Configuration | Shows |
|---|---|
| `IngestionThree` | the safety of `ingestion_race` with three messages, so that a late observation and a redelivery meet both |
| `Review` | the dashboard alone with three versions, and what is confirmed is what is shown |

Eight look for a statement of the documentation in the code's behaviour, and are
violated: `EvaluationDiagram`, `CollectionDelay`, `SourceLate`, `RegistryDrift`,
`AuthoringActivation`, `AuthoringRetry`, `SchemaRecovery`, `ReviewGate`.

Why the bounds are enough. In `Ingestion` a conflict needs two transactions and
at most two points, and each message can be delivered twice; a third
(`IngestionThree`) lets a late observation and a redelivery meet both. In
`Monitoring` supersession needs two versions, a race with a drain needs one
request, a race of requests two; the second evaluator is there for
the try-lock. `Evaluation` is proved without bounds. In `Collection` a device time
is split by two transactions, the batch limit and the watermark; a third
transaction brings a later time. In `Source` a late row, its predecessor and a
copy fit in three rows; the second file makes the merge choose. In `Registry` one
import lies between two reads at most, or several, and each reason for an exclusion
has an import that causes it. In `Review` a race needs two rules and one call.
`Schema` and `Authoring` have no bound but the number of crashes, and in
`Authoring` the second request is there for the activation of another's draft.
In `deployment` a process ends before the start, and another one after it.

Symmetry (`WorkerSymmetry` in `IngestionThree`, `ProcessSymmetry`) is used with
invariants and step properties only; no action names a worker, a request or an
evaluator.

Deadlock is checked in the runs of `Evaluation`, `Ingestion` and `Monitoring`,
which stop nowhere. The others say `CHECK_DEADLOCK FALSE`: a pack is replayed, a
request answered, a set of telemetry evaluated, a database migrated, and that is
the end.

### What the violated runs show

* `docs/afdd.md:51`: a drain that read the versions before a disable commits
  writes afterwards; its issue stays ACTIVE and its state stays, and no later
  drain looks at them (disabling the version again would).
* `docs/architecture.md:59`: a recovery and a stop of the same issue both
  succeed, and the second erases what the first recorded.
* `rules.py:68`: a draft may be disabled between activate's check and its
  update, and enters service all the same.

These three cannot happen on SQLite, which is why the tests do not meet them:
`monitoring_serial` checks the same properties there. The next can, on either:

* `data/candidate-starter-pack/required-behaviors.md:12`: an observation on which
  `ingest` raises anything but `ValueError` (an `OverflowError` in `schemas.py:32`, a
  `DataError` of the driver) rolls its message back, ends the worker and is claimed
  again, for ever. It is in no history and no audit log, and may keep what shares its
  frame or its batch from being processed. What came before it is acknowledged
  (`EventuallyAcknowledged`), and nothing it wrote stays (`LedgerSpec`).

The configurations for use by hand show, in the order above:

* `docs/afdd.md:17-30`: a row also goes from NORMAL to INSUFFICIENT_DATA (and from
  there to ACTIVE, which the diagram does not have either).
* `docs/decisions.md:29`: a row committed after its device time was evaluated is
  dropped, so that a delay changes the frame and the timing of the fault.
* `data/candidate-starter-pack/required-behaviors.md:14`: in live mode a late row
  and the row on time get the same new time; the order of their hashes decides
  which one is kept and shown.
* `docs/understanding-checkpoint.md:59`: drains resolve their targets anew, and
  an import changes them without a review.
* `docs/ai-rule-authoring.md:80`: a draft that is activated before its request
  names it leaves the request at DRAFT_READY.
* `docs/ai-rule-authoring.md:51-56`: malformed output and drafts without targets
  are not tried again.
* `README.md:30`: reset of a database without a recorded revision leaves an empty
  table of revisions, and from then on neither command succeeds.
* `docs/usability.md:33`: a preview that arrives after another rule was opened is
  shown under that rule, and its activation can be clicked. The server refuses it,
  unless both rules have the same targets and values: what enters service is what
  was ticked (`ActivatedAsReviewed`).

### Fairness

`Ingestion!FairSpec` assumes that a worker takes its steps and is restarted when
it ends (`run_forever`, `restart: unless-stopped` in `docker-compose.yml`), that
PostgreSQL aborts some transaction of a deadlock, that an exception is raised
where processing reaches it (`Raise`, weakly fair: nothing else is enabled for that
worker but a crash), and that an entry nobody holds becomes idle. Fairness of a
worker's steps is strong: a lock that is released
again and again is given to the transaction that waits for it, as PostgreSQL's
lock queues do. It also assumes that this happens before an abandoned entry has
been idle for 30 seconds (`Granted`, `Abandon`); as a worker that ends again and
again is granted locks again and again, `Abandon` is strongly fair: an entry's idle
time grows whatever others do. Without these assumptions TLC
finds a schedule in which two frames make each other the victim of a deadlock
for ever: nothing in the code bounds the number of times. Crashes and stolen
entries are bounded in number; deadlocks are not.

`Collection!FairSpec`: time passes and the evaluator takes its steps
(`run_forever` drains every second); nothing is assumed of the ingestion
transactions, and failing drains are bounded in number. `Source!FairSpec`: the
source reads and publishes, and the worker takes what is published; restarts are
bounded.

`Deployment!FairSpec`: the operator gives `migrate` until it has run, and removes
repeated history (weak fairness of `Repair`), without which migrate would fail for
ever (`migrate`: strong fairness of the command, which is enabled only between
the runs of the other; nothing is assumed of `reset`); an authoring process that
has not ended takes its next step, as the model's client has a timeout; calls of
the dashboard are answered or fail, and the browser runs what waits for them.
Nothing is assumed of the person, of the timer, or that the API is started. The
`FairSpec`s of `Schema`, `Authoring` and `Review` say the same of each part
alone.

## 4. Proofs

Every theorem is about `Spec`, without fairness, and for every value of the
constants that satisfies the named ASSUMEs of its module; TLC evaluates these on
the instances of section 3. A property of a run that a theorem states is named in
the column "Property".

None of the properties is inductive: each says something of the rows, and the
rows do not say what the processes know. The inductive invariants (`IInv` of each
module) add that. TLC found the properties true before they were proved.

### Evaluation (`EvaluationProofs`)

For every operator, threshold, freshness, duration, set of times and set of
inputs: naturals, positive limits, well-typed inputs.

| Theorem | Property |
|---|---|
| `TypeCorrect` | `TypeOK` |
| `RowIsTheRun` | `IntervalIsRun` |
| `EvidenceIsSound` | `EvidenceSound` |
| `RecoveryIsProven` | `RecoveryProven` |
| `OneIssueOpen` | `OneOpenIssue` |
| `NoFaultMissed` | `NoMissedFault` |
| `ImplementsLedger` | `LedgerSpec` |

`IInv` (theorem `Invariant`) says what the row stands for: `last_at` is the last
frame; without an open issue, `since` and `samples` are exactly the longest fault
run that ends there, shorter than the duration (`IntervalIsRun`); issues lie one
after another, all in the past. Each action is one lemma; the refinement uses that
the last issue is the open one.

### Ingestion (`IngestionProofs`)

For any number of workers and messages, any observations, both dialects, any
number of crashes, deadlocks and stolen entries.

| Theorem | Property |
|---|---|
| `TypeCorrect` | `TypeOK` |
| `OneEffectPerEvent` | `ExactlyOnce` |
| `CurrentValueIsLatest` | `CurrentIsLatest` |
| `NothingLost` | `AcknowledgedIsAccounted` |
| `GapsReported` | `GapsExplained` |
| `NoInsertClashes` | `OpenRowsDisjoint` |
| `ImplementsLedger` | `LedgerSpec` |

`IInv` is about the open transactions. They share no point and no event
(`Apart`), which the advisory locks and the unique receipts give on PostgreSQL and
`BEGIN IMMEDIATE` on SQLite (`Serial`). What a transaction writes of a point it
writes under the point's lock (`Locked`), so its rows stay fresh and its current
values the latest while others commit (`Fresh`, `SeesLatest`); what it has handled
has a receipt or a note of its own (`Progress`), and that is what makes the
acknowledgement after the commit safe. A commit is then one step of
`TelemetryLedger`, and everything else a stutter. `FairIsSpec` carries all of it
over to `FairSpec`.

### Monitoring (`MonitoringProofs`)

For any number of requests, evaluators, versions, equipment, issues and frames.

| Theorem | Property | Holds on |
|---|---|---|
| `TypeCorrect` | `TypeOK` | either database |
| `OneVersion` | `OneVersionInService` | either database |
| `StateKnowsIssue` | `OpenIssueInState` | either database |
| `DisabledIsQuiet` | `OutOfServiceIsQuiet` | SQLite |
| `ClosedIsFinal` | `ClosedStaysClosed` | SQLite |
| `OnlyDraftsEnter` | `OnlyDraftsActivated` | SQLite |
| `ImplementsLifecycle` | `LifecycleSpec` | SQLite |

On either database: one request holds the rule's lock and one evaluator drains
(`Exclusive`); versions are numbered one by one and nothing was evaluated for a
draft; a request that has stopped a version has it disabled in its own writes
until it commits; and an evaluator's picture of a pair agrees with the database as
long as the version is in service (`SeesOpenIssue`), for whoever else writes these
rows stops the version. That is why `OpenIssueInState` is about versions in
service only: the run `monitoring_stop_race` shows what becomes of the others.

The last four assume `Dialect = "sqlite"`, and fail without it (the three violated
runs). Their invariant adds that one transaction
is open at a time and has seen and written everything its statements say; a
commit is then one step of `RuleLifecycle`, and everything before it a stutter.

### Collection (`CollectionProofs`)

For any frames, pairs, watermark, batch size and number of failures.

| Theorem | Property |
|---|---|
| `CollectedInTime` | `RowsCollected` |
| `NothingPassedOver` | `NothingSkipped` |

`IInv`: the items that are done are closed under "inserted and committed before,
with an earlier device time" (`DoneInOrder`); a drain has all that was before any
of its items and goes up in device time (`DrainInOrder`), which is what keeps the
batch limit from splitting an order; and every evaluation has an item it was made
for, after that item's time of collection, with all rows that were committed by
then (`Complete`, `Sound`). `TypeCorrect` and `InductiveInvariant` are stated too.

### Source (`SourceProofs`)

For any packs, selections, orders of hashes, limits and numbers of starts and
passes, with any length of the stream, in all three modes.

| Theorem | Property |
|---|---|
| `Faithful` | `DeliveryFaithful` |
| `Repeats` | `RepeatIsDuplicate` |
| `Latest` | `CurrentIsLatest` |
| `Moves` | `LiveMoves` |

`IInv` (theorem `Invariant`) follows a row from its file to the store:

* `Schedule`: what was read of a file is not later than the frame being collected,
  and nothing that is pending comes before it. This is what the running maximum of
  a file's times is for: a late row does not pull its file back.
* `FromRows`: every event in the stream, the history or a note stems from a row of
  the pack, and its identity says from which file, record and point.
* `Covered`: a selected row that was read is in the group, or each of its points
  has an event in the stream, the history or a note. `Schedule` speaks of rows and
  the property of the store, and frames are in between.
* `Kept`: a store has one observation for an identity, and one for a point and time;
  what was rejected clashes with something that was accepted; and `current` is the
  latest of the history. A measurement delivered again has the identity it had, so
  the only thing it could clash with is itself.
* `Live1`, in live mode: an event is of a pass that was begun, events of one time
  are of one pass, and each frame has one time, later than those before it and than
  the whole history. Without it a pass could meet the times of another.
* `Numbered`, where a file numbers its records (`WellNumbered`): what this pass has
  delivered is of no record still to come, so an identity is used at one time. This
  is why a fresh frame is not taken for a repetition.

The frame is a fold over its events, the events are flattened from the rows, and
the worker sorts them; what these do for sequences of every length is induction
over data. The library's induction theorems take the statement as a parameter
and cannot be used, so the proofs go by the least number: a set of numbers that
is not empty has a least one (`Least`, from the library's first-order
`WFMin`), and so what holds at 0 and passes from each number to the next holds
up to n (`UpTo`), stated of a set and not of a predicate. On these rest
`Places` and `ArrangedIsAll` (an order puts every element in one place, and the
sorted sequence has all of them), `FoldSteps` and `FrameKept` (what every ingestion
keeps, a frame keeps), `Flattened` (a flattened sequence has the elements of its
parts), and `FrameMoves` (what a fresh frame measures is current after it).

The hypotheses on the constants: packs are sequences of files, which are sequences
of rows, observed at some time and numbered (`PacksAssumption`); points are finitely
many and of one piece of equipment (`PointsAssumption`), and equipment of the
registry reports in one file (`FilesAssumption`). The last two are true of the
registers of a pack, which have one kind of equipment for each file, and the theorem
`Repeats` needs them: two files that reported the same point at the same time with
the same value would have different identities, and one of the two would be rejected.
`HashesAssumption`, `LimitsAssumption` and `NoneAssumption` give types.

### Registry (`RegistryProofs`, `DeploymentProofs`)

For any payloads, registers and configurations that are well formed.

| Theorem | Says |
|---|---|
| `InventoryStaysInOrder` | identities are unique, edges resolved, sources not mixed |
| `PacksAlwaysImport` | a pack is never refused over an empty inventory or itself |
| `TornReadsHarmless` | new equipment is never seen in part |
| `NarrowingDisambiguates` | a filled-in selector adds nothing but what was ambiguous |
| `GrowthAmbiguates` | an import takes nothing out of scope but by an ambiguity |
| `ActivationIsWhole` | what enters service was reviewed, and holds in the inventory its activation began with |

Inventories only grow, and with them paths, owners and points; a match can
therefore only turn into an ambiguity. `IInv` is the inventory's order, that what
a reader holds grew into what is committed, and that what a reviewer has seen grew
into what the activation reads first.

`ActivationIsWhole` rests on the last. Review and activation each read with two
queries, and neither need have seen an inventory that ever was. But the inventory
`h` of the activation's first query lies between what was reviewed, `g`, and what
the activation sees, `k` (`Between`), and the digest says that `g` and `k` give the
same preview. What grows and is the same at both ends is the same in between: the
paths, as an identity means one entity; the rooms, owners and spaces; and the points
of a class that has one in `g` and one in `k` (`PreviewBetween`). Equipment that
lacks points is the exception, which `ActivatedWhole` leaves out: an exclusion names
the classes that do not have exactly one point, and a class with none, then one, then
two has one only in the middle. If two points are known and connected to nothing,
one import may connect the first after the review, and another the second between
the queries of the activation: both previews exclude the equipment, which matched in
the inventory in between. Nothing wrong enters service by it; a piece of equipment
is left out that could have been monitored for a moment.

The hypotheses are: identities of a register are unique and its references lead to
rows of it (`WellFormedRegisters`); a configuration has its fields
(`WellFormedConfigs`); and the entities of a payload are of the payload's source
(`WellFormedPayloads`). `import_inventory` trusts the last (`seed.py:89-94` compares
the payload's source with those of the entities that are stored): a payload that
names one source and brings entities of another would be taken, and sources would
be mixed. Both producers of payloads, `synthetic_inventory` and
`starter_pack.inventory`, satisfy it.

### Deployment, Schema, Authoring and Review (`DeploymentProofs`, `ReviewProofs`)

| Theorem | Property |
|---|---|
| `RegistryIsSound` | `RegistrySound` |
| `DeployedGrowthAmbiguates` | `GrowthOnlyAmbiguates` |
| `DeployedActivationWhole` | `ActivatedWhole` |
| `SchemaIsSound` | `SchemaSound` |
| `RequestIsTruthful` | `RequestTruthful` |
| `DeployedActivationReviewed` | `ActivatedAsReviewed` |
| `DeployedSnapshotForward` | `SnapshotForward` |

A step of the deployment is a step of one part and leaves the others alone, so an
inductive invariant of a part is one of the whole; the theorems of `RegistryProofs`
and `ReviewProofs` are instantiated for it.

*Schema.* A database with a recorded revision has exactly that revision's
indexes. One without is empty, partial, or has the indexes of a revision or all
but one of them (`Recognisable`). No revision's required indexes contain those of
another (`RequiredApart`), so recognition finds the revision a database was made
by, or none (`DetectedIsAt`); a stamp is therefore true, and every step up
from it is possible unless the history repeats a device time.

*Authoring.* For any number of requests, crashes and activations. `AuthInv` says of
every place of `author` how much evidence the record has by then (`Written`), which
outcome the state stands for (`Explained`), why there is a second attempt
(`Retried`), and that a version, the record that names it and the row that does
agree (`Drafted`). It assumes only that "no value" is no result, draft or
status (`NoneAssumption`).

*Review.* For all versions, configurations and initial drafts, with no assumption
on the constants: `ReviewInvariant`, `WorkspaceForward` (`SnapshotForward`),
`ConfirmedIsShown` (`TickedIsShown`), `ActivationReviewed`
(`ActivatedAsReviewed`). A version only goes from draft to active to disabled, so
"older state of the same versions" (`Behind`) is an order, and the service only
moves up in it. The snapshot alone says nothing of the answers on their way:
`IInv` adds that a refresh under way has read something between the snapshot and
the service (`Between`), and that there is one at most, which is what aborting the
one before is for: of two, the older could arrive last (`BegunBeside`, the mutant
of `SnapshotForward`).

`ActivationReviewed` goes from the click to the service. The service compares the
digest with the version (`MayActivate`); that the digest is the one that was ticked
is `ConfirmedIsShown`, which a preview that arrives would break if it left the box
alone (`ArrivedTicked`, the mutant); that the editor held the version's
configuration rests on the button, which compares it with the snapshot, and on
`Behind`, by which the snapshot has the configuration of the service. `SentOK` keeps
this while the activation is on its way, is answered late, or fails.

### Only model-checked

* Liveness: `EventuallyAcknowledged`, `EventuallyDone`, `EventuallyReplayed`,
  `EventuallyHead`, `EventuallyStops` and `BusyEnds`; fairness and ENABLED are outside
  the prover's reach.
* The violated runs, which are about behaviours and not about their absence.

## 5. Not modelled

* Wording, time zones, JSON, floating point: values and times are integers;
  thresholds compare exactly.
* Which exceptions a content can cause: an observation raises or does not, and one
  that cannot be rejected because its note cannot be stored is one that raises. Two
  places outside `ingest` are left out: a failing heartbeat or acknowledgement is a
  crash.
* Imports next to each other: `Registry` has an import as one step, whereas
  `import_inventory` takes no lock, and two first imports of different sources at the
  same time could mix them on PostgreSQL.
* Requests next to `Collection`'s drains: a drain that is rolled back because it
  deadlocked with a request is one that fails, of which there is a bounded number.
* How long a model call takes: httpx's timeout is that of one read, and a call that
  trickles is taken as one that is answered.
* The numbers in the health row; its lock is modelled, as workers wait for it.
* Trimming and deletion of the stream: nothing in the code does either.
* Redis losing its last second of appends (`appendfsync everysec`).
* The synthetic simulator and JSONL replay: they publish single messages, any of
  which `Ingestion` has; waiting for an active rule and the pauses of the sources.
* In `Schema`, columns and primary keys (a database that differs in them is one
  whose tables are "some"), the hypertable, and SQLite, where DDL commits by
  itself.
* In `Registry`, labels, and the spaces of a fault beyond their identities.
* In `Review`, the other views, the reviewer's name, and matches: every preview
  has some.
* HTTP routes and read queries, the command line and the health check: they keep
  no state.

## 6. Plan

A proof that the parts of `Deployment` implement the parts alone, so that
theorems need not be stated in both.
