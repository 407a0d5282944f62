# A formal model of nanexus-event-intelligence

TLA+ modules that model the event path of this repository, TLC configurations that check
them on small instances, and proofs that the TLA+ proof system (TLAPS) checks for every
value of the constants. Paths below are relative to
`backend/src/nanexus_event_intelligence/`.

## 1. Inventory

The product is an event hub for camera recorders. An event enters over MQTT, becomes a
canonical observation in PostgreSQL, travels through a transactional outbox and a Redis
stream to a handful of consumer groups, and is looked at through a REST API that also
hands review jobs to external processors.

```
 MQTT ──> live_worker ──> ingest pipeline ──┬─> PostgreSQL (observations, review items, jobs, ...)
                                            └─> outbox_events
 outbox_events ──> OutboxPublisher ──XADD──> Redis stream
 Redis stream ──> RedisStreamWorker x3 (canonical, shadow, notification groups) ──> handlers, DLQ
 external processor <──REST──> processor routes ──> PostgreSQL (jobs, invocations, claims)
 operator <──REST──> event routes ──> PostgreSQL (decisions, feedback, audit)
 processor, snapshot route, smoke test ──FrigateHttpClient──> Frigate HTTP API
 PostgreSQL ──ObservationExporter──> replay bundle ──ReplayEngine──> shadow rules
```

| Part | Source | State | Operations | What is hard |
|---|---|---|---|---|
| Outbox publisher | `pipeline/outbox.py` | `outbox_events.published_at`, `last_error`; the open transaction | `publish_batch` | several publishers, crash between XADD and commit, lost replies, backpressure read outside the transaction |
| Stream worker | `pipeline/worker.py` | Redis group: last delivered id, pending list, delivery counts; DLQ stream | `ensure_group`, `run_once` | slow handlers and overlapping claims, poison messages, a batch that breaks off |
| Pipeline process | `pipeline/runtime.py` | position in its loop | the loop | publishing and consuming in one loop; one group's errors delay the others |
| Ingest pipeline | `adapters/frigate/pipeline.py`, `persistence/repositories.py` | raw messages, observations, review items, checkpoints, jobs, outbox | `ingest`, `ingest_fixture_bundle` | duplicates, out-of-order lifecycle, concurrent ingests of the same message |
| Live worker | `adapters/frigate/live_worker.py` | MQTT session, in-flight future | `_on_message`, `_ingest` | a timeout that races with the commit; redelivery |
| Processor jobs | `processor/service.py`, `api/routes/processor.py` | `processor_jobs.status`, `attempt`; `model_invocations`, `claims` | `next_job`, `submit_result` | several processors, repeated and late submissions, jobs whose processor died |
| Shadow decisions | `alerts/*.py` | `decisions`, their revision numbers; an outbox row | `ShadowDecisionHandler.__call__`, `evaluate` | redelivered events, concurrent workers, revision numbers shared by several observations |
| Notifications | `notifications/*.py` | `actions`, `notifications` | `CommunityNotificationHandler.__call__` | two transactions around a webhook call; redelivery in between |
| Event API | `api/routes/events.py`, `api/routes/review_items.py` | `decisions`, `feedback`, `audit_records` | `create_feedback`, `list_events`, `get_event`, `get_review_item` | concurrent revisions of feedback; responses put together from several statements |
| Replay | `replay/*.py`, `alerts/replay.py` | a bundle on disk, the run of a replay | `export`, `load_replay_bundle`, `run` | bundles that are partial, shared, damaged or read while they are written; decisions made from less than the live handler had |
| Plugin registry | `plugins/registry.py`, `core/plugin.py` | registered plugins, their handles and health | `register`, `start_all`, `stop_all` | one plugin of several failing in any call; cancellation; calls repeated |
| Frigate HTTP client | `adapters/frigate/http_client.py`, `evidence_reader.py`, `media_api.py`, `http_cli.py` | login flag, attempt, open response; under the routes, a database connection | `_request` and what calls it: the evidence route, the snapshot route, the smoke test | retries, silence, replies that break off, connections held meanwhile |
| Recorder | `adapters/frigate/recorder.py` | fixture files | `record` | reconnects |
| Contracts, configuration, CLI, web | `core/**`, `config.py`, `*_cli.py`, `web/` | none of their own | validation, wiring, presentation | nothing that interleaves |

## 2. Plan

The order follows the event: what carries it first, what is made of it next, what is shown
of it last.

| Step | Modules | Status |
|---|---|---|
| 1. Delivery | `BatchOrder`, `OutboxPublisher`, `AtLeastOnceDelivery`, `StreamWorkers`, their composition `EventPipeline` | done, and proved about |
| 2. Consumers | `Notification`, `Decisions`, `ShadowRules` | done, and proved about |
| 3. Ingest | `Ingest` | done for review items and objects, and proved about |
| 4. Jobs | `ProcessorJobs` | done, and proved about |
| 5. Queries | `EventQuery` | done, and proved about |
| 6. Replay | `Replay`, over the operators of `ShadowRules` | done, and proved about |
| 7. Plugins | `PluginRegistry` | done, and proved about |
| 8. Frigate HTTP | `FrigateEvidence` | done, and proved about |
| 9. Composition | ingest, the outbox, and the decision made from it, with the abstract specification "an observation is decided once per policy, and announced" | open |

Theorems: for each component its safety properties, by an inductive invariant (done, section 6).
Next: the composition of step 9.

## 3. Modules

Each module maps one database statement, one Redis call or one answer of a handler to one
action, because that is where other processes come in between. What happens in a process
between two of those calls is part of the action.

**`OutboxPublisher`**. `row` is `outbox_events` (new, failed or published), `stream` the
Redis stream, `lastId` and `pel` its groups. For each publisher, `pc` is its place in
`publish_batch`, `todo`, `sent` and `erred` are the rows of its open transaction by what it
has done with them. Checking the backlog, locking a batch, each XADD and the commit are
actions; each may fail, with the XADD executed or not, and the process may die, which rolls
the transaction back. The consumers are an environment that delivers and acknowledges in
every order Redis allows.

**`StreamWorkers`**. `count` is the delivery count of a pending entry, `handled` what a
handler has completed, `dlq` the copies in the dead-letter stream; `batch` and `wpc` are a
worker's place in `run_once`. An entry may be claimed from a worker that is still working on
it. `AtLeastOnceDelivery` is the same service without workers: a message is settled for a
group only after its handler completed or a copy is in the dead-letter stream.

**`EventPipeline`** puts both into the loop of `runtime.py` (`stage` is the position in it)
with one stream between them. The step "publish" is a step of the publisher, the step
"consume" one of a worker; that each side behaves as the other's environment assumes is
checked (`PartsAgree`), not assumed.

**`Notification`** follows one idempotency key: `action` and `delivery` are the status
columns of `actions` and `notifications`, `msg` and `count` the entries that ask for the
notification. Receiver and stream are modelled by what the handler sees of them.

**`Ingest`** follows the messages of some review items and objects: `raw`, `obs`, `mapped`,
`review`, `jobs` and `outbox` are the tables, `unacked` what the broker will deliver again,
and for each transaction `history` and `loaded` what it has read. Writes happen at commit; a
conflict with a unique key then aborts the transaction. `published` is what the camera server
has to say: a few messages at a time, chosen at the start.

**`Decisions`** follows one observation: `decisions` with revision and policy, `outbox`,
`feedback` with what it supersedes, `holder` of the row lock. Inserts wait for an open
transaction that inserted the same revision.

**`ProcessorJobs`**: `status`, `attempts`, `invocation` and `audits` of each job, and
requests statement by statement. Whether the response leaves before or after the commit of
`get_session` depends on the version of the web framework; both happen.

**`ShadowRules`** has no state: `Evaluate` is `evaluate`, `Matches` is `_evaluate_rule` and
`COMMUNITY_POLICY` the policy of `alerts/policy.py`, as operators. `RulesAreSound` says what an
evaluation must look like without its loop, for every fact of the instance.

**`Replay`** follows observations from the database (`stored`) into bundles and out again.
`stage`, `request` and `rows` are an exporter's place in `export`; `made`, `events` and `manifest`
are directories and their two files, which are opened, filled and closed in separate steps.
Files may be damaged or exchanged from outside. `replay` is a run that reads the manifest,
then the events, checks both against each other and gives each event to the sink, which
evaluates it by `ShadowRules`; `emitted` is what the sink was given.

**`PluginRegistry`**: `plugins`, `handle` and `health` are the registry's dictionaries, `call`
and `at` the place in `start_all` or `stop_all`; `running` is what the plugins themselves do,
and `lost` remembers instances whose handle the registry has given up. The plugins are
external: every call of one may fail, and be cancelled, and its `health()` may report any
`PluginState`, which `start_all` stores as it is.

**`FrigateEvidence`** has the retry loop of `_request` (`attempt`, `open`, `last`) under its
three callers, told apart by `kind`. `connections` is the pool of the database engine, from
which the two routes take one each; the snapshot route gives it back before it asks Frigate,
the evidence route after. Frigate is external and may answer anything. A request may also end
before it is sent, because its id is empty or too long (`Unnamed`). `failures` counts the
transient failures of a request, that of its login among them.

**`EventQuery`** runs one request at a time over committed observations `db`, statement by
statement, while other processes commit. Filters on lifecycle, label and source are sets of
observations. `trail` is what has been committed about one review observation and `shown`
what a detail response says of it.

Every definition's source lines are in `PROJECT.json` under `map`.

## 4. Runs

Each module with state is checked by one run, safety and liveness together; `EventQuery` and
`FrigateEvidence` have one more each, where code and documentation disagree. `Replay` and
`PluginRegistry` share a run: they have no state in common, never call each other and have
safety properties only, so `MCReplayAndPlugins` lets TLC explore the steps of either while the
other is in its initial state, which finds the states of both and none of their combinations.
The properties of a run are what is hard to test; type invariants are proved (section 6).

| Run | Instance | What it shows |
|---|---|---|
| `OutboxPublisher` | 2 publishers, 3 rows, batches of 2, limit 1, 1 failure | nothing is marked published that is not in the stream; more than one copy of a row needs a failure; the limit is overshot by at most a batch per publisher; every row is published |
| `StreamWorkers` | 2 workers of one group, 2 entries (one poisonous), 2 deliveries, 1 crash | nothing is lost, no entry is dead-lettered early nor more often than there are workers (`DeadLettersAreEarned`); the abstract delivery is implemented; every entry is settled, so that the poisonous one ends in the dead-letter stream |
| `EventPipeline` | 1 process, 2 groups, 2 rows (one poisonous), limit 1, 1 failure on each side | the two sides fit; no published event is lost in either group; every event is settled, although the loop that waits for the backlog is the one that works it off |
| `Notification` | 2 entries for one key, 2 workers, 2 failures | nothing is settled that the receiver has not decided and stored statuses are earned (`RecordsAreEarned`); the number of copies is bounded; what is delivered stays delivered; the receiver decides in the end, or the entry is dead-lettered |
| `Ingest` | start of a review in two payloads, its end, the end of an object, an invalid message, three of them at a time; 2 transactions, 1 failure | what is acknowledged is stored, once, with audit flags that are honest about its own entity and one job for each end of a review; every message is ingested |
| `Decisions` | one worker of an old policy, two of a new one, 2 feedback requests, 1 crash | revisions have no gaps, a policy decides once and announces it (`HistoryIsSound`); collisions cannot use up the deliveries; feedback forks only when requests overlap |
| `ProcessorJobs` | 2 jobs, 3 results (one refused), 2 requests at a time, 1 failure | a job is handed out once, ends with one whole result; receipts are true; every job is claimed |
| `ReplayAndPlugins` (`Replay`) | 2 exporters, 2 directories, 3 observations (one too large), 5 requests, limit 2, 1 interruption or damage | a replay that reports success replayed one export, all of it and in order; what cannot be loaded has a reason; replay decides as the live handler did up to one rule; no bundle is overwritten. The rules are checked for 3 lifecycles, 3 labels, 2 zones and up to 2 objects |
| `ReplayAndPlugins` (`PluginRegistry`) | 3 plugins that fit and one that does not, 9 offers (3 refused), 2 instances of each, any reported health | after `stop_all` nothing runs but what was lost; a held handle is that of an instance that runs and was never given up; `stop_all` leaves no handle behind it |
| `FrigateEvidence` | 2 callers of any kind, 1 connection, 2 retries, 3 requests in a smoke test | answers stand for what Frigate replied, "unavailable" for every attempt allowed and no more, or for one login without a reply; nothing is left open; every request is answered |
| `FrigateEvidence_login` | the same | violated: see below |
| `EventQuery` | a review, three objects, 6 observations, pages of 2 | pages are as full as their total says, an object stands beside its review only when that is new, a second page misses only what moved, was grouped otherwise or tied, a detail's sections agree |
| `EventQuery_inspect` | the same | violated: see below |

*Bounds.* The rules these modules check are about pairs: two publishers with one table, two
workers with one entry, two transactions with one key. Two actors make every pair, the third
worker of `Decisions` is there because two must share a policy while a third has another.
Three rows with batches of two make a full batch and a partial one. Two deliveries are the
least that can be exceeded, and a limit of one in flight is the least that lets anything
through. One failure per run reaches every step, since it may strike at any of them; a
second would repeat it. `Notification` has two, because a success that follows a failure may
itself be recorded late. `Ingest` has three messages at a time: two of one key and another of
the same entity, two of one entity and one of another, two of one key and one that is no
observation; a fourth would add no relation between messages. `Replay` has a label for each
rule and one for none, a zone in the list and one outside it, two objects, of which one may
stand while the other's state is unknown, two observations at the same time so that their
order is decided by the later keys, and a limit that one window exceeds; the second exporter
and the second directory make every confusion of two bundles. `PluginRegistry` starts a plugin
twice, so that an instance may be lost and a later one be stopped; the third plugin has
neighbours on both sides. `FrigateEvidence` has one connection, the least that one request can
take from another, and two retries, so that there is a first, a middle and a last attempt.
`EventQuery` has a start of an older version that has no link row, later observations of the
review that add a link and drop one, so that objects join their review and leave it between two
pages, rows of different entities that end at the same time, so that ids decide, and an
observation delivered last that is among the oldest; with fewer the exceptions of
`PagesMissOnlyMoved` do not all occur. Delivery
counts stop at the limit, the only value they are compared with.

*Deadlock* is checked in `OutboxPublisher`, `EventPipeline`, `Decisions` and `EventQuery`. The
other instances may stop: `StreamWorkers` when its entries are settled,
`Notification` when all of them are settled, `Ingest` when every message is acknowledged,
`ProcessorJobs` when every job has ended and every session is idle, `ReplayAndPlugins` when the
exporters have ended and no bundle can be read (the registry never does: between two calls
`stop_all` is always possible), `FrigateEvidence` when every caller is answered.

*Symmetry* is used in `ReplayAndPlugins` only, for the exporters and for the plugins that fit;
the properties of that run are about safety.

*Where code and documentation disagree* (the runs whose property is violated):

- `FrigateEvidence_login`: the runbook of the HTTP client says that timeouts, 429 and common 5xx
  responses are retried (`docs/runbooks/frigate-http-client.md:48`). The login is posted once,
  before the loop of attempts. A login without a reply ends the request as "unavailable" after
  one failure, and one that is answered 429 or 5xx ends it as 404 or 502, as though the
  credentials were wrong (`http_client.py:194-197`).

- `EventQuery_inspect`: a review whose linked objects are not stored (yet) has an empty
  timeline, and `get_event` takes its minimum; the README lets users inspect it.

*Seen on the way*, bounded by a property where one is named:

- The dead-letter stream may hold one copy of an entry per worker, because the delivery count
  is read before the MULTI (`pipeline/worker.py:132`, `DeadLettersAreEarned`).
- The result of a late post replaces a final status (`notifications/handler.py:112`), which is
  why `DeliveredForGood` asks that nobody is at work on the key.
- A fork in the history of feedback is possible when requests overlap (`ForksOverlap`).
- A running job whose processor died stays running.
- Ingest sets a review item's status from every message, also from one it has just marked
  `after_terminal` (`adapters/frigate/pipeline.py:224`): an update that arrives after the end
  turns `ended` into `active`. `ReviewIsEarned` says only that some message of the review gave
  it. A test promises "no state regression", and sends the messages of an object.
- Exported events have no objects (`alerts/replay.py:23`), so the rule for stationary objects
  never matches in replay. `ReplayDecidesAsLive` bounds the difference: only what that rule
  suppressed is decided otherwise, and nothing that shows a person.
- The exporter writes lines that the loader refuses as too long; `UnreadableIsExplained` has
  them among its reasons. An interrupted export leaves its directory behind, and every later
  export to it is refused (`BundlesAreImmutable`).
- `start_all` on a started plugin replaces its handle, and a second `stop_all` reports `stopped`
  for a plugin whose stop has failed: such instances are those `StopReachesAll` excepts.
- Pages of the event list are cut by offset from rows that other processes change
  (`api/routes/events.py:352`). Between two pages an entity is missed when it moves up, and also
  when its review takes up another object or drops it, or when a newer row ends at the very time
  of another, since ids decide then. `PagesMissOnlyMoved` names these cases; that there are no
  others is proved.
- A plugin may report `stopped`, or any other state, from the `health()` that `start_all` calls,
  and is then listed so while its instance runs and its handle is held (`plugins/registry.py:78`).
  `HandlesAreLive` is therefore about handles and instances, and says nothing of the health.
- An id that is empty or longer than 512 characters, as a link of a review may be, raises a
  `ValueError` that no route handles: the answer is 500 (`http_client.py:48`).
- The evidence route keeps its database
  connection while it waits and sleeps, so that slow evidence can starve other requests;
  `AnswersAreEarned` says that nothing else does.

## 5. Fairness

Only steps of the program's own loops are fair, and failures are finitely many in every
behaviour (`MaxFaults`): that is "when failures stop".

- `OutboxPublisher`: weak fairness of each publisher's next step (`runtime.py` calls it in a
  loop) and of each group's consumption. Locks do not starve it, as SKIP LOCKED never waits.
- `StreamWorkers`: weak fairness of each worker's next step; a worker polls for ever, and a
  handler returns or raises.
- `EventPipeline`: weak fairness of each loop, and strong fairness of claiming, since
  `pending_idle_ms` passes again and again for an entry that stays pending. That a handler
  accepts an entry that is not poisonous is part of the model; which ones are is a constant.
- `Notification`: weak fairness of each worker. Posts have a timeout.
- `Ingest`: weak fairness of each transaction's next step; the client reconnects.
- `Decisions`: strong fairness of taking the row lock (PostgreSQL grants it in the order of
  arrival; deliveries repeat), weak fairness of what follows. Feedback is never assumed.
- `ProcessorJobs`: weak fairness of requests in progress and of creating the jobs, strong
  fairness of polling by some session: an operator runs a processor that polls, and a request
  slot becomes free again and again. Nothing makes a processor submit.

- `FrigateEvidence`: weak fairness of each caller's next step. The client's timeouts end every
  wait for Frigate, sleeps end, and a connection is given back or the pool's own timeout ends
  the wait for it.

`Replay`, `PluginRegistry` and `EventQuery` have no liveness properties: a tool that is run by
hand and may be stopped, plugins that may hang in any call, and requests that only read.

## 6. Proofs

TLAPS checks these for all values of the constants that satisfy the modules' assumptions:
any (where counted, finite) sets of rows, publishers, workers, messages, jobs, results and
requests, any batch size, limit and number of failures.

| Theorem | States | Argument |
|---|---|---|
| `OutboxPublisherProofs!TypeCorrect` | `[]TypeOK` | inductive by itself |
| `OutboxPublisherProofs!NoLoss` | `[]PublishedIsInStream` | inductive with `TypeOK`, because it speaks of rows that a publisher believes appended as well as of those that are marked |
| `OutboxPublisherProofs!Overshoot` | `[]BoundedOvershoot` | `PermitInv`: what is in flight plus the XADDs that publishers may still do without another check never exceeds the bound. The bound alone is not inductive: nothing in it says how many publishers have passed the check |
| `OutboxPublisherProofs!Duplicates` | `[]DuplicatesAreFaults` | `HeldOnce` (a row is in the transaction of one publisher, in one role, and unpublished) and `CopiesOwed` (copies are at most the failures so far, plus one if somebody vouches for the row). A fault moves a row from "vouched for" to "owed"; without `HeldOnce` two publishers could each vouch for a copy |
| `StreamWorkersProofs!TypeCorrect` | `[]TypeOK` | inductive by itself |
| `StreamWorkersProofs!NoEntryLost` | `[]NothingLost` | with `AckAfterHandler`: a worker that is about to acknowledge has seen its handler return, whoever owns the entry by then |
| `StreamWorkersProofs!EarnedDeadLetters` | `[]DeadLettersAreEarned` | `DeadInv`: what is dead was settled (`DeadSettled`), delivery counts of entries in somebody's hands are at least one and those about to be dead-lettered at the limit (`Counted`), and copies in the DLQ plus workers that still hold the entry are at most the workers of the group (`Room`). The bound on copies is inductive only with the last: it says whose copies are still to come |
| `StreamWorkersProofs!Refinement` | `Spec => ImplementsDelivery` | each action is a step of `AtLeastOnceDelivery` or leaves its variables as they are; `AckAfterHandler` is what makes an acknowledgement a `Settle` |
| `EventPipelineProofs!PartsFit` | `Spec => PartsAgree` | a step of a worker is a `Deliver` or an `Acknowledge` of the publisher's environment, or nothing it can see; a step of a publisher is an arrival for the workers. The one thing the workers assume is a stream of bounded length: `StreamIsBounded` counts it from `DuplicatesAreFaults`, since an entry is known by its row and by which copy it is |
| `EventPipelineProofs!NoEventIsLost` | `[]NoEventLost` | no invariant of its own: `NoLoss` and `NoEntryLost` hold of the parts, by `PartsFit`, and meet in the stream |
| `EventPipelineProofs!PipelineDelivers` | `Spec => Wrk!ImplementsDelivery` | `Refinement` of the workers, by `PartsFit`: the abstract delivery is implemented by publishers and workers together |
| `EventPipelineProofs!FewDeadLetters` | `[]DeadLettersPerProcess` | `EarnedDeadLetters` of the workers, by `PartsFit`; a group has one worker in each process (`WorkersOfAGroup`) |
| `EventPipelineProofs!TypeCorrect` | `[]TypeOK` | with the types of the parts: a process is in one call at a time, the one `stage` has come to |
| `ShadowProofs!TypeCorrect` | `[]TypeOK` | part of the invariant below |
| `ShadowProofs!Gapless` | `[]RevisionsAreGapless` | `OneInserts`: every open transaction inserts the revision after the last one, and only one of them does, since the unique key makes the second wait. Gaplessness alone says nothing of what is about to be committed |
| `ShadowProofs!DecidedOnce` | `[]DecidedOnceWithEvent` | inductive relative to the invariant above, which gives that an anchor is committed on an empty history only |
| `ShadowProofs!SoundHistory` | `[]HistoryIsSound` | the two above together, as the run checks them |
| `ShadowProofs!OneConflict` | `[]FewConflicts` | `Overtaken`: a worker whose reading is out of date has been overtaken by the anchor, which happens once in the life of an observation |
| `ShadowProofs!Forks` | `[]ForksOverlap` | `Ordered`: what a request supersedes is the latest of what was committed when it read, and older than itself; so a row that was there before a request began cannot supersede the same row as it |
| `ShadowProofs!ReplayTypeCorrect` | `[]ReplayTypeOK` | part of `ReplayInv`, below |
| `ShadowProofs!ReplayedExported` | `[]ReplayedIsExported` | `ReplayInv` and `QueryFinds`, below |
| `ShadowProofs!UnreadableExplained` | `[]UnreadableIsExplained` | `ReplayInv`: the files of a finished export that was not damaged are `Records(rows[x])` and its manifest, which agree with each other but for lines that are too long |
| `ShadowProofs!ReplayDecides` | `[]ReplayDecidesAsLive` | `RulesSound` and `ReplayedOutcome`, below |
| `ShadowProofs!BundlesImmutable` | `ReplaySpec => BundlesAreImmutable` | `ReplayInv`: an exporter at work holds a directory of which it is the maker, so two never write to one |
| `ApiProofs!TypeCorrect` | `[]TypeOK` | part of the invariant below |
| `ApiProofs!ResultMatches` | `[]ResultMatchesJob` | `OneClaim` and `OneResult`: claims under way are of different, pending jobs; results about to be committed are acceptable, for different jobs that are claimed and have none |
| `ApiProofs!HandedOut` | `[]HandedOutOnce` | `Handing`: a job was handed out more often than there are failures only if its claim is stored or has been answered. Without it a claim that begins might be one too many |
| `ApiProofs!Honest` | `[]ReceiptsAreHonest` | inductive relative to `OneResult`: a commit can only make receipts true, and a failing one makes one untrue |
| `ApiProofs!QueryTypeCorrect` | `[]QueryTypeOK` | part of `QueryInv`, below |
| `ApiProofs!DetailExplained` | `[]DetailIsExplained` | `QueryInv`: `Detail` and `Sections` |
| `ApiProofs!ListExplained` | `QuerySpec => ListIsExplained` | `QueryInv`: `Listing`; with `PageSize` and `RowsGrow` |
| `ApiProofs!OnlyMovedAreMissed` | `QuerySpec => PagesMissOnlyMoved` | `QueryInv`: `FirstPage`; with `NotMissed` |
| `NotificationProofs!TypeCorrect` | `[]TypeOK` | part of the invariant below |
| `NotificationProofs!NothingSettledUndecided` | `[]SettledWasDecided` | `ResultIsEarned` and `StatusIsEarned`: an entry is settled for a status or for a result, and both must stand for a decision of the receiver |
| `NotificationProofs!EarnedStatus` | `[]StatusIsEarned` | with `ResultIsEarned`, and `RowsExist`, by which a worker that records finds rows |
| `NotificationProofs!EarnedRecords` | `[]RecordsAreEarned` | the two above together, as the run checks them |
| `NotificationProofs!FewCopies` | `[]AcceptancesBounded` | `AcceptancesCounted`: acceptances plus the workers that may still post (`MayPost`) are at most one round of all workers for each failure that is not `Excused`. A worker that is about to record a retryable failure is excused: its failure is counted, and pays for a round only when it is recorded. Without `MayPost` nothing says that a recorded success stops those who have not begun |
| `NotificationProofs!SuccessIsFinal` | `DeliveredForGood` | from type correctness: with nobody at work, each step leads back to where nobody is |
| `IngestProofs!TypeCorrect` | `[]TypeOK` | part of the invariant below |
| `IngestProofs!NoMessageLost` | `[]AckedIsStored` | `StoredOK`: raw messages, duplicates and transactions that have committed have their message in the database, so that an acknowledgement cannot come too early |
| `IngestProofs!OneObservation` | `[]PersistedOnce` | inductive with the others: the unique keys refuse what another transaction has committed since the reads |
| `IngestProofs!HonestAudit` | `[]AuditIsHonest` | `PlanOK`: what a transaction has read lies between what was committed of its entity when the message arrived and what is committed now; the flags are monotone in it |
| `IngestProofs!EarnedReview` | `[]ReviewIsEarned` | `PlanOK`: a status that was loaded says that there is one, so a column left alone is one that an observation wrote |
| `AdapterProofs!TypeCorrect` | `[]TypeOK` | part of the invariant below |
| `AdapterProofs!AllClosed` | `[]NothingLeftOpen` | `Holds`: what a caller has open at each place of its request, so that each way out closes just that |
| `AdapterProofs!HonestAnswers` | `[]AnswersAreEarned` | with `Counts`: every attempt but the one under way has failed, so that giving up stands for all that are allowed, and a login comes before the first, so that nothing has failed before it; and `Holds`, by which only callers of the evidence route hold a connection at Frigate |
| `AdapterProofs!RegistryTypeCorrect` | `[]RegistryTypeOK` | part of the invariant below |
| `AdapterProofs!HeldHandlesAreLive` | `[]HandlesAreLive` | `CallSoFar`: no plugin is registered twice, only registered ones have handles, `start_all` has room for the plugins it has not come to, and what was lost had been started, so that a new instance is none of those given up |
| `AdapterProofs!StopReachesEveryPlugin` | `[]StopReachesAll` | `CallSoFar` and `HandlesAreLive`: `stop_all` has marked, and left without a handle, the plugins it has passed. Without it nothing is known of them when it comes to its end |

*The composition.* `EventPipelineProofs` adds nothing to what the parts are proved to do. It
shows that their theorems apply: the constants meet their assumptions (there are finitely many
workers, because there are finitely many processes and groups), the initial state is one of
each, and each step of the loop is a step of both, or leaves one of them as it is.

*Replay.* `ReplayInv` says what is known of an exporter (`ExporterHolds`), of a directory
(`DirectoryHolds`) and of the replay (`PlayHolds`). An exporter that has queried has the first
of what matched when it did; from `mkdir` on it holds its directory alone; once it has closed
its files they are what it found, unless the directory is among the damaged. A manifest that
parses was written by some export, though perhaps not to this directory. A replay has accepted
lines only if they are those its manifest speaks of, so that it replays one export even when
events and manifest were read at different times. `ReplayedIsExported` is not inductive without
all of this: it speaks of a finished replay only. The steps are proved apart, one lemma each;
`Grows`, `Persists` and `Rests` say what a step leaves alone, so that a lemma treats only what
its step disturbs.

`SortedLists` says that `Sorted` puts each finite set in the one order that `Before` allows, and
`QueryFinds` what `LIMIT n + 1` and the slice then yield: the first `n`, and whether there are
more. `Before` is a total order because ids differ (`ReplayAssumption`).

*The rules.* `Evaluate` is a function on sets of rules, defined through itself. That there is
such a function is proved for the community policy (`EvaluationExists`: five turns settle its
sixteen sets of rules), and with it what the loop comes to, rule by rule (`EvaluateUnfolds`,
`EvaluationShape`, `Outcomes`), for all sets of lifecycles, labels and zones. `RulesSound` is
`RulesAreSound` for all facts, and `ReplayedOutcome` compares a fact with its replay. For other
policies than the four rules of `alerts/policy.py` nothing is proved.

*The event queries.* `QueryInv` places what a request has read so far between what was committed
when it began (`began`) and what is committed now: the links it has read include those of every
review that was the latest then and still is, the total is at most the number of rows now
(`Listing`), the timeline holds all that was there of its entity (`Detail`), and a section that
has been read shows what was there (`Sections`). `ListIsExplained` and `DetailIsExplained` speak
of answers only and are not inductive without it.

Pages need their order. `Ranking` says that in a finite set with a strict total order each rank
from 0 on belongs to one element, `SliceSize` that a slice of the ranks is full or has all that
are left. `LatestFound` and `LatestUnique` give each entity with an observation one row, and
`LastAtIsMax` its last time, so that `Above` is such an order of the rows (`AboveOrders`).
`RowsGrow` maps the rows of a list into those of a later one, entity by entity. `NotMissed` does
the same with the rows above an entity that neither page shows: if none of the exceptions
applies they are all above it still, so that its rank is not below the first page's size, and by
the size of both pages it is on the second. The attempt to prove `PagesMissOnlyMoved` with
fewer exceptions showed which were missing; TLC then found each of them on an instance large
enough.

*Assumptions.* `PublisherAssumption`, `WorkersAssumption`, `PipelineAssumption`,
`DecisionsAssumption`, `ProcessorAssumption`, `NotificationAssumption`, `IngestAssumption`,
`FrigateAssumption`, `ReplayAssumption`, `NoneAndTorn`, `ShadowRulesAssumption`,
`PluginAssumption` and `EventQueryAssumption` are evaluated in the runs of the same modules. `PipelineAssumption` asks that
rows and processes are finitely many and that no group is served twice by a process, as in
`runtime.py:77`; `ReplayAssumption` that observations have the fields the exporter reads, and
distinct ids; `NoneAndTorn` that the values which stand for "no file" and for what does not parse
are not themselves files or lines; `EventQueryAssumption` that ids are
numbers, and that only reviews have links, to objects.

*Modules.* A component's proofs are in a module of their own, but for three: `ShadowProofs` is
about what is decided of an observation, live (`Decisions`) and in replay (`Replay`,
`ShadowRules`), `AdapterProofs` about what the product does not control, Frigate
(`FrigateEvidence`) and plugins (`PluginRegistry`), and `ApiProofs` about the two REST APIs
(`ProcessorJobs`, `EventQuery`). The specification of the second module of each is therefore
called `ReplaySpec`, `RegistrySpec` and `QuerySpec`.

*Only model-checked*: the liveness properties, every one. Liveness and `ENABLED` are out of the
prover's reach. No safety property or action property of a passing run is without a theorem.

## 7. Not modelled

- The observation-processed handler sets one column nobody reads.
- Contracts, payload validation, redaction, localisation, configuration, command lines: they
  work on single values and keep no state. What validation decides appears in the models as a
  choice of inputs (poisonous rows, messages without an observation key, refused results).
- Evidence and object rows: written with their observation and never changed. The ingest
  checkpoint: its cursor is read by the fixture ingest only, a sequential tool.
- Timed and stepwise replay only wait between events; `sanitize_export` changes fields that
  nothing evaluates.
- The recorder and the demo are tools for one user at a time; migrations run alone; the web
  front end shows what the API answers.
- PostgreSQL and Redis themselves: what the code relies on (READ COMMITTED, unique keys, row
  locks, SKIP LOCKED, consumer groups, MULTI) is built into the actions.
