# EcoGrid OS in TLA+

EcoGrid OS ingests grid carbon intensity and plant load over Kafka into
PostgreSQL, serves the newest window from Redis, plans when flexible processes
should run, and has an orchestrator comment on the plan. This directory holds
TLA+ modules of the parts where order, failure and concurrency decide whether
the platform is right, the TLC configurations that check them, and proofs for
TLAPS. Source paths are relative to the repository root (`src/` in
`PROJECT.json`).

Run a model with `tlc -config <cfg> <module>`, a proof with `tlapm <module>`;
the proofs about `X` are in `XProofs`.

## Inventory

| Component (source) | State it keeps | Operations | Talks to |
|---|---|---|---|
| Grid ingestion worker (`ingest_grid.py`) | spool file, dedupe cache, producer buffer | poll, replay the spool, publish, spool failures, shut down | upstream HTTP feed, topic `telemetry.carbon` |
| Grid telemetry consumer (`ecogrid/consumer.py`, `models.py`) | Kafka position and uncommitted count, per-partition counters; `grid_telemetry`, `ingest_audit`, committed offsets | poll a batch, validate, upsert, audit, cache, dead-letter, commit | topic, dead-letter topic, PostgreSQL, Redis |
| Hot cache (`ecogrid/cache.py`, `latest_telemetry` in `api.py`) | one Redis key | GET, compare, SET; invalidate | consumer and every API request |
| Local solver (`optimizer/solver.py`) | remaining capacity per window, the decisions so far | place or report each process | called by the optimizer loop and the API |
| Plant bridge and sources (`plant/bridge.py`, `sources.py`) | spool file, last hash of each key | replay, fetch, publish, spool | drop files, topic `telemetry.plant` |
| Plant consumer (`plant/consumer.py`) | as the grid consumer, without audit and cache | poll, upsert, dead-letter, commit | topic, PostgreSQL |
| Optimizer loop (`optimizer/loop.py`, `databricks.py`) | runs and decisions in PostgreSQL | read windows and capacity, plan remotely or locally, persist, publish | ledger, Databricks, topic `decisions.schedule`; the API calls it too |
| AI orchestrator (`orchestrator/`) | advice rows, tracking log | build context, advise or fall back, persist, publish, track | ledger, runs, Claude, topic `decisions.advice` |
| API identity (`security.py`, `keys.py`, `migrate.py`, `audit.py`, `api.py`) | `api_keys`, `audit_log` | create, bootstrap, revoke, authenticate, check the role, audit | every request |
| Rate limit (`ratelimit.py`, `api.py`) | Redis counters | count, refuse, fail open | every request, before authentication |
| API lists (`api.py`, `schemas.py`) | none | keyset pagination, statistics | ledger |
| Plumbing (`config.py`, `db.py`, `kafka.py`, `logging_setup.py`), Alembic, demo data, dashboard, compose files | settings | none at run time | - |

What is hard, component by component, and what would make it correct:

* **Worker.** A send that timed out may still be delivered by the producer's own
  retry; a spooled record is replayed cycles later; the process may die inside
  an append. Correct: what was given up is never forgotten without a counted
  cause, suppression of unchanged windows is justified by the topic, and the
  topic ends up showing what upstream shows.
* **Consumer.** The offset of a whole batch is committed after per-message
  transactions, any of which may fail; a crash redelivers. Correct: nothing
  below a committed offset is missing, the audit row is the high-water mark,
  the row of a window is the last content of the topic, revisions count changes.
* **Cache.** `set_latest_if_newer` is a GET, a comparison in the client and a
  SET, run by the consumer and by every request that missed. Correct: answers
  are durable rows, and a stale entry does not stay.
* **Solver.** Greedy, order dependent, with off-by-one boundaries at the
  horizon. Correct: feasible, complete, not regretted by any single process.
* **Plant pipeline.** The bridge's spool is rewritten in place; its source
  returns only the newest window; the consumer may skip a failed write.
  Correct: what an outage spooled reaches the ledger.
* **Planning.** Loop and API plan at once while the consumers write; windows and
  capacity are read in different sessions, and a remote call follows; a crash
  separates persist from publish; a superseded run may be advised on. Correct: a
  published plan is a persisted one, a plan nothing disturbed is the best one,
  and schedule and advice end up resting on the ledger as it is.
* **Identity.** Key names are checked in one statement and inserted in another,
  over a column that is not unique; a request reads its key and then writes the
  same row; the audit rows of a request are commits of their own. Correct: a
  revoked key is refused from then on, and every answer has the audit rows it
  calls for.
* **Limit and lists.** The clock is read before the counter is incremented, the
  counter expires, Redis may fail; a client pages through a table that is being
  written. Correct: no caller exceeds its limit, none uses up another's, and a
  walk lists what was there, once.

`PROJECT.json` lists every hazard with its line and the properties that cover
it, or why none does yet.

## Modules

| Module | Models | Built on |
|---|---|---|
| `TelemetryConsumer` | one consumer process over several partitions, with PostgreSQL, Redis and the dead-letter topic | - |
| `AtLeastOnce` | the contract of a group that commits by hand | - |
| `MCTelemetryConsumer` | values for TLC | `TelemetryConsumer` |
| `TelemetryConsumerProofs` | offsets, audit, ledger and cache of the consumer; the refinement | `TelemetryConsumer`, TLAPS |
| `IngestWorkerProofs` | nothing is forgotten, suppression, order on the topic | `IngestWorker`, TLAPS |
| `PlantPipelineProofs` | the same of the bridge, without order | `PlantPipeline`, TLAPS |
| `HotCacheProofs` | durable answers, regressions | `HotCache`, TLAPS |
| `GreedySolverProofs` | the schedule | `GreedySolver`, TLAPS |
| `PlanningProofs` | what is announced, what is best | `Planning`, TLAPS |
| `PagedWalkProofs` | the limit, the walk | `PagedWalk`, TLAPS |
| `ApiAccessProofs` | keys, requests and the trail | `ApiAccess`, TLAPS |
| `IngestWorker`, `MCIngestWorker` | the worker, its spool, its dedupe cache, the producer's late copies, upstream | - |
| `HotCache` | the Redis key with the consumer and requests interleaved command by command | - |
| `GreedySolver` | one step of the solver's loop per process | - |
| `PlantPipeline` | drops, bridge, topic, consumer and ledger of plant telemetry in one module | - |
| `Planning`, `MCPlanning` | optimizer, `POST /optimize/run` and orchestrator over a ledger that changes | - |
| `RateLimiter` | the clock, the Redis counters and the requests that pass them | - |
| `PagedWalk`, `MCPagedWalk` | a client walking a list endpoint behind the limiter while rows are upserted | `RateLimiter` |
| `ApiAccess`, `MCApiAccess` | key commands, authentication, roles and the audit trail | - |

### TelemetryConsumer

A partition is a sequence of entries; `committed`, `position` and `handled`
count entries (the broker's offset, the client's fetch position, and how far
`_handle_message` got). `pc` is `poll`, `batch` (iterating a batch), `stop`
(inside `stop()`), `down`. One action per path of the code:

* `Poll`: `getmany`; moves `position` past any part of what is on the topic.
* `Reject`: validation failed, dead-lettered (or the forward failed), counts as
  progress. `AbortOnNull`: a message without a value raises inside
  `_dead_letter`.
* `Accept`: upsert with the duplicate guard, the audit row, the commit of the
  transaction, the cache refresh. `WriteFails`: the write raises before the
  upsert returned, after it, or on a COMMIT that was carried out.
* `FinishBatch`, `CommitFails`: the batch commit. `RequestStop`, `LeaveLoop`,
  `Shutdown`, `Crash`, `Restart`: the life of the process.

`decided`, `missed` and `abandoned` are history variables: they only record, per
partition, which entries were settled, failed to be written, or were dropped
with an unfinished batch. The contents of a window are model values because the
code compares nothing but `payload_hash`. Not modelled: rebalancing (the compose
files run one consumer), compaction, the sleep after a failed write.

`AtLeastOnce` says only: an offset is committed when everything below it is
settled. `ALO == INSTANCE AtLeastOnce WITH produced <- ..., settled <- decided`
is the refinement.

### IngestWorker

`upstream[w]` is the revision the feed returns of window `w`, `now` the oldest
window it still returns. The two endpoints answer on their own (`Answers`): if
`now` moves in between, a window only `/intensity` returned is published without
its mix, which is its revision with the sign turned. `ContentOf` lets a later
revision have an earlier content, so that the dedupe cache can be wrong. `topic[w]` is kept per window,
because the key partitioner keeps a window on one partition, with adjacent
repeats collapsed. `late[w]` holds copies of sends that were given up and that
the producer may still deliver: it is idempotent, so they come before any later
acknowledged send of the window. `spool` is the file line by line, with torn
and corrupt lines. The actions follow `_run_cycle`: `Fetch`, `ReplayOne`,
`FinishReplay`, `PublishOne`, `FinishPublish`, plus `ReplayRaises` and
`PublishRaises` for exceptions that unwind a loop (perhaps after attempts of the
same send that left a copy, `RaisedLeavingCopy`, which counts as two faults),
`Crash`, `CrashInAppend`, `RequestStop`, `Shutdown`, `Restart` (which replays
before the first cycle).
Not modelled: the HTTP retries within one fetch (a failed fetch ends the cycle
with nothing changed), the numbers inside a record, a request already on the
wire when the process dies.

### HotCache

`TelemetryConsumer` takes the cache refresh as one step; this module is that
step cut at every Redis command. A client is `idle`, or about to `evict`,
`query`, `check` (the GET of `set_latest_if_newer`) or `set`. `held` is the
payload it will write, `seen` what its GET returned. Revision 0 is an entry of
an older schema, which `latest_telemetry` evicts. An entry that is not JSON at
all is treated by `get_latest` as a miss and is not distinguished from one.

### GreedySolver

The inputs (intensities, capacities, portfolio) are chosen in `Init`; each step
decides the next process in the order of the sort key. Loads, intensities and
capacities are naturals, because the code only adds and compares them (with a
tolerance of 1e-9). Not modelled: sharing a block's saving among its rows, the
texts, and windows that are not an hour long.

### PlantPipeline

`drops` is the directory the file source reads; `Fetched` is what
`FilePlantSource.fetch` returns of it. The bridge is a cycle of `StartCycle`,
`ReplayOne`, `FinishReplay`, `Fetch`, `PublishOne`, `FinishPublish`; the spool's
in-place rewrites may be cut short by an `OSError` or a crash (`Cut`). The
consumer is the loop of `TelemetryConsumer` on one partition. Requested stops
are noticed only where nothing is in hand and are the crash there.

### Planning

A planner is the optimizer service or one call of `POST /optimize/run`. Its `pc`
follows a pass across its waits: `idle`, `capacity` (windows read), `solve`
(capacity read; the remote call happens here), `persist`, `publish` (the service
only), `done` (a request). `LoadWindows` and `LoadCapacity` read the newest rows
under their LIMITs; `Ceiling` is the per-window maximum with the greatest report
as fallback; `SolveLocally` is the solver for one process of one window,
`SolveRemotely` a job that was not told the capacity, `RemoteEmpty` its valid
answer without decisions. `Planned` is the branch of `run_once`: decisions go to
`Persist`, an empty plan of the service goes straight to `Publish`. An advisor
reads the newest run, waits for the model, and stores a row (`Advise`), or is
stopped by a reply it cannot read (`ReplyUnreadable`), a crash or a failing store.

`writes` numbers the states of the ledger and `seen` is its value when a pass
read the windows: a pass is undisturbed while the two agree. Runs are told apart
by `seen` and by whether anything is scheduled. `latest` is the run with the
greatest `created_at`; the store is one step, though the column is the start of
its transaction. Not modelled: portfolios (see `GreedySolver`), carbon figures,
what the advice says, publishing and tracking of advice.

### RateLimiter and PagedWalk

`check()` reads the clock, computes the window index and only then increments:
`Ask` is the first half, `Pass` and `Refuse` the second, and `bucket` is the
index in between. `clock` is the second within the window; when it wraps
(`Turn`) the counters of this window become those of the last one. A counter is
kept past its window only while somebody is about to count there, since nobody
else can read it. `Lifetime` is the EXPIRE of `window + 1` seconds, renewed by
every INCR. With the Redis fault a request is let through, its increment carried
out or not. `let` is history: who was let through in which window.

`PagedWalk` puts `list_telemetry` and `list_plant` behind it. The two differ in
their filters and in that a window of `grid_telemetry` has one row and one of
`plant_telemetry` a row per plant: a row here is a pair of source and window, and
a walk asks for all sources or one, settled or not. `Pages` are the results
`ORDER BY window_from DESC LIMIT page_size` allows; among equal windows the
database may return any. `ReadPage`, `Answered` and `Unanswered` (the query
raises, or the API dies) are the request, `Upsert` is a consumer. `owed` is
history: the rows that matched the filter from the first request on.

### ApiAccess

A secret stands for itself and its digest. `keys` is `api_keys` by secret, since
`key_hash` is unique and `name` is not. A command is two steps: `CheckName` or
`CheckAdmin` and `Insert` (create, bootstrap), `FindKey` and `Revoke`; a command
may fail at either with its commit carried out or not (`CommandFails`). A request
goes `auth`, `touch` (the commit of `last_used_at`, then the role), `handle`,
`record` (its audit rows in `due`, one commit each), `answered`. SQLAlchemy writes
the columns that changed, so `Touched` sets the use and nothing else of the row as
it is then. `Fail` is an exception anywhere before the answer: the middleware
records it, without an actor while the principal is not set. `stale` is history:
the secret's revocation had reported success when the request arrived. Keys are
never deleted and the audit log never updated, in the code as in the model.

## What the runs show

| Run | Expected | Question |
|---|---|---|
| `consumer_faults` | pass | With every kind of fault, any three of them: is every loss explained, the audit row the high-water mark, the caught-up ledger the latest content, the revision count right, the cache behind the ledger? |
| `consumer_reliable` | pass | With a database that takes every write: does the consumer implement `AtLeastOnce`, and does it get through the topic, poison included? |
| `worker` | pass | Is nothing given up forgotten, suppression justified, order kept without spooling; does the spool drain and the topic converge? |
| `cache_races` | pass | Are answers durable, regressions due to a race only, and does a stale entry heal? |
| `solver` | pass | Is every plan feasible, complete and locally optimal, and does a loss need contention? |
| `plant` | pass | Does what the bridge gave up reach the ledger, and does the ledger end with what the source shows? |
| `planning` | pass | Is an undisturbed plan the best, is what is announced stored, do schedule and advice catch up? |
| `walk` | pass | Does the limit hold in every window, does a walk list everything once but for ties, and does it end? |
| `access` | pass | Is a revoked key refused from then on, and is every answer on record? |
| `consumer_db_failure` | violation | One failed write is committed over by the rest of its batch. |
| `consumer_null` | violation | A message without a value stalls its partition. |
| `solver_saving` | violation | The total saving of a plan can be negative. |

The properties, in words:

* `LossHasCause`: an entry below a committed offset was written, rejected,
  failed to be written, or was in a batch that a null message made the loop
  abandon. Crashes, stops and failed commits alone lose nothing.
* `AuditIsHighWater`: `last_offset` is exactly the greatest record accepted.
* `CaughtUpLedgerIsLatest`: redelivery writes older contents over newer ones,
  but a partition that is handled to its end shows the content produced last.
* `RevisionsCountChanges`: without faults `revision_count` is the number of
  content changes handled.
* `CacheBehindLedger`, `AnswersAreDurable`: the cache never runs ahead of the
  ledger.
* `ImplementsAtLeastOnce`, `EveryEntryCommitted`: contract and progress.
* `GaveUpIsKept` / `GivenUpIsKept`: a record the producer did not take is on the
  topic, in the spool, in memory, or dropped for a counted reason.
* `DedupeMirrorsTopic` / `SuppressionIsJustified`: what is suppressed as
  unchanged is what the topic shows or will show last, unless a record of the
  window waits to be replayed or was dropped.
* `LateCopiesStayOrdered`: without spooling, timeouts and retries keep the
  revisions of a window in order.
* `SpoolDrains`, `FeedConverges`, `SpooledArrives`, `LedgerConverges`,
  `CacheHeals`: what must happen in the end.
* `RegressOnlyByRace`: an older window replaces a newer one in Redis only if the
  newer was not there at the client's GET.
* `UndisturbedPlanIsBest`: a local plan whose inputs did not change meanwhile has
  a window of the horizon; if any plant reported for that window, some plant
  reported enough; and no window that some plant reported room for is cleaner.
  Unless the LIMIT on plant rows cut a report off.
* `AnnouncedIsStored`: a schedule on the topic that has decisions is a stored run.
* `ScheduleCatchesUp`, `AdviceCatchesUp`: in the end both rest on the ledger as it
  is, and the topic tells of the same state of it as the API does, on-demand runs
  or not; the latter and the advice only if the ledger admits a schedule, because an empty plan is
  not stored. Advice excepts one more case, a model that again and again answers
  with JSON that is no object just when there is something new to say (below).
* `ThrottleHolds`: no identity is let through more often than the limit in any
  window, requests included that read the clock in it and counted up to a second
  after its end. That second is what the `+ 1` of the EXPIRE is for: without it
  such a request finds a fresh counter, which is the property's mutant.
* `WalkIsComplete`: a finished walk listed nothing twice and everything that
  matched all along, except rows that share a window with the end of a page.
* `WalkEnds`: a refused walker gets through in the next window, however often
  others ask.
* `RevokedIsRefused`: a key of the name that a successful revoke saw gets no
  request past authentication that arrives later, whatever was in flight.
* `AnsweredIsOnRecord`: every kind of audit row an answer calls for is in the
  table or named as a gap in the log, no row says what did not happen, and a key
  that was let in shows as used. The trail is a set of rows without the status
  code, so that a row is written only once is not checked.
* `ScheduleIsFeasible`, `UnscheduledCannotFit`, `NoSingleMoveImproves`,
  `LossNeedsContention`: the schedule.

### Findings

1. `consumer.py:441`: a failed write is skipped, and the commit of its batch
   covers it, against the comment there and FR-LDG-4 (`consumer_db_failure`).
2. `consumer.py:477`: a message without a value makes the dead-letter path
   raise; at the head of a batch it stalls its partition across every restart,
   against FR-LDG-6 (`consumer_null`). The plant consumer has the same line.
3. `solver.py:192`: the baseline ignores capacity, so FR-OPT-6's "never
   negative" does not hold (`solver_saving`); `LossNeedsContention` is what does.

Seen while modelling, with no run of their own: the replay of the worker's spool
puts an older revision of a window behind a newer one (`ingest_grid.py:1123`),
where `ARCHITECTURE.md:45-46` says revisions "stay ordered"; what holds is
`LateCopiesStayOrdered` and `FeedConverges`. A run of `POST /optimize/run` is
never published, though its docstring (`api.py:733`) leaves that to the optimizer
service, which publishes its own plans only. Others:

* `cache.py:59`: comparison and SET are not atomic, so an older window can replace
  a newer one although `cache.py:49-53` says "only if its window is newer".
  `RegressOnlyByRace` says when, `CacheHeals` how far the damage goes.
* `optimizer/loop.py:361`: a plan without decisions is published but not
  persisted, although `loop.py:14-16` says "every pass writes a new `run_id`";
  `AnnouncedIsStored` is what holds.
* `api.py:670`: the cursor of `list_plant` is the window alone, so a page that ends
  inside a window makes the next one skip the other plants of that window.
  `schemas.py:50-51` says a keyset cursor on `window_from` does not skip; it does
  not where a window has one row. `WalkIsComplete` states the exception.
* `ingest_grid.py:587`: a failing endpoint ends the whole cycle, against FR-ING-2's
  "one failing endpoint SHALL NOT prevent the other's data from being processed".
* `keys.py:135` calls a name "Unique", which neither the column nor the bootstrap
  ensures; with two keys of a name, revoke raises and both stay usable. It never
  reports success for them, which is what `RevokedIsRefused` rests on.
* `ingest_grid.py:391`: when a window ends between the two answers of a fetch, its
  record without a mix goes behind the one with it, and the feed does not return
  the window again.
* `migrate.py:45` says "Ensure at least one admin credential exists"; a revoked
  admin row counts as one.
* `ingest_grid.py:946`: an exception that is neither a timeout nor a `KafkaError`
  unwinds `publish()`, perhaps after an attempt whose copy is still in the producer
  (`ingest_grid.py:905-909`). Content `a` is acknowledged and remembered; `b` times
  out, its next attempt raises, so `b` is neither remembered nor spooled; upstream
  flaps back to `a`, which is suppressed as unchanged; then the copy of `b` lands,
  and the topic shows `b` for good. The model counts `b` as dropped
  (`RaisedLeavingCopy`, `PublishRaises`), which is the exception `DedupeMirrorsTopic`
  and `FeedConverges` state; without it TLC finds them violated.
* `advice.py:269`: a reply with status 200 whose JSON is no object (a list, a string,
  null) makes `payload.get` raise `AttributeError`, which `advise()` does not catch:
  the pass ends, the heuristic advisor is never asked and nothing is stored. FR-AI-3
  (`docs/REQUIREMENTS.md:104`) says "On any model failure the system SHALL fall back
  to a deterministic advisor — advice SHALL never be absent", `orchestrator/loop.py:120`
  "Always produces advice (heuristic at worst)" and `advice.py:215` "Returns `None` on
  *any* failure". In the model this is `ReplyUnreadable`, which no bound limits; as
  long as it goes on, no new advice need ever be stored, and `AdviceCatchesUp` holds
  only with that case excepted (its first disjunct).
* `security.py:123` says "never fail an authenticated request over it" of the usage
  update, whose commit is not guarded: the request ends in a 500.

### Bounds, and why they are enough

* Consumer: two partitions, because a commit moves all of them at once; three
  entries in all, so that one partition sees a revision and the other shares its
  commit; two contents, so that a window can change and change back by
  redelivery; three faults, enough for a failed write, a crash and a failed
  commit in one behaviour. `MaxLog` and `MaxFaults` are the bounds; contents are
  symmetric in the safety run.
* Worker: two windows, since eviction, trimming and a moving feed need a second
  one; spool and dedupe cache of one entry, so that both overflow; three
  revisions `a, b, a`, the shortest flap; three faults.
* Cache: two windows with two revisions, the consumer and two requests, two
  failing commands: a race needs two writers and a heal needs a third event.
* Solver: all 442k states of three processes over three windows; with three
  processes one can be squeezed between two others, and the durations 0, 2, 4
  cover clamping, a proper block and a block beyond the horizon.
* Plant: one plant (keys are independent), two windows, two drops in two files,
  spool of one line, two faults on any side of the topic.
* Planning: three windows under a horizon of two and a limit of two plant rows, so
  that both LIMITs cut; five ledgers to start from (`Backlogs`), one more write,
  one request beside the service, one fault. The orchestrator's own request runs
  the same pass; `AskRequests` is empty in the run to keep it small.

* Walk: one ledger of three windows and two sources with a tie, a hole and a
  forecast, which pages of two cut inside the tie; two filters (everything, and one
  source's settled rows); one upsert during the walk, anywhere and of any content;
  one fault. A limit of one and a window of two seconds refuse a client in the
  middle of its walk. A request counts before the window after its own is over
  (`Turn`), and the other caller asks only while the walk goes on.
* Access: four commands, each run once, over one name, with which every race of two
  of them can happen; two callers, since a request meets the others only in
  `keys`; one failing statement or crash. Of a caller's requests the last one's
  audit rows are kept.

### Fairness

`WF(Consumer)`, `WF(Worker)`, `WF(Bridge)`, `WF(Planner)`, `WF(Advisor)`: each loop goes on to its next step,
every wait in it has a timeout, and `restart: unless-stopped` in the compose
files brings a dead process back. `WF(LateCopy)`: aiokafka expires a batch after
its request timeout. `WF(Expire)`: the key is set with a time to live (900 s by
default). `WF(GoOn(c))`: a request that began ends. In `PagedWalk` time passes,
the walker asks again after a refusal or an error for as long as it takes, and a
request that was begun goes on; nobody else is made to ask. `ApiAccess` has no
liveness: a command or a request may stop anywhere. Faults, upstream, the AS400
and callers are never fair. Faults are bounded, so the liveness properties speak
of what happens once they cease. An unreadable reply of the model is no such fault:
it may come every time, and `AdviceCatchesUp` names it.

## Proofs

Every invariant and every action property that a run checks is also a theorem of
`Spec`, for every value of the constants that the module's assumptions admit. The
assumptions are those of each module (`ConsumerAssumption` and so on): kinds of
constants, that the tables, drop directories and portfolios are finite, and that
`None` is none of the things it is told from (`NoneAssumption`, `NoneIsNothing`).
Each proof module has an inductive invariant, usually in two stages: a first one
with the types, and on top of it the parts one theorem needs. TLC checked each of
them on the run of the module before it was proved.

**TelemetryConsumerProofs**

* `TypeCorrect`: `TypeOK`, with the order of the counters (`Bounds`: committed and
  handled up to position, position up to the log's length).
* `CommittedIsExplained`: `LossHasCause`, which says nothing of what was handled but
  not yet committed. `Inv` adds that everything up to `handled` is explained, and
  that in the states that commit (`FinishBatch`, `Shutdown`) everything up to
  `position` is: the batch is finished, or what is left of it is abandoned, or
  nothing is to be committed.
* `AuditTrail`, `CacheNeverAhead`: inductive with the types and
  `DecidedProduced` (what was written or rejected is on the topic).
* `Convergence`: `CaughtUpLedgerIsLatest` speaks of a partition handled to its end.
  `LatestIfHandled` says it of every prefix: once a window's last record so far is
  handled, its content is the row's. A restart moves `handled` back to the committed
  offset, where nothing is claimed; it moves it forward only across an abandoned
  batch, whose entries are excepted (`BeyondIsAbandoned`). Another window's record
  does not touch the row, because a window stays on its partition (`Keyed`).
* `RevisionCount`: until the first fault the consumer is on its first pass
  (`StillRunning`), and the row is the fold of what was handled: `RowOfSeen` ties
  its revision to the number of changes and its content to the last of them.
* `ReliableLosesNothing`, `Refinement`: with no database fault and no message without
  a value, nothing below a committed offset is undecided, and `Spec => ALO!Spec`;
  every action is a Produce, a Settle, a Commit or a stutter.

**IngestWorkerProofs** and **PlantPipelineProofs**

* `TypeCorrect`: `TypeOK`.
* `Kept`: `GaveUpIsKept`, `GivenUpIsKept`. The replay reads the file and rewrites it
  at its end, so between the two a record is in the file *and* in hand. `KeptInFile`
  says where a record is while only the file has it, `ReplayCovers` that the replay
  in progress holds all that is in the file and not yet on the topic, and
  `ReplayFromFile` that it holds nothing else: so the rewrite of what failed drops
  only what was sent, and a crash before it drops nothing.
* `Suppression`: `DedupeMirrorsTopic`, `SuppressionIsJustified`. A window (a key) is
  *owing* while a record of it waits or was dropped. `Mirror` says that only an owing
  one has copies in flight, and of any other the cache agrees with the end of its
  topic. A send that leaves a copy, given up or cut short by an exception, makes its
  window owing in the same step; when the last record of it is replayed the broker acknowledges it after any
  copy, and the cache is told.
* `LateCopies` (worker only): `LateCopiesStayOrdered`. `InTurn` orders, for a window
  never spooled, everything the worker has: what is on the topic, then the copies in
  flight, then the one record in hand, then upstream's revision. A second fetch cannot
  overtake because a batch is finished or dropped before the next one (`BatchWaits`)
  and has one record of a window (`OncePerWindow`).

**HotCacheProofs**

* `TypeCorrect`, `Durable` (`AnswersAreDurable`), and `RegressByRace` (`RegressOnlyByRace`,
  an action property) for any number of requests. The invariant adds `SetIsNewer`:
  who is about to SET holds a newer window than its GET returned.

**GreedySolverProofs**

* `NoOverdraw` (`ScheduleIsFeasible`), `NoFalseRefusal` (`UnscheduledCannotFit`),
  `NoRegret` (`NoSingleMoveImproves`), `LossIsContention` (`LossNeedsContention`),
  `TypeCorrect`, for any portfolio and horizon. The invariant is `Accounted` (what is
  left of a window and what the placed processes draw make up its capacity) and
  `HeaviestFirst` (nothing placed is lighter than what is still to place), which is
  why later placements only take room and never displace a heavier process. The loads
  drawn are a fold over a finite set; that adding or removing an element adds or
  removes its load is proved first.
* `AmpleIsOptimal`: the other side of the finding `SavingNeverNegative`. If every window
  could take the whole portfolio at once (`Ample`; solve called without
  `flexible_capacity_mw` is the extreme case), every legal start is feasible, so by
  `NoSingleMoveImproves` each process has the cheapest of all its legal blocks. Hence
  no legal choice of starts emits less in all (`SumPointwise`), only a process that no
  start fits is refused, and no saving is negative.

**PlanningProofs**

* `TypeCorrect`: `TypeOK`.
* `AnnouncedStored`: `AnnouncedIsStored`. The topic alone is not inductive: `Inv` adds
  the same for the copies the producer may still deliver (`LateIsStored`) and for what
  the service is about to publish (`NextIsStored`). No step removes a run, and the only
  way to `publish` with decisions is through the commit in `Persist`; a plan with no
  decisions skips it, which is why the property speaks of decisions.
* `BestPlan`: `UndisturbedPlanIsBest`. `Current` says of a pass that no write disturbed
  what it holds on the way to the plan: the windows of the horizon as the ledger has
  them, then the ceiling of each. Windows do not tie, so the newest of them under the
  LIMIT are the horizon (`NewestAreTheHorizon`); plant rows do, so theirs are known
  only if the LIMIT cuts none off. A write makes every pass under way a disturbed one.

**PagedWalkProofs**

* `TypeCorrect`: `TypeOK`, for the limiter and the walk.
* `Throttled`: `ThrottleHolds`. `Counted` adds that the counter of a window stands for
  every request let through in it and has more seconds to live than are left of the
  window. A step of time takes one second from both, so that the counter is there when
  the window ends and for a second after; counting renews it and never lowers it;
  expiry, the one thing that does, cannot come earlier.
* `Complete`: `WalkIsComplete`. It is about a finished walk; `WalkInv` is about one under
  way. The cursor parts what was listed (`ListedIsAbove`) from what is owed
  (`OwedIsBelow`), ties with the end of a page excepted, and a page on its way to the
  client continues the one and begins the other (`PageFollows`). An upsert can only
  take a row out of `owed`, and a page that is lost leaves the cursor where it was.

**ApiAccessProofs**

* `TypeCorrect`: `TypeOK`. It includes that a request past authentication read an
  active key.
* `Revocation`: `RevokedIsRefused`. The invariant adds what a revoke owes: while it has
  found a key, that key is the only one of its name it saw, and every secret in `dead`
  has a row that is not active. No step makes a row active again: an insert needs a
  free secret, and the usage update leaves the column alone.
* `OnRecord`: `AnsweredIsOnRecord`. What is said of an answer must be said of a request
  under way: the rows written, the rows the log calls gaps and the rows still due are
  together those its status calls for, and it has passed the commit of the usage update
  if its status says so. A row keeps its name for ever, so the actor on record stays
  the name of the key.

Induction over data is done by the choice of a smallest counterexample, which the
library's well-foundedness theorems give without an operator as a parameter
(`SmallestSubset`, `LeastExists`): that is how the sum of the loads, the greatest and
the least element of a finite set, and what `Load` keeps of a file are reasoned about.
`Load` is a recursive function for the same reason.

Only model-checked: all liveness (`EveryEntryCommitted`, `SpoolDrains`,
`FeedConverges`, `CacheHeals`, `SpooledArrives`, `LedgerConverges`,
`ScheduleCatchesUp`, `AdviceCatchesUp`, `WalkEnds`), which rests on fairness, that is
on ENABLED, and is out of the prover's reach.

## Not modelled, and the plan

1. **Planning with identities**: which run was published and which never is; a run
   of `POST /optimize/run` under its own `run_id`.
2. **Worker**: how long an upstream that goes on failing keeps the spool from being
   replayed (`SpoolDrains` assumes that a fetch succeeds in the end).
3. **Proofs**: what `InTurn` of the worker gives the consumer downstream: that the
   revisions of a window never spooled enter `TelemetryConsumer`'s topic in upstream's
   order, and what the ledger then keeps.
4. Left out for good: configuration, logging, dashboard, migrations and demo
   data (no concurrent state), heuristic texts and numbers, rebalancing and
   compaction (nothing in the repository configures a second member).
