# Verification of the bulk-task system

TLA+ models, TLC configurations and TLAPS proofs for the task pipeline of this
repository: an HTTP API stores a bulk job row by row in Postgres, a dispatcher
claims it, one-shot runners apply its rows to MongoDB and checkpoint each of
them, and a sweeper recovers the jobs whose runner went silent. The repository
is the reference: every definition names, in `PROJECT.json` under `map`, the
lines it stands for.

## 1. The system

| part | state | operations | interacts with |
|---|---|---|---|
| task store (`packages/tasks`, `packages/database`) | `task` (status, weight, total, processed, epoch, restarts, heartbeat, started) and `task_row` (status, attempts) in Postgres | one SQL statement per method of `TaskRepository` and `TaskRowRepository` | every process; the only shared memory |
| ingestion (`apps/api`) | the request's batch, count and task id | `createTask`, `addRows` per 1000 rows, `setTotalRows`, `markPending`; `markFailed` when the stream fails | task store; races the sweeper and the retry |
| retry, status, dead letters (`tasks.controller.ts`) | none | `retryFailed` (one transaction of three statements), paged listing, progress | task store; races runs and other clients |
| dispatcher (`dispatcher.service.ts`) | `ticking` | `tick`: claim what a lane can take, route it by weight | store, launcher, inline runner |
| inline lane (`inline-runner.service.ts`) | `active`: task id to run | `run`, its `finally`, shutdown drain | runner service in the same process |
| process lane (`runner-launcher.service.ts`) | `live`: child pids | `launch`, `onExit` | spawns `runner/main.ts` |
| sweeper (`stale-sweeper.service.ts`) | none of its own | `reclaimStale`, `deadLetterStale`, `failStaleIngesting` | task store |
| runner (`runner.service.ts`, `row-executor.service.ts`, `map-pool.ts`) | epoch captured, `draining`, `lostOwnership`, the page in flight | acquire, begin, page loop, row execution, heartbeat timer, finalize, drain | task store, processors |
| processors (`processors/`, `repositories/`) | the re-index cursor | price upsert and index refresh; page-wise re-index | MongoDB: `products`, `catalogue_index` |
| Postgres pool and MongoDB client (`packages/database`, `packages/mongo`) | connections in use; one operation timeout | - | shared by everything in one process |
| configuration, bootstrap, logging, DTOs | none | checks at boot that relate the times and the pool sizes, formatting | - |

### How the parts meet

All processes talk through the two Postgres tables and nothing else. A request
creates its task `ingesting`, adds rows, sizes it and flips it to `pending`;
that flip is the publication. A dispatcher's poll takes the oldest pending task
whose lane has a slot (`FOR UPDATE SKIP LOCKED`), sets it `starting` and starts
a run, in its own process or in a spawned one. The run captures the task's
`epoch`, sets it `running`, and works page by page on the pending rows, each
row's effect going to MongoDB before its flip to `done` in Postgres. A timer of
its own beats. When the beat goes silent the sweeper gives the task back
(`epoch + 1`, `restarts + 1`) or, at the end of the restart budget, fails it.
Every later write of the old run compares its epoch with the row's and misses.
`POST /tasks/:id/retry` re-opens a failed task with a new epoch.

### What is hard, and what makes each part correct

| part | what is hard | what must hold |
|---|---|---|
| runner and store | runs of one task overlap: reclaimed but alive, slow to boot, fired by hand; a crash between effect and flip; rows still executed after the pool rejected; verdict counted before a replay; an epoch read without a lock | effect before flip; completed only over done rows; settled rows stay; attempts and restarts within their budgets; a fenced-out run leaves the task alone; every published task reaches a verdict |
| ingestion | the sweeper may fail it while it goes on; a retry may publish what is left; a statement may commit and its reply be lost | only whole jobs are claimable; refused jobs never run; a task never stays `ingesting`; nothing long runs inline |
| dispatch | the caps are looked at a round trip before the launch; two dispatchers poll at once; SIGTERM in the middle of a tick; re-claims of a task whose run goes on | caps hold and no slot leaks; each claim is routed once; a full heavy lane does not stop light tasks |
| catalogue | updates write two collections without a transaction; re-index reads and writes page by page beside them; late replays | index never ahead of the store; the walk skips nothing; replay and re-index repair |
| time | beats, their losses and their delays against the silence threshold; a frozen process that wakes up; repeated signals; operations without an answer | a live run keeps its claim; silence is found within a bound; the overlap of two runs is short; a drain has a deadline; no claim is held for ever |
| task endpoints | retries at the same time, statement by statement; paging by offset over a list that changes; rounding | a failure is replayed once and whole; no dead letter is skipped; progress 1 means done |
| one process | rows, beats, checkpoints, claims and sweeps on one pool; a page whose workers share a cursor, one of which rejects | the checks at boot cover the demand; each row goes to one worker; a page ends |
| NDJSON | bytes are cut anywhere; the limit is on the wire; an error drains a client that may not stop | lines as if in one piece; exact limit; bounded drain |

The full list of hazards, each with its line and the properties that would
catch it, is `hazards` in `PROJECT.json`.

## 2. The modules

| module | models | extends |
|---|---|---|
| `TaskStore` | the statements on `task` and `task_row`, as operators on records | - |
| `Runner` | one published task under any number of runners, with dispatcher, sweeper and retry reduced to their effect on it | `TaskStore` |
| `Ledger` | the abstract promise: effects, one settlement per row, completion over a done ledger | - |
| `RunnerLedger` | the refinement mapping from `Runner` to `Ledger` | `Runner` |
| `Heartbeat` | one claim against the clock: the run and its beat timer, the process (signals, watchdog, freeze), the sweeper's tick | - |
| `Ingestion` | one POST request with sweeper, retry, claim and run beside it | `TaskStore` |
| `Endpoints` | the retry transaction, the dead-letter listing and the status around the task that `Ingestion` stores; implements `Ingestion` | `Ingestion` |
| `Dispatch` | dispatchers, their two lanes, shutdown and kill | - |
| `Connections` | one worker process: `mapPool`, its runs and services, and the statements they have in flight | - |
| `Catalogue` | the MongoDB collections under the two processors | - |
| `NdjsonStream` | decoding, splitting, limit and drain of a streamed body | `SequencesExt` |
| `MCRunner`, `MCDispatch` | symmetry for TLC | `RunnerLedger`, `Dispatch` |
| `MCCatalogue` | the `_id` of an index doc, a concatenation of two names | `Catalogue` |
| `TaskStore_proofs`, `Runner_proofs`, `Endpoints_proofs`, `Dispatch_proofs`, `Heartbeat_proofs`, `Connections_proofs`, `Catalogue_proofs`, `NdjsonStream_proofs` | theorems | their module |

An operator or action has the name of the function it stands for wherever there
is one (`MarkPending`, `ClaimNextPending`, `RecordRowFailure`, `PageAfter`).
An operator named in a "Mutant:" comment is a deliberately broken variant of
the definition after it; no specification uses it.

**Grain.** One action is what runs between two awaits: a statement, with the
code that runs on its reply. A statement is atomic, except

- `markRowDone` and `recordRowFailure`, whose `exists (... epoch = mine)` is
  read from the snapshot and not checked again under the row lock: two steps
  (`FlipReads`, `FlipWrites`; `FailReads`, `FailWrites`; `SettleReads`,
  `SettleWrites` in `Endpoints`);
- `claimNextPending`, in `Dispatch`: the lock, then the commit;
- `updateMany` and the unordered `bulkWrite` of MongoDB: one step a document;
- in `Heartbeat`, any statement: it lasts up to `Latency`, and the `now()` it
  writes or compares with is that of any moment in between.

`retryFailed` is one step in `Runner` and `Ingestion`, and its three statements
and commit in `Endpoints`. `Endpoints` implements `Ingestion`, and nothing a
retry has written is seen before its commit, so the one step is a sound summary
of it.

**Failure.** Any statement may fail, and may have committed all the same. A
process may die at any await (`Crash`, `Kill`, `Stops`, `Exit`). A frozen
process is one that takes no step; `Heartbeat` freezes and thaws it explicitly.

**Time.** In every module but `Heartbeat` a timestamp is `none`, `fresh` or
`stale` (older than `STALE_AFTER_MS`), and `Elapse` makes fresh ones stale at any
moment, so a slow process and a dead one look alike to the sweeper, as they do
in the code. `Heartbeat` asks when that can happen. Its time is discrete and
kept as ages and countdowns: `Tick` moves all of them by one and may not pass
the moment something is due. The configured times are constants, and the
relation `sweepConfig` checks at boot (`ToleratesMissedBeats`) is an assumption;
what the environment grants (an answer from Postgres within `Latency`, never two
lost beats in a row, never two failed sweeps in a row) is named in the module.

**State.** `TaskStore`: the record `Task` has the columns `status`, `weight`,
`total`, `processed`, `epoch`, `restarts`, `heartbeat_at` (`beat`) and
`started_at` (`started`), `Row` has `status` and `attempts`; errors, ids and the
remaining timestamps decide nothing. `Runner`: `pc[w]` is the await `run()` is
at, `own[w]` the captured epoch, `halt[w]` the pair `draining`/`lostOwnership`,
`stage[w][r]` where `executeRow` of row `r` is; `applied` says whether the effect
was ever in the store. A run whose pool rejected is a `zombie`: its beats and its
writes of the task are over, the rows its other workers hold are not.
`Ingestion`: `pc`, `known` (`taskId`), `count`, `batch`, and `reply`, what the
client is told. `Endpoints`: `call[c]` is the statement the transaction of client
`c` is at, `flipped[c]` the rows it has re-opened and not committed, `late` the
rows a settlement under way saw pending, `walk` and `offset` the caller that
pages. `Dispatch`: `tick`, `asked` and `held` are where the loop of `tick()` is,
`active` the map of `InlineRunner` (at most one entry a task id), `inline` the
runs really under way, `live` the set of `RunnerLauncher`, `procs` the children
really running. A claim is the pair of a task and its epoch. `Heartbeat`: `pc`
and `elapsed` are where the run is and for how long, `due` its beat timer, `beat`
the beat in flight, `watch` the watchdog of `runner/main.ts`, `stage` the
statement of the sweeper's tick. `Connections`: `stage[r]` is where run `r` is,
`task[r]` the task id it was started with, `lane` the map of `InlineRunner` by
task id (`Active` its keys, which `activeCount` counts; a run that goes on and is
not in it, because the run of a later claim of its task wrote over its entry or
ended first and deleted it, is `Loose`), `items[r]`, `cursor[r]`, `step[r]` and `row[r]` are the variables of `mapPool`
and of its workers, `beats[r]` the beats in flight, `poll` and `sweep` the
statements of the dispatcher itself. `Catalogue`: `store` and `index` are the
collections, `fields[d]` the catalogue and the product that doc `d` says it is
of; `DocId` joins the two names as the code does, so two catalogues may give two
products one doc; a worker is one row execution under way, in whatever runner.
`NdjsonStream`: `pulled`, `partial` (the decoder holds a lead byte), `buffered`,
`line`, `drained`; `out` is what the consumer got.

## 3. What is checked

Every property has a mutant in `PROJECT.json`: a plausible error in one mapped
definition under which its run fails. Type correctness is proved of every state
machine, for all values of the constants, so the runs leave it out, except that
of `NdjsonStream`, which relates the positions of the stream to one another.

### Passing runs

| run | configuration | properties | bounds, and why they are enough |
|---|---|---|---|
| `replay` | `Runner_replay.cfg` | `AttemptsBudget`, `CompletedMeansAllDone`, `ImplementsLedger`, `SettledRowsStay`, `FailureHasCause`, `FencedOutIsSilent`, `FreshClaimNotReclaimed` | 2 runner slots, 1 row, 1 attempt, 1 restart, 1 retry, hand-fired runs: the old and the new runner of a reclaim race on one row, and the first failure dead-letters it, so the replay meets runs from before it |
| `alone` | `Runner_alone.cfg` | `EffectBeforeFlip`, `ProgressFollowsLedger`, `PublishedEnds` | 1 slot, used again and again, 2 rows in parallel (a zombie needs the second one), 2 attempts (a first failure is retried), a reclaim and a replay |
| `endpoints` | `Endpoints_tasks.cfg` | `ClaimableIsWhole`, `RefusedNeverRuns`, `InlineIsSmall`, `OneReplayPerFailure`, `WalkSkipsNothing`, `FullMeansAll`, `ApiLeavesPublishedAlone`, `HalfReplayNeverSeen`, `ImplementsIngestion`, `IngestingEnds` | batches of 2, up to 4 rows, threshold 2: a full, a partial and an exact last batch, both sides of the threshold; 2 clients and 2 replays: the second call of a client meets a task of another epoch; pages of 2: a walk of three calls; a scale of 2 for the progress: totals on both sides of the bound of `FullMeansAll` |
| `delivery` | `Dispatch_delivery.cfg` | `LaneCaps`, `DeliveredOnce` | 2 dispatchers, 2 tasks of one weight, lanes of 1, 1 reclaim, 1 stop each: both poll for the same task, and each can hold a full lane while the other task waits |
| `light_lane` | `Dispatch_light_lane.cfg` | `LightNotBlocked` | a heavy task ahead of a light one, lanes of 1, spawned runners that may never end |
| `catalogue` | `Catalogue_writers.cfg` | `IndexFromStore`, `ReindexCovers`, `IndexAgreesWhenDone`, `ReindexCatchesUp`, `ReindexEnds` | 2 workers, 3 ids, 2 prices, 1 catalogue, 1 update, pages of 1, any initial products: an insert before, at and after the cursor; an update that dies half-way or is dead-lettered, before or beside the re-index. `mixed` records whether two executions overlapped, so one run asks the questions of both cases. What a second catalogue adds, docs with the same `_id`, is left to the proofs |
| `ndjson` | `Ndjson_chunks.cfg` | `TypeOK`, `ChunkingIsInvisible`, `LimitIsExact`, `DrainIsBounded` | every body of 0 to 5 bytes over 5 kinds of bytes, chunks of 1 to 3, limits of 4 (lines complete) and 1 (the drain runs out of budget) |
| `heartbeat` | `Heartbeat_clock.cfg` | `LiveRunKept`, `SilenceBounded`, `OverlapIsShort`, `DrainDeadline`, `ClaimEnds` | a threshold of exactly three beats, the least the check at boot accepts; a latency of half a beat, the most the module assumes; an operation longer than a beat; a sweep as frequent as the beats, a drain shorter than an operation; 2 operations: one row of two, or two rows |
| `connections` | `Connections_pool.cfg` | `PoolSuffices`, `PageIsWhole`, `PagesEnd` | a runner of 2 rows at a time over pages of 3, so that a worker takes a second row and a page can be left with a worker in it; an inline lane of 2 runs, 2 tasks, one beat of each run: two runs of two tasks, or of one task claimed twice, where the second overwrites the entry of the first and one of them deletes that of the other; pools of 4 and 6, the least that the check at boot lets pass for each process: the 6 are used up. A third run under the cap of two is left to the proof |

`MCRunner` and `MCDispatch` add the symmetry of runners and dispatchers; runs
with a liveness property do without.

Counters that grow without bound in the code are bounded by guards with a named
constant: `MaxReplays` (retries), `MaxEpoch` and `MaxStops` (reclaims, restarts
of a dispatcher), `MaxRows` (payloads), `MaxLen` and `MaxChunk` (bytes), `MaxOps`
(operations left in a job), `MaxBeats` and `MaxRuns` (beats in flight, runs in
memory). Ages are capped at `Never`, longer than any wait. A job, a request and a
body come to an end, a process goes, and a model stopped by such a bound may have
no step left: hence `CHECK_DEADLOCK FALSE`.

### Violated claims

Each of these runs checks one sentence of the documentation or of a comment and
ends with a counterexample.

| run | the sentence | what the code does |
|---|---|---|
| `completed_violation` | `runner.service.ts:117-118`: terminal tasks are refused | a runner slow to boot shares the epoch of the re-claim, and `markRunning` asks for the epoch only: it puts a completed task back to `running` |
| `inline_violation` | `inline-runner.service.ts:48-51`: the light tasks running, capped | the map is keyed by task id, a re-claim overwrites the entry of a run that goes on |
| `stale_violation` | `adr/0003:110-112`: index lag needs a crash and is repaired by the replay | a re-index writes a page it read before an update, without any crash |

`InlineCap` and `LaneCaps` differ in what they count: `LaneCaps` says the map
and the set never outgrow the caps, which holds and is proved; `InlineCap` says
the tasks really running do not, which fails. `IndexAgrees` is violated when
executions overlap; `IndexAgreesWhenDone`, which asks it only of histories where
none did, holds (`catalogue`).

The modules state further sentences that the code does not keep; no run is
spent on them:

| property | the sentence | what the code does |
|---|---|---|
| `FlipWithEffect` (`Runner`) | `task-row.schema.ts:25-27`: a row flips in the transaction that applies its effect | effect first, flip in a later commit to another database, as the repository's README says |
| `ProgressWithinTotal` (`Runner`) | `task-response.dto.ts:44`: progress is in [0..1] | a page's increment is added to a recount by a peer of the same epoch that has the same rows |
| `FencedOutBurnsNothing` (`Runner`) | `adr/0004:42-44`: every runner write is fenced | the fence of `recordRowFailure` is an unlocked read |
| `DeployIsNonEvent` (`Runner`, under `DeploySpec`) | `README.md:89-90`: a deploy is a non-event | a drained task waits for a reclaim, which spends the restart budget |
| `AcceptedIsPublished` (`Ingestion`) | `dispatcher.service.ts:27-29`: a committed task is visible to the next poll | `markPending`'s miss is ignored, the client is told `pending` of a failed task |
| `ShutdownDrainsInline` (`Dispatch`) | `dispatcher.service.ts:67-69`: inline tasks are drained on shutdown | a tick under way routes its claim after the hook took its snapshot |
| `ReindexCoversAll` (`Catalogue`) | `catalogue-reindex.processor.ts:11-13`: rebuilds the index from the store | the walk starts strictly after `""`, which the payload schema accepts as an id |
| `ReplayConverges` (`Catalogue`, no catalogue, 2 updates) | `product.repository.ts:16-19`: replay converges | the effect has no fence: a late execution undoes a newer update |
| `OneDocPerProduct` (`Catalogue`, catalogues `"a"` and `"a:b"`, 1 worker) | `catalogue-index.repository.ts:8`: one index doc per product | the `_id` joins two unrestricted names (`task.types.ts:14,17`) with `:`: product `b:c` of `a` and product `c` of `a:b` have one doc, which each re-index takes from the other |
| `OverheadCovered` (`Connections`, `MaxInline` = 3) | `dispatch.config.ts:71-74`: the pool covers the inline lane plus the claim/sweep/heartbeat overhead (+4) | every inline run beats: with the defaults (4 runs of 4 rows, a pool of 20) one beat of each run falling together with a claim and a sweep asks for 4 × (4 + 1) + 2 = 22; what is in excess waits |

Two limits of what holds are worth knowing. `WalkSkipsNothing` says a caller is
owed nothing only of what a replay re-opened while it paged: after a replay the
list shrinks under its offset, and a row that a late settlement dead-letters just
then can be skipped. `FullMeansAll` stops at twice the scale of the rounding:
from 20 000 rows on, four digits show 1 with a row to go.

`PoolSuffices` says by what the statements of a process may outnumber its
connections: by `Uncounted`, the rows of runs the map has lost (a loose run has
`Concurrency` statements at most) and the beats beyond two. The code has no bound
on either, so the property has none; what it does say is that nothing else
exceeds the pool, however claims, re-claims, ends and rejections interleave.
`ReindexCovers` says of two products that share an `_id` only that there is a doc
under it; the product's own doc is there where no other product spells the id
(`Unshared`), and, shared or not, at the end of a re-index nothing overlapped
(`ReindexCatchesUp`).

### Fairness

- `Runner`: a live process is scheduled (`WF` of its steps), the polls and the
  sweeps are intervals (`WF` of claim, launch, reclaim, dead letter), time
  passes for a task nobody works on. Crashes, signals, operators and beats are
  free, and a crash is always possible: progress comes from the budgets.
- `Ingestion`, `Endpoints`: only the sweeper and the clock. The client may stop
  and the API may die, transactions may stay open.
- `Heartbeat`: time passes (`WF` of `Tick`) and what is due happens (`WF` of
  `Steps`: answers within `Latency`, timers, the sweeper). An operation on
  MongoDB is only known to end by its timeout, which is what `ClaimEnds` needs;
  a boot, a close and a frozen process need not end at all.
- `Dispatch`: the poll is an interval, the database does not fail every claim
  for ever (`SF` of the steps of a tick), an inline run ends because each
  external call carries a timeout, the drain has a deadline, and the
  orchestrator restarts a dispatcher. Spawned runners may run for ever.
- `Connections`: some await of the workers of a run ends (`WF` of their steps),
  by an answer, a failure or the timeout of an operation.
- `Catalogue`: an operation on MongoDB answers or fails within its timeout.

## 4. What is proved

TLAPS proves the following for every value of the constants allowed by the
modules' assumptions (`RunnerAssumption`, `MaxRestartsAssumption`,
`IngestionAssumption`, `EndpointsAssumption`, `DispatchAssumption`,
`TimesAssumption`, `StaleAssumption`, `LatencyAssumption`,
`ConnectionsAssumption`, `CatalogueAssumption`, `NdjsonAssumption`: caps, batch sizes, times and bounds are natural numbers,
positive where the configuration schema says so, the rows are told apart from
one another and from "none", a catalogue does not give two of its products one
`_id` (of two catalogues nothing is assumed), plus the two relations between times
that `Heartbeat` names). Every invariant and every action property of the passing
runs is the subject of a theorem, and so are the two refinements.

**`Runner_proofs`**: `TypeCorrect`, `EffectsFirst`, `NothingLost`,
`AttemptsBounded`, `SettledStays`, `FailuresHaveACause`, `Silence`,
`FreshClaimsAreSafe`, `ProgressOfOneRunner` and `RunnersImplementLedger`. `CompletedMeansAllDone` is not inductive: `finalize`
counts the failed rows only, so one has to know that a runner that left its page
loop by itself and still owns the task saw the last pending row settled
(`VerdictKnown`), that nobody but a replay re-opens a row and a replay moves the
epoch (`EpochsPast`), that a row never runs out of attempts while pending
(`AttemptsBudget`: it would leave the fetch without being settled) and that a
failed task some runner still owns was failed by a runner's verdict
(`FailedByVerdict`). `IInv` is their conjunction; each action of `Next` keeps
each part, and the action properties and the refinement follow from `IInv` in
the state before the step. `FreshClaimsAreSafe` needs the sign of life that goes
with a claim: a beat of a claimed task is only stale if the claim itself is, so
the sweep, which looks at `coalesce(heartbeat_at, started_at)`, never finds an
old beat left on a new claim (`BeatOfClaim`). `ProgressOfOneRunner` is the
only theorem with a hypothesis on the number of runners, that there is one slot:
`processed` is a count read and written by separate statements, and two runners
overlapping may leave an older count behind. The one runner never holds a count
larger than the ledger's (`ProgressKnown`).

**`Heartbeat_proofs`**: `HeartbeatTypes` and `LiveRunsKeepTheirClaim`, for every
configuration that passes the check at boot. `AgeBound` says how old the last
sign of life can be at each await of a run that is not frozen: in the page loop
the time since the timer last fired, one latency, and an interval for the beat
in flight and for the one that was lost (`Slip`); after the timer has stopped
the age it had then, and what `finalize` itself has taken. `Timely` says that
nothing a live process waits for is overdue. With two latencies in a beat this
never reaches three beats, where the sweeper starts.

The other three bounds of the clock, `DrainsInTime`, `OverlapBounded` and
`SilenceIsBounded`, come from `ClockInvariant`. A drain ends in time because the
watchdog is set by the signal and outlives every other await (`WatchdogSet`,
`Answered`). A run that has lost its task learns of it from its next beat that
is answered: as no two beats in a row are lost, the time it has gone on and the
time until that answer (`NoticedWithin`) never exceed one interval and one
latency (`LossNoticed`). This needs that a run whose last beat landed is no
older than its timer says (`BeatSpeaks`), so that its claim cannot be taken
just after a beat. A silent claim is swept in time because its age over the
threshold is bounded by how long ago the sweep under way began, and by the
intervals of one that came too early and of one that failed (`SweepOnTime`).
Unlike `AgeBound` and `Timely`, these parts (but for `WatchdogSet`) are stated
of frozen processes too, since they are about what follows a freeze.

**`Endpoints_proofs`**: first of `Ingestion`, `WholeJobsOnly`, `RefusedStaysOut`,
`SmallInline`, `PublishedOutOfReach`, from `IngestionInvariant`: where the
payloads are at each await (`PayloadsKept`), that `total_rows` is set over a
whole ledger and after the last await whose failure is caught (`SizedLast`), and
that a task is published only once sized (`PublishedSized`), which the retry
tests. Then of `Endpoints`, `EndpointsTypes`, `EndpointsImplementIngestion`,
`RequestKeepsItsPromises` (the theorems on `Ingestion` hold with the retry taken
apart: a corollary of the refinement), `ReplaysAreSerial`, `ReplaysAreWhole`,
`ProgressOneIsAll`, `NoDeadLetterSkipped`. A commit of a retry is a step of
`Ingestion` because the transaction that holds the task's row is the only one
and nobody moves a failed, sized task meanwhile (`HeldByOne`); a failure is
replayed once because a failure not replayed yet is one more than the replays
(`FailuresCounted`). The types need `Bounded`: what a page or a call holds are
rows of a ledger no larger than the body. A walk of the dead-letter pages skips
nothing, although offsets count rows of a list that grows, because a row still
owed to the caller has at least as many failed rows before it as the next offset
(`OwedAhead`), a row that joins the list before it only adds to them
(`RankGrows`), and a page that ends before such a row was full (`PageFull`).

**`Dispatch_proofs`**: `DispatchTypes`, `LanesKeepCaps`, `OneDeliveryPerClaim`.
For the caps: between the look and the launch only the tick itself adds to a
lane, so a lane that was free stays free (`LanesOK`). For the delivery: a row
that is locked is still pending at the epoch that was read, and a claim that
was routed was won, which it can be only once (`WinsInOrder`).

**`Connections_proofs`**: `ConnectionsTypes`, `ChecksCoverTheDemand`,
`RowsHandedOutOnce`. A run has either a statement of its own in flight or those
of its workers, of which there are at most `Concurrency` (`RunOK`). The claim loop
asks for a light task only while the map has room, and every change of the map
but that claim's removes an entry, so the runs in the map, `Tracked`, are never
more than `MaxInline`, although more may go on (`LaneBounded`, `TrackedFit`). The rows and the
statements of the tracked runs fit the checked part of the pool, those of the
loose ones are in `Uncounted`; what is left of the pool is for two beats, a claim
and a sweep. Any number of tasks, runs and overlapping beats is within the
theorem.

**`Catalogue_proofs`**: `CatalogueTypes`, `SourceBeforeProjection`,
`WalksSkipNothing`, `ReindexIsCatchUp`, `ReplayRepairs`: every invariant the run
checks. `CInv` goes worker by worker: what an update has yet to write is a price
its product had (`RefreshesSeen`), and so is what a re-index read, however old
its page (`WritesSeen`); behind the cursor everything the re-index began with is
indexed, and a page leaves nothing out below its last product (`WalkedCovered`,
`PageIsDense`), because it is a prefix of what is left and empty only when
nothing is (`PageIsPrefix`, from the well-founded order of the naturals). No
theorem assumes that two catalogues have different docs: a doc lies under the id
its fields spell (`FieldsSpellId`), so a write of another catalogue leaves a doc
there, and where only one product spells the id, that product's.
`ApartInv` adds what holds as long as no two executions overlapped: one worker is
at work (`Alone`), behind its cursor each product has its own doc with its price (`WalkedAgrees`), and a
doc that disagrees has an update of its product yet to be done (`RepairDue`).

**`NdjsonStream_proofs`**: `StreamTypes`, `ChunksAreInvisible`, `LimitHolds`,
`DrainStaysBounded`, for any body cut into any chunks, whatever the bytes.
`BytesKept` says how the bytes pulled relate to the body, the limit, the error
and the bytes drained; it holds by itself and gives the bounds. `SplitSoFar`:
what was pulled, decoded in one go, is what was split off and what is buffered,
and a chunk is only pulled once no newline is left in the buffer. With it the
lines that come out are those of the whole body (`ChunksInvariant`). What this rests on is
that decoding, cutting and dropping blank lines can be continued where they
stopped (`DecodeConcat`, `CutConcat`, `LinesConcat`), which is an induction over
the text. The induction theorems of the library take the predicate as an
operator, which the provers cannot instantiate; the module's lemmas `Induction`
and `SeqInduction` take the set of the numbers, or of the sequences, that have
the property instead, and the recursive functions are shown to exist the same
way (`RunExists`, `RunUnique`).

## 5. What is only model-checked, and what is not modelled

Only liveness is checked and not proved: `PublishedEnds`, `IngestingEnds`,
`LightNotBlocked`, `ReindexEnds`, `ClaimEnds`, `PagesEnd`, on the instances above.
It rests on fairness, hence on ENABLED, which the prover does not treat. The
violated claims are shown by TLC's counterexamples.

Not modelled:

- parsing of the environment, wiring, logging, formatting of DTOs, migrations:
  no state, or state that decides nothing;
- the delivery of an HTTP response, and the sending of invalid JSON other than
  as a line that is refused: up to the HTTP server and to zod;
- the promise of the once-per-process `createIndex`: only how long a refresh
  takes depends on it, and its failure is a failure of the operation behind it;
- a change of the configuration between two runs of one task: the caps are
  constants;
- the pool of the API: nothing bounds how many requests it serves at once;
- how many runs the inline map can lose, and how many beats can overlap: nothing
  in the code bounds them, so `PoolSuffices` sets them aside, by name;
- that a job is not submitted twice on the advice of a refused retry
  (`tasks.controller.ts:190`): a statement about two tasks.

## 6. What could come next

In the order of what it would add:

1. A composition of `Dispatch` with several tasks of `Runner`'s life, to relate
   lost launches, reclaims and the caps to the restart budget of each task.
2. A cap on attempts that changes between two runs.
3. Runs on the claims stated without one (second table of violated claims).
