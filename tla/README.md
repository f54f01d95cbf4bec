# Weather: a TLA+ development of the forecast store

This directory models the part of the repository that decides which forecast
data exists, who may touch it and what an answer is made of: the listings and
downloads that bring data in, the scheduler and the waves that ingest it, the
locks and the commit of a run, the reclamation that empties a store again, and
the API's reads beside all of that. The rules of `packages/domain` are checked as
tables over bounded inputs. Rendering and the user interface are left out.

## 1. The system

| Part | State it keeps | Operations | Talks to |
|---|---|---|---|
| NOAA provider (`providers/noaa/`) | listings of a cycle, partial and staged files | list pages, compare snapshots, selective and full download, clean up | upstream buckets, the wave |
| Realtime scheduler (`realtime/`) | active cycle, ages, backlog with backoff and quarantine, leadership | poll, plan, dispatch a wave per model, repair, stop | catalog, discovery, wave, PostgreSQL |
| Ingestion wave (`core/wave_runner.py`, `core/cancel.py`) | work list, decode events, raw predecessor fields, pending items per lead, cancel event | seed, download, decode, write, settle, drain, finalize | coordinator, NOAA connector, decode pool |
| Store locks (`core/locks.py`, `reader_gate.py`) | session-level PostgreSQL advisory locks, the client's lock set | acquire and release of turnstile, gate and region keys | the connection pool, PostgreSQL |
| Run coordinator (`core/coordinator.py`, `core/markers.py`) | markers per region, generation manifest | initialize, pre-update, region write, settled-lead publication, finalize | locks, object store, catalog |
| Catalog (`core/catalog.py`) | model runs, leads, members, products, lifecycle rows | reserve, partial, reconcile, derive status | PostgreSQL |
| Reclamation (`gc/planner.py`, `gc/worker.py`) | queue rows with status, lease and recorded generation | plan, claim, revalidate, delete, requeue, purge | catalog, locks, object store |
| Finalizer and sweeper (`gc/finalizer.py`, `gc/sweeper.py`) | lifecycle rows, tombstones | claim, retire metadata, retention purge | catalog |
| Reader leases (`reader_gate.py`) | one shared session per store, reference counts, permits | acquire or join, revalidate, exit, drain | locks, catalog |
| Point reads (`resolver.py`, `point_forecast.py`, `core/zarr.py`) | none of its own | find candidates, choose a source per valid time and variable, read, check the fence again | catalog, leases |
| Ensemble reads (`ensemble_data.py`) | none of its own | choose run and members, read, judge, series | catalog, leases |
| Domain rules (`packages/domain`) | none | windows, coverage, canonical selection, probabilities, phases, grids, addresses | everybody |

Hard behaviours, in the order of their weight: several processes share a store
through locks that die with a database session; a wave is dozens of coroutines
that wait for one another and may be cancelled at any await; the truth about a
run is spread over object-store markers, a manifest and the catalog, written in
turn by processes that may die in between; reclamation deletes what readers and
waves may still want, on evidence that can go stale, and a reader releases the
database between choosing its sources and reading them; leases and leadership expire.

What makes each part correct:

- provider: a staged file is whole, a snapshot is what was there, errors of one
  provider are survived, nothing staged is lost or left, every download ends;
- scheduler: one leader plans, waves run in order and repeat nothing, neither the
  newest cycle nor the backlog starves, a stop ends the process;
- wave: no item is lost, a lead is offered once and only when settled, the
  finalizer runs last, reset leads get their predecessor's field, the drain ends;
- locks: exclusive work is alone, region writers are disjoint, the gate never
  stays in the pool, a waiting exclusive owner is not overtaken, every path ends;
- run commit: the catalog never promises a region the store does not hold, a
  `ready` run is complete, an interrupted wave is made good;
- reclamation: nothing a reader can still select is deleted, a fenced cycle is
  not written to, a claimed cycle is retired;
- leases: a lease reads under a live gate, no session is leaked, shutdown drains;
- reads: what answers contain was there, a missing value is not a hole that
  collection tore, and undisturbed requests lack nothing.

## 2. Modules

| Module | Models | Checked through |
|---|---|---|
| `StoreGate` | the lock protocol of one store, five roles, pools, dead sessions, crashes | `MCStoreGate` |
| `StoreGateProofs` | its inductive invariant and six theorems | tlapm |
| `WaveContract` | what a wave promises the scheduler (abstract) | refined by `WavePipeline` |
| `WavePipeline` | one wave: seed loop, staged pipeline, cancellation, drain, finalization | itself |
| `RunCommit` | the commit protocol of one run: store, markers, manifest, catalog | `MCRunCommit` |
| `RunCommitProofs` | its inductive invariants and six theorems | tlapm |
| `Reclamation` | queue, planner, worker, finalizer, sweeper and requeue of one model's stores | `MCReclamation` |
| `ReclamationProofs` | its inductive invariants and six theorems | tlapm |
| `FrontierPlanner` | the planning policy, as operators | `Scheduler`, `Tables` |
| `Scheduler` | the realtime loop over two cycles, its memory, leadership, failures | `MCScheduler` |
| `RealtimeProofs` | the planner's plans, the scheduler's and the wave's inductive invariants, and nine theorems about them | tlapm |
| `ReaderLease` | the API's shared gate sessions and shutdown | `MCReaderLease` |
| `ReaderLeaseProofs` | its inductive invariant and the soundness of the leases | tlapm |
| `CanonicalRules` | which run serves a valid time and variable, fences, provenance | `Serving`, `Tables` |
| `Serving` | a point request beside publication, collection and a moving window | itself |
| `ServingProofs` | its inductive invariant, the soundness of collection and of the answers | tlapm |
| `EnsembleReads` | an ensemble request beside the same | itself |
| `EnsembleReadsProofs` | its inductive invariant and the soundness of the answers | tlapm |
| `EnsembleValues`, `PointReads` | what is computed from the members, windows, batches and layouts | `Tables` |
| `SourceFetch` | listings and downloads of one cycle, the ensemble mean among them | `MCSourceFetch` |
| `SourceFetchProofs` | its inductive invariant and three theorems | tlapm |
| `IdxSelection` | index parsing, record selection, range merging, addresses | `Tables` |
| `DomainRules`, `DomainScience` | the pure rules of `packages/domain` | `Tables` |
| `Tables` | questions put to the operators above, and what their answers must satisfy | itself |

### StoreGate

An actor is one call of one code path on one checked-out connection. `Role`
picks the path: region writer, exclusive wave operation (`pre_update_wave`,
`finalize_run`, `publish_settled_lead`), gate-only owner (`initialize_run_store`,
`reap_orphan_store`), reclamation batch, API reader. `pc` walks through turnstile,
gate, fence check, region try-locks, protected work, releases and `close()`.
`shared` and `exclusive` count what each database session holds, `held` is what
the client believes (`_LockSet`). `SessionDeath` ends a server session; the client
sees that at its next statement and invalidates the connection, which replaces
the session. `Close` returns the slot to the pool without unlocking anything,
because the pool's reset is a ROLLBACK.

Abstractions: lock keys are names, not the SHA-256 halves the code hashes them to;
a deadline is a nondeterministic timeout, enabled only when the statement would
wait; the protected work is a single state. `MaxRounds` bounds how often an actor
runs, `MaxFaults` how many sessions die or processes crash.

### WavePipeline

A work item is a pair of stream (member, mean or deterministic run) and lead. `stage`
is where the item's coroutine is, one action per stretch between two awaits.
`decoded` is the set of decode events, `raw` the predecessor dictionary, `fed` who
was decoded with its predecessor's raw field. `Candidate`, `SeedDecoded` and
`SeedUnreadable` are the seed loop; `Prepare` is reservation, initialization and
pre-update, which end well or abort the wave; `SettleItem` is `_on_item_settled` with the
publication it may trigger. The cancel event may be set before any step.
A decode process may die at any point (`PoolBreaks`). `ProcessPoolExecutor` is then broken for
good and nobody replaces it, so that `submit`, which `_pipeline_item` calls before its `try`
block, raises for every later item (`SubmitFails`): the task ends, the item is `lost`, its decode
event stays unset. Decodes that had been handed over end well or fail.
`WaveContract` says what the caller relies on: an item settles once, is skipped only after a
cancellation and lost only with a broken pool, a lead is offered when its last item settles
and never when one was skipped or lost, and the finalizer comes after all of them.

Abstractions: a download, decode or region write is its outcome; semaphores other
than the staging envelope are not queued in order, which allows more behaviours than
`asyncio.Semaphore` does. Tasks of the pipeline are never cancelled one by one (the
drain shields them), so the branch that restores a popped field on `CancelledError`
does not occur.

### RunCommit

The store of a run (`store`, `marker`, `data`, `manifest`) beside its catalog rows
(`status`, `products`, `pairs`), and several waves that move them. A wave goes through
reservation, initialization, pre-update, region writes with publication of settled
leads, evidence reading, and the gated commit; `pc` is its stage, `task[w][r]` its
work on a region. A wave with no targets is `_repair_cycle_status`. A wave's number is
the generation in its markers. `data[r]` is the set of waves whose objects make up the
region, so a half-overwritten region has two elements.

Work under the gate is one action as long as nobody can tell: it is split where a crash
leaves something behind (coordinates, arrays, version file; each marker; manifest and
catalog) and where the code works without the gate (the listing and each read of the
finalizer). A catalog transaction is one action. `Reserve` records only whether a run
row existed, since its session is closed without a commit. `severed` are writes that go
on after their database session died: their locks are gone and they do not know.

Abstractions: the turnstile and the gate are one lock (`StoreGate` models the pair);
variables of a lead are written together, so a product is a lead and a product type;
object inventories of a marker always match; nothing of the run is reclaimed. In a
store without arrays a region has no physical chunks, hence no locks (`RegionLocked`).

### Reclamation

A unit is one shard: cycle, lead and variable of a deterministic run. `row[u]` is its
row of `reclamation_queue` (status, lease, manifest generation seen when it was queued,
and the cycle time it was queued with, which need not be the unit's), `object` what
exists in the object store, `catalog` the committed leads, `lifecycle` the cycle's claim
and tombstone. Times are points of the 3 h grid, so that cycle + lead is a valid time;
`now` is the start of the serving window and moves on by itself.

The daemon goes through bookkeeping (claim expired cycles, find claimed ones terminal,
tombstone them), the planner, one worker pass and the sweeper; `phase` is where it is.
A second worker stands for an operator's `reclamation worker`. A worker's pass is cut
where another process can see the difference: claim (committed, it is the fence), the
gate of each store, the generation gate, judgement, deletes, bookkeeping, marker cleanup.
`Source`, `Anchor` and `WindSource` are `domain/canonical.py`. `Necessary` is what the worker
judges by, with its own batch put back and everybody else's `deleting` and `deleted` rows taken
away (`Gone`). The planner holds the components of the wind source besides (`WindHolds`); the
worker does not, since the one tuple it adds for `wind_10m` names no component
(`worker.py:557-565`), and only its rule for pairs (`PairDeferred`) keeps them together.

Abstractions: one model and one version; a wave's stretch under the gate is one action
(`Publish`, `Bump`, `Lose`; `RunCommit` has the detail); `failed` rows do not occur, since
the worker never writes them; a row that a tombstone closes keeps its lease (`Closed`), which
nothing reads any more; `attempt_count` and `next_retry_at` do not steer anything;
a live pass ends within its lease (60 s by default; the code does not enforce this);
terminal rows are not purged.

### FrontierPlanner and Scheduler

`Plan` is `plan_wave`: the undone leads up to the first blocker (`Pending`; the walk over the
ascending horizon is the condition on every lead before it), of these a batch of the first
`MaxLeads` if it is full or old enough, and each model's share of it. `PlanSound` and
`CompleteMeansComplete` say what a plan must satisfy without the walk: it is bounded, published,
in order for each model, repeats nothing and leaves no gap. The tables compare the two on every
small state, the theorem `PlansSound` on all of them, and the scheduler uses the plan.

`Scheduler` has what is durable (`committed`, `status`), what NOAA shows (`published`,
`newest`), the leader key at the server (`owner`) and what the process believes (`held`),
and everything the process remembers between polls in one record `mem`, lost with the
process. `pc` goes from the loop's head through the leadership check, discovery, the read
of the committed state and the decision, the backlog scan, the two models' waves and the
settlement to the sleep. Every call that may fail has a failing alternative; `Crash`,
`LoseSession` and a stop may come anywhere. A wave falls short because a call fails or because
a stop cancels it, which the scheduler's listener asks of the wave runner; or it never returns
(`WaveHangs`), when a reset lead and its predecessor are among its targets and the predecessor
left without its event (`WavePipeline`). Instants are elapsed or remaining ticks. The poll's `now`
is read before its waves and what is remembered counts from there, so backoffs and ages have
come up to `LongestWave` ticks closer when a wave returns (`Later`). The rotation
of the backlog is a cycle's `Turn`; the scan takes the first turn with work, and those blocked
before it back off. That base delays do not exceed their maxima is validated by the code's
settings (`config.py:528`) and assumed here.

Abstractions: a wave commits its targets, or some of them when it fails
(`WavePipeline` and `RunCommit` have the detail); both models publish leads in order.

### ReaderLease

`lease` holds lease objects (state, reference count, and what their session holds),
`current` the map's entry for the store, `pc` and `at` where each request thread is and in
which lease it counts, `permits` and `active` the semaphore and the shutdown count. The
creator's session goes through checkout, turnstile, gate and revalidation; each may fail
by a timeout, a dead session or a run that is no longer readable. The opposite side is one
exclusive owner (`writer`), taken from `coordinator.py` and `locks.py`.

Abstractions: one store; an exclusive request that waits is not overtaken by later
shared ones, as in PostgreSQL's lock queue; the statements of one session are in `StoreGate`.

### Serving and CanonicalRules

`unit` is the state of each shard with its rows, `req` the point request: candidates are
discovered, the stores are opened one valid time after another, paths are looked up a last
time, the database is released, each store is read under its gate, and the answer is
checked against the fence. `Candidates`, `Resolution`, `Source` and `Used` follow
`resolver.py` and `build_point_forecast`; the rules they share with the planner are in
`CanonicalRules`. Beside the request a run publishes lead by lead, the worker claims and
deletes what the planner (`Needed`) does not hold, an expired cycle is claimed, and the
window moves.

Abstractions: one ordinary and one interval variable; claims of a pass are single steps,
the oldest cycle first; the planner has always just run; the window moves on by `Move` steps in
all, of which the first counts as one of the bounded events. `req.offered` remembers what the
discovery offered (`Offered`), for the properties only.

### EnsembleReads, EnsembleValues and PointReads

`ask` is one request: it considers visible runs from the newest, with rows, fences and
coverage, opens the store, reads the members and judges; or it answers all leads of the
newest run, one after the other. Only the members in `Weak` may be missing or reclaimed,
in order; seven members make 85 % a matter of one. What is computed from the members
(probabilities, percentiles, winds, phases) is in `EnsembleValues`, what is cut from chunks
and interpolated in `PointReads`; both are pure.

Assumed: some member is never missing (`Weak` is not all of them), and a run without rows is
the oldest one and complete. The code takes such a run to have every member it expects
(`ensemble_data.py:165`), so of an incomplete one a member would fall out unnoticed.

### SourceFetch and IdxSelection

A listing goes page by page with retries while the provider publishes; two snapshots are
kept, for change detection. They have regions of the members only: the listing that the scheduler
asks for leaves the ensemble mean out (`Regions`, `Retained`), the plan looks at members
(`Missing`) and the fingerprint too. A wave takes leads that the snapshot shows complete and
downloads for each of them the members and the mean (`ItemsOf`), which may not be there yet.
The first item, the mean of the first lead, is downloaded and decoded alone (`SeedDecoded`,
`SeedUnreadable`); only then the others start. A download is index, ranges, and on an error or
without an index the whole file, then the second provider. `dl` is a download,
`staged` and `litter` the destination and the temporary files, `committed` what the
finalizer made of it. `Stop` is a cancellation or the end of the process. Index parsing,
record selection for a model, member and lead, range merging and the test of a range's
answer are operators of `IdxSelection`.

### DomainRules, DomainScience and Tables

Each operator stands for a function of `packages/domain` over integers (probabilities as
numerators, angles as sectors, roots squared). `Tables` asks one question per initial state
and answers it in one step; a property compares the answer with a definition that
does not use the operator's own recipe: a reconstruction inverted, a partition that adds
up, a range parsed back, a selection by counting instead of sorting.

## 3. Runs

| Run | Instance | Shows |
|---|---|---|
| `store_gate` | writers w1 (r1, r2) and w2 (r2), an exclusive wave operation and an initializer on two connections, a reader on a third, 1 fault | regions disjoint, exclusive work alone, the gate never pooled, lock sets truthful, the turnstile keeps order, every started path comes to rest |
| `wave` | 1 stream, leads 6 to 18, one slot per stage, cancellation and a dying decode process anywhere | predecessors always feed their successors, finalizer last, the contract is kept, the drain ends unless a reset lead waits for a predecessor that left without its event |
| `commit_serial` | a member and the mean, 2 leads: ingest, re-ingest of a lead, status repair, full re-ingest in turn, 1 failure in the first three | a ready run is whole, the three records agree after a finalization, an initialized store's run becomes ready and stays so |
| `commit_concurrent` | 2 overlapping waves at once, 1 failure, 1 lost session, a GC claim | markers are truthful and owned, the fence holds |
| `reclaim_daemon` | 1 interval variable, a reset lead, its predecessor and a newer analysis, both cycles expire, batches of 2 of up to 3 rows, requeue, 1 crash, gate timeout or unreadable manifest | predecessors and last copies stay, a tombstone leaves only what another one closed by a wrong label, claimed cycles are retired |
| `reclaim_workers` | wind pair, 3 cycles that meet at one valid time, 2 workers with a batch of 3 rows, a re-ingest that loses a lead, 1 gate or storage fault | what serving selects is there, what is gone is fenced while its cycle is open, two workers leave a copy |
| `scheduler` | 2 cycles of 2 leads, the older one incomplete, GEFS behind GFS, 1 failing call or hanging wave, 1 lost session or crash, a stop that cancels a wave | plans are sound whatever failed (`PlansAreSound`), only a leader plans, a stop ends the process unless a wave keeps it, backlog and newest cycle progress unless a wave hangs for good (`Progresses`) |
| `leases` | 2 request threads, 3 lease objects, 1 connection, a lifetime of 1 tick, 1 dying session | reads have their gate, sessions their owner, the pool its end (`LeasesAreSound`); neither owner nor reader waits for ever (`LeasesProgress`) |
| `serving` | 2 cycles one lead apart, last lead 2, 1 event: a failing store or query, or a window that moves past the older cycle | collection leaves what is served (`CollectionKeepsServing`), answers hold what there was (`AnswersAreGenuine`) |
| `ensembles` | 2 runs 3 h apart, leads 3 and 6, 7 members of which 2 may be missing, 1 run without rows, 1 failure, 2 window moves | no member falls out unnoticed, the newest run that will do answers, an undisturbed series is complete (`EnsembleAnswersAreSound`) |
| `sources` | the mean and the member of a lead, a member of a lead outside the horizon, 2 ranges, 2 attempts, pages of 3 keys, at most 4 errors per download | whole files only, no new key of a region unseen, no file given up while it could be had, no region asked for before it is there (`FetchingIsSound`); honest snapshots, no staged file lost or left, all ends (`FetchingKeepsPromises`) |
| `tables` | 79 284 questions | the rules agree with their definitions (`DomainRulesHold`, `NumbersHold`, `AccessRulesHold`) |

Where a property's name covers several statements, it is the conjunction of named
definitions with a comment each.

The bounds are the smallest with which the interesting cases happen. Two writers overlap in one
region and differ in another, so that each can catch half; each actor runs once, since a pooled
connection is then still used again by the next one; one fault, since each theorem about it is
proved for any number. The wave has three reset leads, one whose predecessor is the seed and two
whose predecessor is an ordinary item, and fewer staging slots than items. Two leads are the least
with which a run can be partial, a member beside the mean the least with which products and pairs
can disagree; two waves are enough for every conflict on a region, and a third is the status
repair. `MaxFaults` bounds crashes and failed calls, `MaxLost` lost sessions. `SingleLeader` says
that the scheduler is the only one to start waves, one at a time; a CLI ingest beside it is the
concurrent case. In `reclaim_daemon` a horizon of two steps lets cycle 0 expire (from `now` = 3
on) while cycle 2 is open and then cycle 2 as well (`MaxNow` = 5), while cycle 0 may be claimed,
being emptied or tombstoned; the lead that waves may still ingest is a reset lead, and a batch of
2 is smaller than the queue of 3 rows, which may then stand under one another's cycle times; in
`reclaim_workers` three cycles reach valid time 2, so each of two workers can claim one of the
copies, and a batch of 3 splits a wind pair; `Committed` is what a wave has committed before the
start. No run has companions of precipitation. The scheduler's second lead reads the first, so
that order matters; one failure reaches the quarantine (`QuarantineAfter` = 1), which ends again.
A reader and a joiner are the least that can share, and with a third lease object a lease can be
replaced while both its predecessor and its successor live. A page of 3 keys splits a file from
its index. `Late` lets the mean and the member be published while the model runs and has the third
file there from the start; that several files of a wave are downloaded side by side happens in the
model with more members only, and the theorems have any number of them. In `serving` and
`ensembles` one failure suffices, since a second one can only lose more of the same answer, and
valid times are met by both runs with leads of every kind.

CHECK_DEADLOCK FALSE is set where a run ends by itself: everybody has run as often as
it may (`store_gate`), the wave is over, the clock stops (`reclaim_*`), a stopped scheduler
has exited, a server is shut down, everything is published and collected, the question is
answered.

Fairness. Locks: an actor that started keeps running and every database wait has a `lock_timeout`
or a deadline, hence `WF(Step)` and, since a retry loop re-enables it for ever,
`SF(RegionTimeout)` of writers. Wave: the event loop runs every runnable task and each download,
decode and write ends (HTTP timeouts, a dead decode process fails the futures it was given, region
deadlines), hence `WF` of the wave's or some item's next step, no matter whose. Nobody has to
cancel the wave and no process has to die. `RunCommit`: each wave that can take a step takes one
(`WF(Step(w))`): the scheduler starts it, its calls return and its lock waits are bounded.
`Reclamation`: the daemon loops, its calls return and leases run out; an operator's worker need
not go on. The retention of a tombstoned cycle's metadata runs out too, and some pass drops it
(`SF(Sweep(c))`): until then the worker hands a row that is labelled with that cycle back in every
pass (`SkipTombstoned`), and the row's own cycle is not retired. `Scheduler`: the process keeps
running as long as no wave hangs, the container restarts it, and another leader leaves some day.
`ReaderLease`: threads and the lock holder are scheduled and time passes. `SourceFetch`: the event
loop goes on with every download, and with a listing; each request has a timeout. Nothing is
assumed about actors starting, faults, or somebody asking for cancellation or a stop. `Serving`,
`EnsembleReads` and `Tables` state safety only.

## 4. Disagreements

What a document, a comment or a name promises and the code does not do. Those with a
definition can be reproduced by checking that definition in the named run's instance.

- `NoLockInPool` (`StoreGate`). Callers take the turnstile and the gate before their `try`
  block (`coordinator.py:1036`). When the gate times out nobody gives the turnstile back, and
  `conn.close()` pools a connection that still holds it, against `locks.py:23`.
- A wave's drain may never end (`DrainEnds` without `WaitsForGone`, run `wave`). A
  task that sees the cancel event between two stages returns without setting its decode
  event (`wave_runner.py:1297`), and so does one whose file a broken decode pool refuses
  (`wave_runner.py:1311`, before the `try` block); a reset lead that already waits for it waits
  for ever, and so does whoever awaits the wave. A stop cancels the wave in flight
  (`scheduler.py:787`, `:1134`), so it may be what keeps the scheduler from stopping: `StopEnds`
  leaves a process in a hung wave to the container's kill, which is outside the model.
- A dead decode process costs more than "the affected forecast file" (`decode_worker.py:34`): every
  later file of the wave is refused, none of these items settles, so that their leads are never
  offered, and the wave is finalized without them (`Lose` of `WaveContract`).
- An ensemble mean that is not published yet fails the wave. The plan asks for the members only
  (`discovery.py:346`), the wave downloads the mean as well and first of all
  (`wave_runner.py:727-733`); as the seed its failed download ends the wave before any member,
  and a mean that appears later changes no fingerprint (`discovery.py:265`). Hence
  `NothingMissedUpstream` and `ChangesAreSeen` speak of regions, `SurvivesErrors` of all files.
- `ReadyHasNoUpdating` (`RunCommit`, run `commit_concurrent`). The finalizer's evidence is
  read before it takes the gate (`coordinator.py:895`); a wave that marks regions in between
  is overruled, and the run is ready with UPDATING regions.
- `Converges` (`RunCommit`, run `commit_serial`). A store with coordinates but no arrays counts as
  initialized (`coordinator.py:440`, `:498`); the catalog loses its products on every
  finalization, and no wave ever mends it, against `ARCHITECTURE.md:353`.
- `FailuresAddUp` (`Scheduler`). A repair that returns without promoting the run first clears the
  failure streak and then counts one (`scheduler.py:1005`), so the streak of
  `_record_backlog_failure` never grows and such a cycle is never quarantined.
- `PinnedIsKept` (`Serving`). A ready run of which every row is hidden counts as one from before
  the catalog kept rows, and a resolution pinned to it yields deleted shards.
- A lead that loses all its variables to the fence becomes a candidate that lists none, which
  offers every variable (`canonical.py:366`, against the docstring at `:309`).
- The phases of a reset lead also read the lead before it, which the check after the read does
  not ask about and the planner holds only until the reset lead is committed
  (`ensemble_data.py:1296`).
- The reclamation queue (`Reclamation`):
  - units of a retired cycle are queued with a stale loop variable as their cycle time
    (`planner.py:612`, `Labels`), and `Tombstone` closes rows by that time (`finalizer.py:432`):
    objects of a cycle stay behind whose row the tombstone of another cycle has closed, and the
    cycle is tombstoned in its turn. `TombstoneIsTrue` says that nothing else is left behind;
    without its exception for such rows it fails in `reclaim_daemon`;
  - a delete that fails is logged and its row closed like any other (`worker.py:143-154`), and a
    lead that the catalog has lost gets no rows: with a storage fault, or with `MaxRewrites` = 1,
    a tombstone leaves objects that no exception covers;
  - a worker that dies after its deletes leaves `deleting` rows that the next worker may put
    back to `queued`, and the missing unit is no longer fenced (`GoneIsFenced` fails with a
    crash and a gate timeout); once a cycle is closed a tombstone may close its rows under a worker
    that judges them, and `GoneIsFenced` speaks of open cycles;
  - `requeue` probes objects first and writes later without locking the rows, and takes a
    storage error for an absent object.
- The reservation of a run is flushed, never committed, and rolled back when its session closes
  (`wave_runner.py:1047`), so the store is created without a run row; `_resolve_run_id`
  (`:1834`) then makes it from a synthetic dataset of the first lead. With a horizon of that one lead
  it would be ready before anything is written.
- A worker whose session died goes on writing (`coordinator.py:793`) and completes its region
  over the UPDATING marker of a newer wave; `MarkerProtocol` and `CompleteIsTruthful` therefore
  speak of live sessions. When giving back a partial region catch fails, the writer enters
  with region locks but without the gate.
- `CommittedState.mean_lead_set` falls back to the members when no mean is COMPLETE, so an
  ensemble can be ready while its only mean is UPDATING; `ReadyIsWhole` leaves means out.
- The API serves `partial` and `processing` runs, although `set_run_partial` says that readers
  select `ready` only. `publish_settled_lead` commits the catalog first, the manifest second.
- A worker counts its whole batch as present, what it has deleted of it included
  (`worker.py:386`), and the generation gate looks at one store. A copy that a wave loses while a
  worker is in the middle of a pass is therefore not made up for (`raced`), and `LastCopyKept`
  leaves such valid times out; companions, which are of use only beside precipitation, too.
- The predecessor of a committed reset lead may be collected. If a re-ingest then loses the reset
  lead, what it would subtract is gone (`PredecessorKept` fails in `reclaim_daemon` with
  `MaxRewrites` = 1).
- The claim fences before anything is judged, so a queued unit that is needed again is unreadable
  for as long as the pass takes.
- A lease of 60 s (`config.py:333`) may run out under a live pass. This is outside the model.
- `RegularGrid.contains` and the grid's interpolation differ at the seam of a global grid
  (`grid.py:139`); precipitation statistics of members that are all missing are 0.0 and dry
  (`ensemble_data.py:506`); a missing wind is shown as calm (`point_forecast.py:850`). The tables
  ask about the values the code defines, and leave these cases to the reader.
- A series answers from the newest run only, even where an older one has more leads. A wave that
  failed or was cancelled leaves its staging directory behind.

## 5. Proofs

All theorems hold for every value of the constants that meets the named assumptions of the
modules; where one has hypotheses beyond these, its statement begins with them, and the text
below says why the code needs them.

`StoreGateProofs`: the inductive invariant says which keys a session can hold at
each place of each code path, that a session is checked out by at most one actor,
that the lock table never contains conflicting owners, and that a client's lock set
is backed by its live session. `TypeCorrect`, `ExclusiveOwnerAlone`,
`RegionWritersDisjoint`, `GateNeverPooled`, `LockSetTruthful` follow from it, and
`TurnstileKeepsOrder`, an action property, from it and one step.

`RealtimeProofs` has three parts. The planner: the leads of a plan are the least undone ones
(lemmas on the horizon as a finite set of numbers, with a first and a last lead), a batch of them
has no gap below itself (`BatchNoGap`) and at most `MaxLeads` (`BatchIsBounded`), and the
predecessor of a reset lead is committed or was accepted before it (`WaveFindsPredecessors`). Hence
`PlansSound`, for every publication and commit state, whatever the ages, and `DuePlansWork`: a due
plan with something pending is not empty.

The scheduler: `SInv` gives everything it remembers its type, a cycle to every poll that reads or
dispatches (`PollHasCycle`), and says of a dispatch that what it has left to do is in order and
undone (`TargetsAreSound`). `PlansAreSound` alone is not inductive: it speaks of the GEFS wave, which
was planned before the GFS wave committed, and failed perhaps halfway. `SInv` says that the GFS
wave leaves the pairs of GEFS alone, and both `Decide` and the backlog scan start from a plan, of
which `PlansSound` speaks, also where the snapshot is a cached one. `PlansStaySound` follows, for any
number of cycles, failures, crashes and lost sessions; `LeaderPlans`, an action property, follows
from the step alone, since the model's `Confirm` is the only way to a plan, as in the code.

The wave: the inductive invariant `WaveInv` says that a task is done exactly when its item has an
outcome, that a decode event means the decode is over (`DecodedIsOver`), that whoever is past the
wait has a predecessor whose event is set (`WaitedFor`), and that a raw field stays until its one
successor takes it (`HandedOver`, with the lemma `OneSuccessor`). Without `DecodedIsOver` the property
`DeaccumulatesFromMemory` is not inductive: a predecessor might finish decoding after its successor
started. `LeftForAReason` says that a skipped item was skipped by a cancellation and a lost one was
refused by a broken pool. `ResetLeadsFed` and `FinalizerLast` follow: the finalizer runs beside no
task, and what it finds unsettled is skipped or lost. `PipelineKeepsContract` maps each action to an
action of `WaveContract` or a stutter, for any number of streams where the run has one; a refused
submission is its `Lose`, so that the contract does not promise an outcome the code does not give.

`RunCommitProofs`: the invariant `Commit` says that a wave in a gated stretch holds the
gate, that nobody writes while the gate is held, that a writer's region carries its
UPDATING marker (so two writers of a region are one), and that a stored region consists
of its writer's objects. Truthful markers alone are not inductive: `Complete` needs
`StoredWhole`, which needs that no second writer exists, which needs the gate. All of it
is promised while no session is lost: a writer without its session (`severed`) keeps no
second writer away.

A second invariant, `SerialInv`, is for waves that run one after the other (`SingleLeader`): at
most one wave is at work (`OneAtATime`), and on its targets only, until its finalizer reads its
evidence (`WorkersOf`), a run is not `ready` while a wave is updating it (`StatusOf`), and the
evidence a finalizer has read is what the markers still say (`EvidenceOf`), which is false as soon
as two waves overlap. `ReadyRunsWhole` and `FinalizedTogether` follow, with lost sessions and a GC
claim allowed. The first one needs a horizon of more than one lead, for the reason given in
section 4.

`ReclamationProofs`: `TInv` is the type invariant made inductive: a worker has nothing doomed
before its judgement and dooms only targets in the store it is at, a row that is `deleting` has a
lease, and a row with a lease is `deleting` or was closed by a tombstone, which leaves the lease on it
(`finalizer.py:432`). Five results stand on it.

- `PredecessorsStay` adds that no worker has doomed a wanted predecessor. It holds with crashes,
  timeouts, faults and requeues: the worker judges with a window that is older and with cycles that
  are more than those in question, and no wave can add a lead to the store it is at. It needs that
  waves lose no lead (`MaxRewrites` = 0), see section 4.
- `TombstonesTrue` rests on `DInv`: a unit that is there or filed (it has a row, a worker or the
  operator deals with it, the planner is about to queue it) is catalogued until its cycle is swept
  (`AllKnown`), so no wave writes it again; whoever is about to write `deleted` has seen the object go
  (`GoneFirst`); hence an object under a `deleted` row of a cycle not yet closed is mislabelled
  (`DeletedIsGone`), and what the bookkeeping found stays true until it sets the tombstone
  (`FoundTerminal`). It holds with crashes, requeues and any number of cycles that expire together.
  It needs `MaxRewrites` = 0 and no storage faults, without which the code does not keep it.
- `FencesKept` and `SelectionServes` rest on `FInv`: a row of an open cycle's unit bears the cycle's
  own time, every live lease has a worker that holds the unit, a unit is held by one worker at a time
  (`HeldOnce`), is fenced while held (`HeldFenced`) and is there until it is doomed (`HeldPresent`).
  `GoneIsFenced` alone is not inductive: a worker that hands a unit back must know that nobody
  deleted it meanwhile. They exclude crashes and operator requeues, with which the code does not keep
  the property.
- `LastCopyStays` adds `KInv`. Its argument is that at each valid time the newest lead among those a
  worker may count as present is never deleted by anyone (`LastingKept`): to delete it, a worker
  would have to see a newer one, and that one would then have been the newest. The worker holds no
  pair for `wind_10m`, only the source of each component. The argument still works for the pair,
  because its components are doomed and deleted together (`Coupled`, `DoomedTogether`) and only
  where each of them has a newer carrier, which then carries both; a lead counts as present for a
  pair as soon as one component of it may (`Lively`). A site that is present under a `deleted` row
  (`Stranded`: a failed delete) is a copy that nobody touches any more. Same hypotheses.

`ReaderLeaseProofs`: reference counts and the active count are the numbers of threads that share
a lease or are inside (`RefsCount`, `ActiveCount`); what a thread's place says of its lease
(`StateByPlace`, `SessionByPlace`) and what a lease's state says of its threads (`OwnerByState`);
a lease has one creator and one closer (`OneOwner`). The counts matter, because a lease is closed at
zero and the pool disposed of at zero: the property is about both. With more lease objects than
threads a free one is always there (`Cardinality(Leases) > Cardinality(Readers)`, a pigeonhole
argument), which stands for the code's fresh objects.

`SourceFetchProofs`: a listing has seen every key of a region up to its token that was there when
it began (`ListingSound`; the lemma on pages says that a page is a prefix of what is left), so a
snapshot is honest whatever was published between two pages. The ranges written are the first ones
in order (`FileSound`), and the errors a download met are at least what each provider it has left
can cost (`Paid`), so that a file given up was paid for in full. A wave's means are in none of
this: nothing listed them. `NothingMissedUpstream` and `ChangesAreSeen` are therefore about
regions, of which a wave starts no download before both files were listed. `FetchingIsSound`
follows; of `FetchingKeepsPromises` the parts on snapshots and staging are theorems of their own.
The bound on errors must not cut a download short, hence `MaxHits >= 4`, the cost of two
providers.

`EnsembleReadsProofs`: a member a request goes by was there when it looked (`There` and `Fenced`
only grow), and one it could not read is fenced by now (`Accounted`), so the judgement after the
read sees every loss. While nothing interferes (`calm`) the search has not passed the best run and
carries exactly what is left of it (`CalmLead`), and a series has answered the leads it serves but
those it still has to do (`CalmSeries`). `World` says that a lead nobody published has no shards
and that the oldest run is complete.

`ServingProofs`: collection first. `NewestKept` says that of everything that was published for a
valid time of the window a fresher unit is live, if not the unit itself. It is kept because the
planner needs the freshest one with the variable (`Needed`), and `World` ties the units to the
progress of the run that publishes them and the fenced cycles to times behind the window.
`CollectionKeeps` follows: a resolution takes the freshest candidate, which is live. Then the request:
`Known` says what it consists of at each place (its anchors are candidates of their valid time,
what its sources point at is among the units the check asks about), which makes its
nulls genuine whatever happens. `Calm` says that as long as nothing of its candidates was fenced and
no store failed, the freshest candidate of each valid time, and the freshest interval, are still
live and opened (`Intact`, `Anchored`); so the plan has a source for everything that was offered
(the lemma `CalmPlan`), and every read is a value. `UndisturbedIsServed` is not inductive without
it: it speaks of the end, when the discovery is long past. The theorems hold for any number of
cycles, any horizon, and windows that move any number of times.

Only model-checked: liveness (`Drains`, `DrainEnds`, `Retires`, `InitializedConverges`,
`Progresses`, `LeasesProgress` and the part of `FetchingKeepsPromises` that says that downloads
and listings end), which is out of the prover's reach, and the properties of `Tables`, which are
questions about recursive definitions and bounded tables. (What `WavePlanIsSound` asks there is
`PlansSound`, proved.)

## 6. What is left

Proofs: every safety property of the state machines is a theorem. The rules of `DomainRules` and
`DomainScience` over integers could be stated for all inputs where they do not recurse.

Not modelled: the purge of terminal queue rows and ensemble units in the planner, and leases
that run out under a live pass (the state space of `Reclamation` is at its limit); legacy
stores without generations in `RunCommit`; caches, the circuit breaker and place search of the
API, which change no forecast data and whose effect on an answer is that of an older read;
tiles, monitoring and the frontend, which only render what the models above decide on;
floating-point rounding, trigonometry and kernel densities in `DomainScience`; GRIB decoding
and chunk encoding, which are libraries; command lines and configuration.
