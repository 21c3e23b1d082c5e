# Frigg in TLA+

Frigg is a local code-search server: it indexes repositories into a SQLite
database beside each checkout, keeps the index fresh while files change, and
answers MCP tool calls from it. These modules describe the part of it that is
hard to test: the background machinery that decides *when* a repository is
indexed (`crates/cli/src/watch/`), *who* keeps it watched (sessions, their
workspaces and their leases, `crates/cli/src/mcp/`), *what an index run leaves
behind* when it succeeds, fails or dies (`crates/cli/src/indexer/index/`,
`crates/cli/src/storage/`), *how old an answer may be*
(`crates/cli/src/manifest_validation.rs` and the caches), *who generates
precise data*, and *whether the vector table returns what was put in*
(`crates/cli/vendor-sqlite-vec/sqlite-vec.c`).

Paths below are relative to `crates/cli/src/`, but for `sqlite-vec.c`.

## 1. The system

| Component | State | Operations | Talks to |
|---|---|---|---|
| Watch scheduler `watch/scheduler.rs` | per repository two refresh queues, active class, dirty-path hints, in-flight and follow-up paths; per class the in-flight set | record an event, add, remove, start, defer, succeed, fail, block | called by the supervisor loop only |
| Watch supervisor `watch/supervisor.rs` | command channel, lease epochs, spawned workers | receive a command, tick, dispatch, apply a completion | drives the scheduler, spawns index workers, asks the task registry |
| Watch leases `watch/supervisor.rs`, `mcp/server/workspace.rs` | lease counts, map of watched repositories, watcher roots | acquire, release, rollback of a failed attach | called by sessions, sends lease commands to the supervisor |
| Index pipeline `indexer/index/` | one run: plan and phase | load, scan, plan, persist, project, embed, write, prune, roll back | reads the tree, writes storage |
| Storage `storage/` | snapshots, projections, semantic head and corpus | upsert, delete, prune, replace, advance | called by the pipeline and by readers |
| Manifest builder `indexer/manifest.rs` | none | scan, diff | called by the pipeline |
| Validated manifest cache `manifest_validation.rs` | per root a validated snapshot or a dirty mark | look up, validate, store, mark dirty, reconcile, invalidate | supervisor, attach, index runs, searches |
| Runtime task registry `mcp/server_state.rs` | active and recent tasks | start, start unless conflicting, finish | supervisor, attach pipeline, precise generation |
| Workspace registry and sessions `mcp/workspace_registry.rs`, `mcp/server/workspace.rs`, `mcp/server/workspace_session.rs` | catalog, pending and session counts; per session the adopted repositories, the default, the attach states | resolve, attach, adopt, roll back, detach, session end | leases, task registry, pipeline |
| Precise generation `mcp/server/precise_graph/` | queue of dirty paths, the one generation task, summaries, artifacts | record, spawn, generate, finish, replay, clear, ingest | task registry, external SCIP generators, the attach pipeline that waits |
| Vector extension `vendor-sqlite-vec/sqlite-vec.c` | shadow tables of a vec0 table: rows, chunks with validity bits, vectors, metadata, auxiliary values | insert, delete, update, read a row, k nearest rows | storage, through SQL |
| Server caches `mcp/server/runtime_cache.rs`, `mcp/server_cache.rs`, `mcp/server/navigation_cache.rs` | answers by snapshot and epoch | fill, hit, invalidate | tools, supervisor callbacks |
| Portable cache `cli_runtime/commands/cache.rs` | archive, database, SCIP directory | make, load, install, roll back | storage |
| Client configuration `cli_runtime/commands/adopt/` | managed blocks in configuration files | plan, merge, remove | files |
| Embedding providers `embeddings/` | none | embed with retries | network |
| Searcher, graph, languages, symbols | stored projections, read only; a projection cache with an epoch | search, rank, parse | storage |
| MCP tools, deep search, status, command line | none of their own | requests and reports | all of the above |

Showcases, skills, packaging and the benchmarks are not part of the program's
logic and were left aside, and so were the vendored grammars: parser tables
generated by tree-sitter, and scanners that are functions from text to tokens.
`sqlite-vec.c` is vendored too, but every semantic search goes through it, and
its slots, bits and texts are just what a unit test does not reach.

What makes this code hard, and where each hazard bites, is the list `hazards`
of `PROJECT.json`; in short:

* **Leases and commands.** A release takes two locks one after the other and
  then sends a command; acquires interleave with every step of it. What the
  map says and what the supervisor knows are never updated together.
* **Late completions.** A worker outlives the lease it was started under. Its
  completion carries the lease epoch and must not be applied to a later lease.
* **Coalescing.** A change that arrives during a refresh must become another
  refresh, through success, retryable failure and backoff, and must not be
  postponed forever by later changes.
* **Phases.** An index run is a chain of separate transactions, may die between
  any two, and rolls back by deleting what it wrote. The next run plans from
  whatever is there, and files change all the while.
* **Caches.** A dirty mark, a loaded snapshot, its validation against the disk
  and the store of the result are separate steps without a lock over them, and
  five kinds of threads invalidate while answers are being computed.
* **Sessions.** The requests of one session run concurrently and may be
  cancelled wherever they await; what an attach adopted is rolled back unless
  another attach of the same session needs it.
* **Hand-over.** Paths that change while a generator runs wait in a queue that
  only the ending thread takes, and an attach waits for the quiet after it.
* **Slots.** A deleted vector row leaves its rowid, its vector and, when a step
  fails, its long text behind in a slot that is used again.

## 2. Modules

Each component has a module of state and actions, a `...Props` module of what
it must guarantee, and an `MC...` module with the small instances; proofs have
modules of their own.

    ChangeLedger            what the scheduler promises about changes
      ^ implemented by
    WatchScheduler  <-  WatchSchedulerProps  <-  MCWatchScheduler
      ^                   ^ proved in WatchSchedulerProofs
      | extended by
    WatchSupervisor <-  WatchSupervisorProps <-  MCWatchSupervisor
      | INSTANCE
      v
    WatchLeases     <-  WatchLeasesProps     <-  MCWatchLeases

    (WatchSchedulerProofs also: the scheduler implements the ledger;
     WatchLeasesProofs: the leases; WatchSupervisorProofs extends the first and
     instantiates the second: the loop implements the scheduler and the leases,
     writers exclude each other, and what runs has its worker)

    IndexPipeline     <-  IndexPipelineProps     <-  MCIndexPipeline
                            ^ proved in IndexPipelineProofs
    ManifestCache     <-  ManifestCacheProps     <-  MCManifestCache
                            ^ proved in ManifestCacheProofs
    PreciseGeneration <-  PreciseGenerationProps <-  MCPreciseGeneration
                            ^ proved in PreciseGenerationProofs
    WorkspaceSessions <-  WorkspaceSessionsProps <-  MCWorkspaceSessions
                            ^ proved in WorkspaceSessionsProofs

    VectorTable             what a vector table promises
      ^ implemented by
    Vec0  <-  Vec0Props
      ^            ^
    Vec0Knn  <-  Vec0KnnProps  <-  MCVec0
                   ^ proved in Vec0Proofs

### WatchScheduler

One record per `RefreshQueueState`; `queue[r][c]` is the queue of class `c`
(`ManifestFast`, `SemanticFollowup`) of repository `r`. `hints`, `inflight` and
`semPaths` are the three path sets of `RepositoryWatchState`, `active` its
`active_class`, `running` the two in-flight sets of `WatchSchedulerState`.
`Enqueued`, `Started`, `Succeeded`, `Failed`, `Blocked` and `ReadyAt` are the
methods of a queue; `RecordPathChange`, `AddRepository`, `RemoveRepository`,
`MarkStarted`, `Defer`, `ManifestSucceeded`, `SemanticSucceeded`, `MarkFailed`
and `MarkBlocked` are the scheduler's, each with all it does to both queues.
`NextReady` is the choice of `next_ready_refresh`: manifest-fast before
follow-up, least recently due first, limits respected. Instants are numbers
and `Tick` moves the clock; `NoTime` is `None`. The sample of recent paths,
used in log lines only, is left out.

The scheduler is driven as its only caller drives it: completions are reported
for what is running, and a removed repository is added again only by a lease.

### ChangeLedger

The abstract specification of the scheduler: a set of *owed* paths per
repository, the part of it the running refresh *covers*, and whether a refresh
is scheduled or running. It has no clock, no queue and no limit. The mapping
(`Ledger` in `WatchSchedulerProps`) reads the owed paths from hints and
in-flight paths, and the covered ones as those in flight that no later event
touched.

### WatchLeases

`acquire_lease` and `release_lease`, one action per critical section:
`Acquire` (count up), `Insert` (map), `AnnounceAcquired` (command), and
`Detach`, `CountDown`, `Unwatch`, `AnnounceReleased`. `call[s]` is where the
call of session `s` stands. With `WatchFails` the watcher may refuse a root,
and the attach is rolled back as `adopt_workspace` does it; with `UnwatchFails`
it may fail to give one up, which the code logs and does not try again: the map
entry is gone, the watcher reports the root on, and `kept` (history) notes it.
`Consume` is the supervisor as far as leases see it.

### WatchSupervisor

Extends the scheduler and instantiates the leases, so the scheduler's `watched`
is the leases' `scheduled`. One action per command the loop receives, one for
the ticker, one per dispatch (`StartWorker` or `Defer` by `Conflict`), and the
steps of a worker: `Plan`, `CheckBeforeCommit` (the epoch check), `Commit`,
`FinishTask`, `SendCompletion`. A dropped notification is handled one
repository at a time (`SweepNext`), leases changing in between; `SweepMissesNone`
is about who may be passed over.
`AttachIndexStarts` and `AttachIndexEnds` are the attach pipeline of the server,
which shares the task registry with the workers.

### IndexPipeline

`Begin` loads the latest snapshot, `Scan` reads the tree, `Plan` fixes the
refresh mode and the base of the semantic delta, then `Persist`, `Project`,
`Embed`, `WriteCorpus` and `Prune` execute it; each may fail, with the rollback
its error path performs, and `Crash` may end the run between any two. `Edit`
changes a file at any moment. A manifest is a function from paths to versions
and is its own snapshot id, since `deterministic_snapshot_id` hashes exactly
its entries. Creation order is the relation `older`, because a snapshot that is
upserted again keeps its row. `unsure` is a history variable: paths edited
between the scan and the embedding of a run, of which the code promises less.

More than one indexer stands for `frigg index` beside a running server: two
processes have no lock in common.

### ManifestCache

One repository and its caches. `tree` is the version of the files, raised by
every edit, and a snapshot is the version it was scanned from, since its id is
a hash of the content. `entry` is the root's entry in the validated manifest
cache: none, `Dirty`, or a snapshot that was validated. `stored` holds the
three families of answers that are computed from it, each with the epoch it was
stored under; an epoch is compared for equality only, so a captured one is a
flag that the next `fetch_add` lowers. `BumpEpoch` and `ClearFamily` are the two steps
of each invalidation; `todo` is what a thread (supervisor, worker, session) has
still to do of one. The supervisor is here with its channel, the lease, its
callbacks and the reconcile after a success, which the supervisor model leaves
out. A failed refresh is queued again, or given up when the failure blocks the
retry (`Blocked`, an incompatible storage schema). A call (`Begin` to `Insert`) reads its guards one by one in
the order of the code (`GuardReads`), loads, looks up, validates, stores, walks
or builds.

### PreciseGeneration

`queue` is the entry of the repository in the map of waiting dirty paths, where
an empty entry differs from none; `task` is the active `PreciseGenerate` task.
An actor is a caller of `maybe_spawn_workspace_precise_generation` (the attach
pipeline, the index tool, another call of a session) or a generation thread.
`Select` chooses generators, `Start` records or registers under the lock of the
queue, `Spawn` or `SpawnFails` and `Requeue` follow; a thread runs its
generators one by one, and `Finish` ends the task and takes the queue under one
lock before `Replay`. `ObserveTask` and `ObserveQueue` are the two reads of an
observation of quiet. `owed` and `lost` are history: the paths handed over that
no generator started since has seen, and those a panic or a late clearing took.

### Vec0, Vec0Knn, VectorTable

The table `storage/vector_store.rs` creates: a partition key, one vector, a
metadata text, an auxiliary value. A row of `_rowids` owns a slot of a chunk;
`valid`, `rowids`, `vectors` and `views` are the blobs of the chunks, `longTexts`
the table of texts longer than a view. `Insert` and `InsertRowid` are the two
ways a rowid is found, `Delete` clears in the order of the code and may lose its
last step (whose result the code does not look at), `Update` rewrites columns
in place. A statement that fails is rolled back by SQLite and is no step. A
vector is its distance to one query vector. `Vec0Knn` is the search: the filters
(bitmap of rowids, text condition on the views with the full text on demand,
bound on the distance), `min_idx` per chunk and the merge of the chunks.
`VectorTable` is the abstract specification: a map from rowids to rows.

### WorkspaceSessions

`known`, `pending` and `active` are the registry, `leases` the counts of the
watch runtime (whose inner steps are `WatchLeases`), `adopted`, `default` and
`attaching` the state of a session. A request is a record of where it is and of
its locals and guards; one action is one critical section, in the order the
code takes the locks, and `GiveUp`, `LeaseRefused` and `Finish` are the places
where a request is cancelled or fails. Only an attach by path has a rollback
guard. An attach by id, a prepare, an index run and a tool's own adoption still
await after the adoption, and `Tell` is their end: an answer, or a failure or
cancellation that undoes nothing. Dropping the resolution guard, releasing
and pruning are the `Drop` implementations. `crossed`, `refused` and `forgotten` are
history: repositories that were let go of while the same session had another request for
them, roots the platform watcher refused, and repositories whose detach dropped
the attach states of attaches begun since. `completed` and `unanswered` are history too: what a
session was told it has, and what it has of a request that adopted it without a
guard and did not answer.

## 3. Runs

Every pass run checks properties that take several steps, mostly of several
actors, to violate; type invariants are proved, in the modules that have proofs; for each of them `PROJECT.json` names a
mutant of the code it catches.

| Run | Question | Result |
|---|---|---|
| `scheduler_core` | Do the two refresh classes ever collide, lose a rerun, its paths or the follow-up's paths, or let a storm of events postpone a refresh past the cap? Does the scheduler implement the ledger? | pass |
| `scheduler_live` | When the changes stop, is every accepted one settled, and does every queued follow-up run? | pass |
| `leases_shared` | Is the count the number of holders at every instant, and is a root nobody holds let go by map, scheduler and watcher alike in the end, but for the root of an unwatch that failed? | pass |
| `leases_race` | Is a root with a holder served once all calls have returned? | violated |
| `supervisor_core` | Does the loop, with stale completions and re-attaches, use the scheduler and the leases only as their specifications allow? Do writers exclude each other? Does the sweep after a lost notification pass no repository over? Has each running refresh its one worker or completion, and does each give its slot back? | pass |
| `index_core` | Does the semantic head always cover a stored snapshot, and the corpus match it, through any sequence of runs, failures, crashes and edits? Does what a run planned from stay true until it has used it, and does success mean the snapshot can be served? | pass |
| `index_latest` | Is the snapshot of a successful run the latest one? | violated |
| `cache_core` | Does an answer, cached or not, describe the files no earlier than the last change accepted before the call? Is an entry that readers trust current, and does a dirty mark under a lease go away, unless a failure blocks the retry? | pass |
| `cache_sessions` | Does no answer survive an invalidation that overlaps its computation, and is an answer stale only for changes whose mark an attach, a detach or an index run removed? | pass |
| `precise_core` | Is a path handed over to precise generation ever lost or left without a thread, and does the attach pipeline get past its wait? | pass |
| `vec0_core` | Do the shadow tables describe one another, do they implement a map from rowids to rows, and are the rows a search returns the nearest? | pass |
| `sessions_core` | Do the counts, the catalog and the leases stand for what sessions have adopted, and do overlapping attaches that fail or are cancelled undo what they did, so that only a request without a rollback guard leaves what it did not answer for? | pass |

### Findings

The violated runs are disagreements between the code and its own comments,
each with the line in `findings`:

* **leases_race.** `release_lease` decides on zero under the lock of the counts
  and acts on it after giving the lock back. An acquire in between is counted,
  inserts its entry and then loses it: the holder's repository is no longer
  watched. `LeasedIsServed` holds with one session (`AttachedIsServed` in
  `supervisor_core`), so the race needs two.
* **index_latest.** A snapshot id is a hash of the tree, and upserting one that
  is there keeps its creation time. When the tree goes A, B, A the run for the
  second A succeeds while "latest" stays at B.

More disagreements were met while modelling. They have no run of their own: the
properties of the runs are stated, or the instances chosen, so that they do not
depend on them, and a reader of those properties has to know them.

*Watch and index.*

* A lease that is refused is given back twice: `acquire_lease` undoes its own
  count when the watcher refuses a root, and the attach then releases again
  (`mcp/server/workspace.rs:472`). Between the two another session may have
  taken the lease that goes. (`WatchLeases` with `WatchFails` violates
  `CountMatchesHolders`.)
* A detach removes the active class while the worker runs on; after a re-attach
  the other class starts beside it, against the scheduler's claim that the
  classes of a repository never work together. `WritersExclude`, per class, holds,
  and SQLite's transactions keep the writes apart.
* A detach also frees the slot of the worker that runs on, so a refresh of
  another repository starts beside it: `scheduler.rs:396` and the limit of
  `next_ready_refresh` count what the scheduler believes to run, and more workers
  than "maximum concurrent manifest-fast watch refreshes" (`README.md:601` of the
  repository) can be at work. `WithinLimits` is a lemma about that count, no
  property of a run.
* Manifest-fast goes before the follow-up whenever both are ready
  (`scheduler.rs:444`). While events last, a rerun may be ready at each
  completion, of the same repository or, at the limit, of another, and the
  follow-up waits as long. `EveryChangeSettles` and `FollowupRuns` are therefore
  stated for behaviours in which changes stop some day (`ChangesStop`), and the
  run checks them with changes at any moment before.
* An unwatch that fails is logged (`supervisor.rs:386`) after the map entry has
  gone: the root stays with the watcher until the repository is leased and
  released again. `NothingLeaks` and `UnleasedIsLetGo` except the roots in `kept`
  and say of them that neither the map nor the scheduler has them.
* A full run over an unchanged tree "persists" the snapshot that is already
  there, and deletes it when its projections fail; the semantic failure path
  has the check the projection path lacks (`indexer/index/execution.rs:384`).
* Two processes plan on the same snapshot; one rolls it back and the other
  moves the semantic head to it. (`IndexPipeline` with two indexers violates
  `HeadIsStored`.)

*Caches and precise generation.*

* `insert_cached_projection_entry` compares the epoch before it takes the lock
  (`searcher/projection_service.rs:128`), so an invalidation in between does not
  stop the store; the adjacency index is built from relations that were loaded
  before the epoch was captured. Hence `InvalidationHolds` speaks of the two
  families that compare under the lock.
* A file event that is handled between `LeaseReleased` and the next
  `LeaseAcquired` marks the root dirty and schedules nothing: `DirtyIsRefreshed`
  is checked in `cache_core`, where no session detaches.
* A failure that blocks retry (`supervisor.rs:1301`) leaves nothing pending, and
  the root marked dirty: every search walks the tree until a file changes or
  a session attaches or indexes. `DirtyIsRefreshed` excepts it, up to the
  next event.
* Two quiet observations 25 ms apart may each fall into a hand-off gap of its
  own: the comment "so semantic cannot enter that hand-off gap"
  (`mcp/server/workspace_session.rs:743`) claims more than the code gives.
* When the generation thread cannot be spawned, its paths are queued again with
  no thread to take them, and an attach pipeline waits for the queue holding
  its `WorkspaceIndex` task until another call starts a generator.

*Vector table.*

* A NaN distance (the cosine of a zero vector) compares false with everything,
  and `min_idx` then returns rows that are not the nearest, where the comment
  promises "a true top k" (`sqlite-vec.c:6530`). The instance has numbers only;
  Frigg normalises vectors before it writes them.
* The conditions `<`, `<=`, `>` and `>=` look for the long text of every view of
  at least 12 characters, and a text of exactly 12 has none: the search fails.
  The instance asks for equality and inequality.

*Sessions.*

* A test says an older cancelled attach must not detach a later reuse of its
  adoption (`mcp/server/runtime_gate_tests/workspace.rs:1009`). The decision to
  roll back and the rollback take different locks: a whole second attach fits
  in between, completes, and loses its adoption. The same happens to an
  adoption without a rollback guard (by repository id, or of an index run)
  while an attach is in flight, after a detach has reset the attach states, and
  to the reuse of an adoption whose root is refused.
* A detach between `adopted.insert` and `mark_session_adopted` leaves the
  session count at one, and a lease without an adopter, for good.
* Only an attach by path undoes its adoption when it fails or is cancelled.
  `workspace_index` adopts (`mcp/server.rs:1762`) and then awaits notifications, the
  precise generation and the provenance (`:1817`, `:1855`, `:1900`),
  `workspace_prepare` (`:1594`, `:1620`) and an attach by repository id (`:1253`,
  `:1337`) await likewise: a client that cancels there is told nothing and
  keeps the adoption, its session count, its lease and the default. `unanswered` notes
  these, and `NothingStaysOfFailed` says that nothing else stays.
* A run by repository id keeps no pending mark: a detach or a rollback during
  the run prunes the catalog entry, and the workspace is adopted without one.
  Its later release falls back to the public id, which is not the id of the
  lease when the database was imported with a partition id of its own.
* The default repository is compared and cleared under two locks, and a
  rollback or an attach of a reused adoption sets it after the adoption: it may
  name a repository the session has let go of.
* A cancelled attach that reused an adoption leaves the changed default, though
  the guard's comment (`mcp/server/workspace.rs:119`) says it rolls back
  "adoption + optional session default".

All but the third and the last two are one request of a session letting go of a repository
while another request of the *same* session is about it, or a refused root.
The properties of `WorkspaceSessions` therefore speak of repositories not in
`crossed`, and of leases of roots not in `refused`; every other interleaving,
of the same session and of others, is in them, but for the next one.

* A detach removes the adoption and then, under another lock, the attach states
  (`mcp/server/workspace.rs:520` to `:537`). An attach that begins in between
  adopts the workspace anew, and the rollback it asks for when it fails beside
  another attach is dropped with the states: the adoption stays, against the
  guard's comment. `forgotten` notes these repositories and
  `NothingStaysOfFailed` exempts them; the other properties do not.

*Portable cache* (read, not modelled). `cli_runtime/commands/cache.rs:206` says
that "rollback failures are preserved in the returned error"; the rename that
puts the old SCIP directory back is `let _ =`.

### Bounds

| Constant | Values | Why they are enough |
|---|---|---|
| `Repos` | 2 in the scheduler and the sessions, 1 elsewhere | limits and priorities need two competitors, a default needs another to change to; leases, epochs and workers of different repositories share nothing but the limits |
| `Paths` | 1 in the scheduler and supervisor, 2 in the index | path sets are handled element by element; "touched since the start" needs one path; diffs, rebuilds and partial rewrites need two |
| `ManifestLimit`, `SemanticLimit` | 1 | reached with two repositories, so refusal at the limit happens |
| `Debounce`, `DebounceMultiplier`, `Retry` | 1, 2 (1 for liveness), 1; 0, 2, 1 in the supervisor | the cap differs from one debounce; retries double; deadlines are equal, earlier and later than each other |
| `Horizon` | 2 to 4 instants; 5 for liveness | a storm past the debounce cap, and two failures in a row with their backoff. The clock stops there, and inputs that would set a deadline beyond it do not happen. For liveness that would cut storms off, so there the clock stands and instants move into the past (`Elapse`): time and events go on forever, and only the number of failures in a row is bounded |
| `Sessions`, `MaxCalls` | 3 with 4 calls each in `leases_shared` (2 sessions with 3 calls in `leases_race`), 1 with 3 calls in the supervisor | a third session can hold while two race; three calls are attach, detach, attach, so a worker of the first lease meets the second |
| `WatchFails`, `UnwatchFails` | no, yes (no, no in `leases_race`) | a refused root breaks the counts, as told above; the race of `leases_race` is there without failures |
| `MaxMail` | 1 file event or drop waiting behind other commands | lease commands and completions queue without bound, so every order of two different commands occurs |
| `Versions`, `Keep` | 1 and "gone"; 1 | a file differs from itself by being there or not; `Keep` = 1 makes retention delete at the second snapshot |
| `Indexers` | 1 | one run at a time is what the task registry gives inside the server |
| `MaxEdits`, `MaxFailures`, `MaxSessionOps` | 2, 1, 0 in `cache_core`; 1, 0, 1 in `cache_sessions` | an edit before and one during a refresh that fails once, to be tried again or blocked; a blocked startup refresh is followed by an edit; one invalidation of a session against one fill and the supervisor |
| `Calls` of the caches | one call at a time | what a call leaves behind is met by the next, and each fill overlaps invalidations by up to three threads; two fills meet only in the cache |
| `Specs`, `Threads`, `MaxCalls`, `MaxFaults` | 2, 2, 3, 1 | a change for one generator, for the other, for none; a thread that replays beside one that begins; an attach, an index run and a detach around one fault |
| `Rowids`, `ChunkSize`, `MaxChunks`, `MaxLost` | 3, 2, 2, 1 | three rows overflow a chunk; slots are freed and taken again by another rowid; a second partition has a chunk of its own; one clearing is lost |
| `Texts`, `ViewLength` | a text that fills the view of 1 and a longer one with the same view | equal views of different texts; an update makes a text longer or shorter |
| `Requests`, `Sessions`, `MaxRefusals` | 3, 2, 1 | two requests of a session race with a third of it or of another session. The states of a fourth request are out of TLC's time |
| `Startup` | none | a startup root is only an exemption from pruning |

The index model has no other bound: with finite manifests its state space is
finite. Symmetry is used in safety runs only.

### Fairness

* `HeldFairness` of the scheduler: time passes; a ready refresh is dispatched, since
  the loop dispatches at every tick (`supervisor.rs:725`); a running refresh
  completes, since a worker sends its completion even when it panics
  (`run_caught_watch_index_work`). Failures may go on forever, up to the horizon. That
  changes stop is no fairness but a hypothesis of the two properties.
* `HeldSpec` keeps the leases and has no blocked refresh: a released repository is
  forgotten, and a refresh blocked by an incompatible schema gives its changes up, on
  purpose. Liveness across leases is the subject of `UnleasedIsLetGo` and `SlotsAreFreed`.
* `LeaseFairness`: a call that has begun returns, and the supervisor receives.
* `SupFairness`: weak fairness of the ticker, the dispatch and every worker; *strong* fairness of
  handling a command, because commands and ticks compete in `tokio::select!`,
  which picks a ready branch at random, and handling is disabled whenever the loop is dispatching.
* `Fairness` of the caches: events arrive, an invalidation that has begun goes on, the supervisor
  handles its commands and a run that has begun ends. Nothing makes users edit or call.
* `Fairness` of precise generation: callers and threads go on, and every generator process ends.
  The code sets a generator no time limit (`generation.rs:824`), so this is an assumption on the
  external tools; a generator that hangs keeps the pipeline waiting.

`Vec0` and `WorkspaceSessions` have safety and refinement only.

## 4. Proofs

`WatchSchedulerProofs` proves, for every set of repositories and paths, every
limit and every duration, from the assumptions `DurationsAssumption` and
`LimitsAssumption` (naturals, positive limits, which
`with_concurrency_limits` asserts):

| Theorem | States |
|---|---|
| `TypeCorrect` | `Spec => []TypeOK` |
| `ClassesNeverCollide` | `Spec => []ClassesDoNotCollide` |
| `LimitsHold` | `Spec => []WithinLimits` |
| `RerunsMatch` | `Spec => []RerunMatchesHints` |
| `SupportingHolds` | `Spec => []Supporting` |
| `DelayIsBounded` | `Spec => []BoundedDelay` |
| `FollowupPathsAreKept` | `Spec => FollowupKeepsPaths` |
| `ImplementsLedger` | `Spec => KeepsLedger` |

`TypeOK` and `Supporting` are proved and no longer listed as properties of a
run: the theorems on the other properties rest on them.

`ClassesDoNotCollide` and `RerunMatchesHints` are inductive with the types.
`WithinLimits` is not: `Cardinality` says nothing of an infinite set, and
`Repos` may be infinite, so `BoundedSlots` adds that the in-flight sets are
finite. `BoundedDelay` is not inductive either: the deadline of a queue is the later of
debounce and retry, and an event leaves one of the two alone. What carries it
is `QueuesWellFormed`: a queue that is pending has a first instant and a
deadline, each deadline within its own bound of that instant, and a queue that
is not pending has none. That in turn needs that a running class
awaits no retry (`RunningAwaitsNoRetry`), since an event during a run sets the
debounce of a queue whose retry would otherwise be old, that the follow-up
never reruns (`FollowupNeverReruns`), and that an unwatched repository keeps
nothing (`UnwatchedIsForgotten`), since a new lease starts from what is there.
Together they are `Supporting`; each is a statement about one repository
(`RepositorySupported`), so a step has to be checked for the repository it touches only
(`SupportedAfter`). The ledger needs the same facts: each action changes one
repository of the three functions the ledger sees (`OthersKept`), and maps to
one action of the ledger or to none.

`WatchLeasesProofs` proves, for every number of sessions and repositories, that
`LeaseTypeOK` holds and, while the watcher refuses no root
(`WatchesEverything`, a hypothesis of these two; unwatches may fail), `CountIsExact` and
`LeavesNothing`: `LeaseSpec => []CountMatchesHolders` and
`LeaseSpec => []NothingLeaks`, which excepts the roots the watcher failed to give up. `NothingLeaks` speaks of settled repositories
only and is far from inductive. `LettingGo` says who is still at it: a root
that has no lease and is still watched or mapped has a session at `Unwatch`, and
one the scheduler has, or will have once the commands are consumed
(`WillBeScheduled`), has a session before its `AnnounceReleased`.

`LeasedIsServed` is what `leases_race` finds violated, so it is no theorem. What
is one says that the race of that run is the only way: `ServedUnlessCrossed` is
`LeaseSpec /\ []NothingCrosses => []LeasedIsServed`, where `NothingCrosses` says
that no session is still registering or announcing a root it has counted while
another is unwatching it or announcing its release. It needs no hypothesis on the watcher. Hence
`ServedAlone`: with one session the property holds.

`WatchSupervisorProofs` proves of the composed system, for every number of
sessions, repositories and commands:

| Theorem | States |
|---|---|
| `DrivesTheScheduler` | `SupSpec => DrivesScheduler`: every step is one of the scheduler's, or none |
| `SchedulerFactsHold` | hence `ClassesDoNotCollide`, `WithinLimits`, `RerunMatchesHints`, `BoundedDelay` and the ledger |
| `WritersExcludeEachOther` | `SupSpec => []WritersExclude` |
| `CarriesTheLeases` | `SupSpec => CarriesLeases`: every step is one of the leases', or none |
| `LeaseFactsHold` | hence `CountMatchesHolders` and `NothingLeaks`, while the watcher refuses no root; an unwatch may fail |
| `AttachedStaysServed` | `SupSpec /\ []NothingCrosses => []AttachedIsServed` |
| `AttachedAloneIsServed` | `SupSpec => []AttachedIsServed` with one session |
| `RunningStaysWithItsWorker` | `SupSpec => []RunningHasItsWorker` |

The loop may report a completion only for what is running, and what tells it is
the epoch. `SupInv` says why that is enough: no work is of a later epoch than
the current one (`NoneIsNewer`), work of the current epoch is what the scheduler
believes to run (`CurrentIsActive`), and it is a single worker or completion
(`CurrentIsOne`). Late work of earlier epochs may be anything. `TaskInv` is the
part for the writers: a worker at work has its task registered, no two workers
of a class have one, and an attach-time index holds its repository alone.

The leases see of the mailbox the lease commands only. The mapping takes them
out of it (`LeaseMail`, a recursive function over the length), so what a step
does to the mailbox has to be turned into what it does to them: appending
another kind changes nothing, receiving one either. The induction over the
length is done by hand, by the least length at which it would fail. An instance of
`WatchLeasesProofs` then carries its theorems over to the composed system. They
rest on `SupervisorAssumption` (`WatchFails` and `UnwatchFails` are Booleans, `MaxCalls` a natural number).

`RunningHasItsWorker` needs the other half of `SupInv`: that work of the current
epoch does not get lost. `WorksOrLeaves` says that a refresh the scheduler
believes to run either has its repository registered and a worker or completion
of the current epoch, or has a release that will end it on its way. The
second case is why the lease types are part of `WorkInv`: a repository is out of
the map only while a call of a session is letting go of it.

`IndexPipelineProofs` proves, for every set of paths and versions and every
retention window, from `IndexAssumption` (the markers for "no file" and "no
snapshot" are not versions or manifests, and `Keep` is positive, which the
code's constant is):

| Theorem | States | Indexers |
|---|---|---|
| `IndexTypesHold` | `IndexSpec => []IndexTypeOK` | any |
| `SnapshotsStayWellFormed` | `IndexSpec => []SnapshotsWellFormed` | any |
| `SuccessBounds` | `IndexSpec => SuccessIsBounded` | any |
| `HeadStaysStored` | `IndexSpec => []HeadIsStored` | one |
| `CorpusStaysWithHead` | `IndexSpec => []CorpusMatchesHead` | one |
| `PlansHold` | `IndexSpec => []PlansStillHold` | one |
| `SuccessServes` | `IndexSpec => SuccessIsServable` | one |

`SnapshotsWellFormed` is inductive by itself because it says that *every* set of
stored snapshots has a latest one, which deletions cannot break; that the table
has a latest snapshot alone would not be. The four step shapes of the table
(`StepsOfTheTable`) carry it, and the types follow, since a run loads `Latest`.
`SuccessBounds` counts: the order is transitive and total, so the number of
newer snapshots is different for each, and fewer than `Keep` of them for at
most `Keep` snapshots (`FewAreNew`).

`HeadIsStored` and `CorpusMatchesHead` are not inductive: the write at the end
of a run is right only because of what the run planned long before.
`PlansStillHold` says, phase by phase, what of that is still true: the target is
projected, hence stored, when the corpus moves to it; the files an advance does
not rewrite are right in the corpus already (`AdvanceIsCovered`, from the base the
plan chose); the files it does rewrite hold what was scanned, unless edited
since. It is an invariant of `index_core` as well. All three need that no
other process deletes or moves anything in between (`OneIndexer`); section 3
tells how they fail without it.

`PreciseGenerationProofs` proves, for every set of generators, threads and
changes and without a bound on calls or faults: `OneGeneratorAtATime`,
`FaultsStrand` (`OnlyFaultsStrand`) and `NoPathIsLost` (`NothingIsLost`). A
generator that runs sees the paths of before its start only, so what a path is
brought by must exclude it (`WillBring`), and a thread that has selected its
generators must have selected all that match (`SelectedAll`).

`ManifestCacheProofs` proves, for every number of calls, edits, failures and
session operations:

| Theorem | States | Beside the supervisor |
|---|---|---|
| `InvalidationsHold` | `Spec => []InvalidationHolds` | any session |
| `TrustedEntriesAreCurrent` | `Spec => []TrustedEntryIsCurrent` | any session |
| `OnlySessionsHide` | `Spec => []OnlySessionsHideChanges` | any session |
| `AnswersSeeChanges` | `Spec => []AnswersSeeAcceptedChanges` | none (`MaxSessionOps = 0`) |

None of them is inductive. `CacheInv` has two halves. `WatchInv` is about the
watch alone and says why a refresh may lift the Dirty mark: changes are accepted
in their order and a scan is of no older files than the one before (`InOrder`,
`ScansInOrder`); at most one worker, completion or settling is of the lease that
is held (`OneInFlight`); and it has scanned what is accepted unless another
refresh is asked for (`InFlightCovers`), although events arrive between its
scan and its completion. What each thread has still to do is part of it
(`TodoIsWellFormed`): a bump is followed by its clearing, and what settles the
scheduler comes last, when the callback has run.

The other half is about the caches and the calls. Without a mark the latest
snapshot is current (`UnmarkedIsCurrent`). A freshness answer of the current
epoch, in the cache or about to be inserted, is current too, but between an
accepted change and the end of the epoch by its callback, when the mark is set
already (`FreshIsCurrent`). `IsSound` says what of that a call has found out and may rely on at each
place: one that has read that there is no mark may use the snapshot loaded
later and any freshness answer of the epoch, also when the mark is set in
between. `StaleIsCleared` and `CorpusIsOfSnapshot` are what a cached corpus
needs. The mark, the epoch and the snapshot are read one after the other with
no lock held, and the theorems hold of every order the code allows.

`WorkspaceSessionsProofs` proves, for every number of requests, sessions,
repositories and refusals, from `FiniteAssumption` (requests and sessions are
finitely many, since they are counted):

| Theorem | States |
|---|---|
| `RequestsFit` | the types, and that each request has at its place the guards and locals the code has there |
| `CountsMatch` | `SessionsSpec => []CountsMatchSessions` |
| `CatalogHolds` | `SessionsSpec => []CatalogHoldsWhatIsUsed` |
| `NothingStays` | `SessionsSpec => []NothingStaysOfFailed` |
| `FailedAttachLeavesNothing` | `SessionsSpec => FailedAttachLeavesNoTrace` |

The argument has four layers. `Shaped` is the first theorem. `Counted` makes
each counter a cardinality: the pending count is the number of requests that
resolve the repository (`PendingCounted`), the session count that of its
holders, less the requests that have adopted and not yet counted, plus those
that have let go and not yet counted down; each step moves one request, so it
changes each cardinality by at most one (`StepClass` names the ways). It also
says who claims a repository (`ClaimsHold`), which is where `crossed` comes
from: without that exemption two requests of one session could both claim to
count it down. `Told` says what the attach states tell of the attaches in flight:
no more are in flight than requests hold a guard, and an adoption that nobody
has completed either is marked for rollback, or was left by a request without a
guard that did not answer, or has a request that will speak for it (`Accounted`). `AloneHolds` is for the last theorem: as long as an attach
is its session's only request, the session differs from what it was at the
beginning by what the attach itself has done (`Traces`), and what it has done is
undone on every failing path. While the proof was written, `Accounted`
turned out not to be inductive, and the behaviour that broke it is the
disagreement noted by `forgotten`.

`Vec0Proofs` proves, for every number and size of chunks, every set of rowids,
partitions, vectors and texts and every number of lost clearings:

| Theorem | States |
|---|---|
| `SlotsAndRowsMatch` | `Vec0Spec => []SlotsMatchRows` |
| `NoTextIsOrphaned` | `Vec0Spec => []NoOrphanTexts` |
| `InsertsAreRead` | `Vec0Spec => InsertedRowIsRead` |
| `ImplementsTable` | `Vec0Spec => IsVectorTable` |
| `AnswersAreNearest` | `PlainQueries /\ Vec0Spec =>` a query that does not fail answers the nearest `k` of the rows that satisfy it, always |
| `KnnTrueTopK` | `PlainQueries /\ MaxLost <= 1 /\ Vec0Spec => []KnnIsTrueTopK` |

`SlotsMatchRows` and `NoOrphanTexts` are inductive with the types; the refinement needs besides
that every live row can be read (`RowsAreRead`), since a view of a long text
whose row is gone would not be a text.

The two theorems on the search follow its code: what `min_idx` picks are the
nearest of the candidates of a chunk (`MinIdxIsTop`), the merge of two sorted
lists cut off at `k` is a nearest `k` of both (`MergeIsTop`), the condition on
the views agrees with the condition on the texts (`EqualityIsEquality`), so
the answer over all chunks is a nearest `k` of the matching rows (`GatheredIsTop`).
The recursions are functions on the numbers; each is proved by the least number at which the claim
would fail. A tie may be decided either way, so a "nearest `k`" is any set of
`k` hits none of which is farther than one left out. The state they need is
`ViewsMatchTexts`: the view of a live row is of its own text. What a deleted row
left in its slot may be anything, since the validity bits mask it.

`PlainQueries` says that distances are numbers and that texts are compared by
equality or inequality, if at all; section 3 tells how the search fails
otherwise. `MaxLost <= 1` is needed only for "and does not fail": the condition
looks at a slot before the validity bits mask it, and a slot whose clearing was lost
keeps a view of a long text. Its text is kept too (`LongViewsLeft`), unless the
rowid is inserted again, with a short text, into another slot with a
lost clearing, which removes the text the first slot still refers to. A query whose
text agrees with that view then fails. It takes two lost clearings.

Model-checked only, in the instances above, is everything that is liveness:
`EveryChangeSettles`, `FollowupRuns`, `UnleasedIsLetGo`, `SlotsAreFreed`,
`DirtyIsRefreshed` and `PreciseWorkSettles`. `SweepMissesNone` is
model-checked only as well; every other invariant and every action property of a
passing run is stated by a theorem.

## 5. Not modelled

Within the modelled components:

* wording, events, queue snapshots and progress reports;
* the notify filter (which paths count) and the mapping of events to repositories by path prefix: an `Event` names its repository;
* in the index run: walking and hashing (a scan is one step that may fail), path hints that narrow a scan, batches and retries of embedding calls (one step that may fail), the families of projections (one flag per snapshot), several provider models (one), and chunks within a file (one version per path);
* of the task registry: the kinds that neither index nor generate;
* of the caches: response caches other than the freshness answer, the symbol corpus and the projections, which are filled and invalidated in the same way;
* of precise generation: reading artifacts into the graph, and which workspace roots a generator runs in;
* of `vec0`: SQL and its cursors, the distance functions, int8 and bit vectors, several columns of a kind, and metadata types other than text;
* of the sessions: choosing a repository for a call, and the wait for an attach to become ready. `ReleaseLease` is the release of the lease and the pruning together.

Components without a module, with the reason, are in `components`: they are
read-only, pure parsing or ranking, network calls that succeed or fail,
sequential commands, or generated. By lines the repository is mostly the last:
the parser tables of two tree-sitter grammars, nearly three hundred thousand
lines of C, have no behaviour to model beside the library that interprets
them. What they outweigh is the program itself, which is Rust, and the vector
extension, of which the part that keeps state is modelled.

## 6. Possible continuations

* A model of the detach that keeps the attach states until its end, to see
  whether `forgotten` and part of `crossed` go away with one critical section.
* `ManifestCache` with `WatchScheduler` in place of its four flags of one queue.
* The portable cache: install and rollback with a crash between its steps.
* Pure algorithms: managed-block edits of configuration files, result ordering.
