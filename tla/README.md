# Routing graph packager: a TLA+ verification of its coordination

This directory holds TLA+ models of the routing graph packager, the TLC runs that
check them on small instances, and TLAPS proofs of what matters most for instances
of any size. The models are translated from `src/routing_packager_app/`; the
correspondence is recorded definition by definition in `PROJECT.json` (`map`).

The packager cuts zip files ("packages") of Valhalla tiles out of a planet-sized
routing graph and keeps them up to date. Four kinds of process take part: one API
server, an arq worker, a graph builder per provider, and Postgres and Redis
between them. Builder and worker share a volume with the graphs, worker and API
server one with the packages. Most of what can go wrong is in the order in which
these processes touch what they share.

## 1. Inventory

| component | source | state it keeps | operations | model |
|---|---|---|---|---|
| graph locks | `utils/lock_utils.py`, `GraphLock` in `api_v1/models.py` | table `graph_locks`: leases on directories, with mode and expiry | attempt, acquire with timeout, release, reap | `LockTable`, `GraphLocks`, `Leases` |
| graph generations | `graph_build/builder.py`, `lock_generation_shared` | generation directories, the `graph` symlink, `graph.tmp` | prune, build, write metadata, swap; resolve and lock | `GraphGenerations`, `GraphStore`, `Leases` |
| packages: jobs API | `api_v1/routes/jobs.py` | table `jobs`, package directories | POST, DELETE (and two GETs that change nothing) | `PackageJobs`, `PackageLife` |
| packages: worker | `worker.py`, `utils/file_utils.py` | zips and their metadata, status of the rows | `create_package`, `update_all_packages` | `PackageJobs`, `PackageLife` |
| build run | `graph_build/__main__.py`, `builder.py` | `_stop`, `_current`, the PBF, the subprocess | `main`, `run_once`, `run_scheduled`, `run_build`, signals, enqueueing of updates | `BuildRun`, `Publications` |
| build status | `graph_build/status.py` | `BUILD_STATUS` in memory, `build_status.json` | `reset`, `stage`, `idle`, `failed`, heartbeat | `BuildRun` |
| health, readiness | `api_v1/routes/health.py`, `readiness.py` | none | reports | partly: `resolve_graph` in `GraphGenerations`, the status file in `BuildRun` |
| API keys, authentication | `api_v1/auth.py`, `routes/api_keys.py` | table `api_keys` | make, patch, delete, check, run out | `Accounts` |
| users | `routes/users.py` | table `users` | make, delete with the jobs set free | `Accounts` |
| tile selection | `utils/valhalla_utils.py`, `utils/geom_utils.py`, `dependencies.py` | none (pure) | bounding box to tiles | `Tiles`, `Accounts` |
| database set-up | `db.py` | the schema | one transaction under an advisory lock | not modelled |
| configuration, metrics, logging, app factory | `config.py`, `metrics.py`, `logger.py`, `main.py`, ... | settings, counters | wiring and reporting | not modelled |

How they interact:

- **builder and worker** meet in the `graph` symlink and the lock table only. The
  builder holds the provider's *build lock* from before the pruning until after
  the swap, and an exclusive lock on each generation while it deletes it. The
  worker resolves the link, takes a shared lock on what it found, checks that the
  link has not moved, and tries again if it has.
- **API server and worker** meet in the row of the job, in the package's directory,
  and in Redis: the key of the task, its place in the queue, the in-progress key
  and the result, all under one arq id made from provider and name.
- **builder and worker** meet a second time through Redis: after a swap the builder
  enqueues `update_all_packages`.
- **builders of one provider** share the PBF and the status file.
- **users and jobs** meet in the foreign key of a row, and a second time in the task,
  which carries a copy of the user it was posted for.

Which behaviours are hard: a lease can expire under a live process and outlives a
dead one; the link can move between any two steps of a worker; a delete can remove
a directory while the worker writes into it; arq drops tasks silently; a process
can die or a transaction be refused between any two steps; builders are signalled,
fail and are restarted; the handlers of users and keys run in threads, on what they
read some time ago. `PROJECT.json` lists these under `hazards`, each at its
line, with the properties that would catch it going wrong. What makes each
component correct is the list of properties in section 3.

## 2. Modules

### `LockTable`, `GraphLocks`: the leases

`LockTable` has the table and the statements of `_try_acquire` and `_release` as
operators: `Reap`, `Conflicts`, `Granted`, `Denied`, `Released`. An attempt is one
step because the code takes a lock on the table first (`lock_utils.py:62`).
`GraphLocks` puts them under a clock: `_acquire` with its deadline and its naps
(`Call`, `TryGranted`, `TryRefused`, `Wake`), holders that take as long as they
like or die (`Release`, `Crash`), and `Tick`. Attempts are due before the next tick,
so the timing properties are about the polling and not about a slow machine.

### `Leases`: what the table is for

A set of leases, each with its id, directory and mode. One is taken when the others admit
it (`Take`) and any number of them end together (`End`); there is no row that has expired,
no reaping, no polling and no clock. `GraphLocks` implements it with its clock and
`GraphGenerations` without one, through the same mapping `leases <- LeasesOf(rows)`, the
live rows. That is the sense in which the abstract time of `GraphGenerations` stands for
the clock of `GraphLocks`.

### `GraphStore`: what the graph side promises

No locks, no link, no processes: whole graphs are stored, the current one is only
replaced by a newer one, a reader starts on the current one, and nothing that is
current or being read is given back.

### `GraphGenerations`: how it is kept

`run_build` from the grant of the build lock to its release, with
`prune_generations`, `build_graph`, `write_build_meta` and `swap_graph_link`
(`StartBuild` ... `ReleaseBuildLock`), and `lock_generation_shared` around the body
of `create_package` (`StartJob` ... `FinishJob`). `rmtree` is two steps, with a
directory that is neither whole nor gone in between. `Fail` is any exception of a
build; `CrashBuilder` and `CrashWorker` leave rows and files behind. Time is
abstract: a lease is live or expired, a waiting process retries or gives up.

Three constants name what the code takes for granted. `GRAPH_LOCK_TTL` is four days by
default and nobody renews a lease, so any of the three kinds of lock may run out:

- `TimelyBuilds`: the build lock does not run out under its builder. Everything rests on
  it: a second builder would list, delete and swap beside the first.
- `TimelyJobs`: no shared lock runs out under the worker that has it. Without it, a job
  that overruns its lease loses its graph (run `graph_lease_expiry`), but no other job
  does (`LeasedGraphsStay`), and nothing else of this module depends on it.
- `RmtreeIsReliable`: `rmtree(ignore_errors=True)` leaves nothing behind. Without it
  the bound on the disk does not hold (run `graph_rmtree`).

The third kind, a pruner's lock on the generation it removes, may always run out: a
worker that gets the directory then finds in `_is_current` that the symlink is elsewhere,
and lets go of it.

Refinement: `current <- link`, `stored <-` the complete directories, `reading <-`
the resolved generation of each worker inside the `with` block whose lease is live
(`ReadsUnderLease`); that a lease runs out under its job is an `End` of the store. Every
other step of the detailed module is a stutter of the store.

### `PackageJobs`: rows, directories, tasks

A job is the k-th row posted under a name, a name stands for provider and name
together. The API server is one process with one event loop, so a handler is cut
into steps at its awaits (`post_job`: before and after `enqueue_job`; `delete_job`:
at the deletion of the task's key) and after its last await no other handler moves
(`LoopIsFree`). The worker is another process: the removal of a directory is cut
in two, because a worker can act between the unlinking of the files and the
`rmdir`. The coroutines of the worker never await, so a worker runs one job at a
time; `create_package` is cut where it touches the row, the lock, the zip, the
metadata, the directory and the row again. `update_all_packages` reads the rows once
and calls `create_package` for each.

A create that failed removes its directory with `rmtree(ignore_errors=True)`, and the row
says `Failed` whatever came of it. That it went is `Cleanup`; that the zip, the metadata or the
bare directory stayed is `CleanupFails`, one of the faults. `kept` has the names this
happened to since they were last posted: a name whose directory stayed is refused, with
nobody using it.

Redis as arq uses it is external and modelled from how the code uses it:
`enqueue_job` with a `_job_id` does nothing when a task or a result of that id
exists; a task whose key is gone is dropped and leaves a result; the end of a task
deletes by arq id; an in-progress key of a dead worker outlives the task it picked.

The build process is not one of its own here: `SwapGraph` and `EnqueueUpdates` are the two
actions of `Publications`, together with what they do to the queue. An announcement can
come after the next swap, or not at all.

Left out: the look-up of the user at the head of `create_package`, which is in
`Accounts`, and the mail handler; two providers differ in the name only.

### `PackageLife`: what clients can count on

The status of a job, the graph its package was last written from, and the jobs that made
a package nobody has reported yet; no directory, queue, worker or crash. A status takes no
other way than Queued or any other, Compressing, Completed or Failed, and gone;
`Completed` is said only of a package that was made since the job was last set to work;
nobody writes over a package that is about to be reported; and no package is written from
a graph older than the last one was. `PackageJobs` implements it: `state <- StateOf`, where a row
that was never posted is unborn and one that was deleted is gone, `from <- madeFrom`, and
`made <-` the jobs of the workers whose `ok` is set.

### `Publications`: what the builds promise to the packages

The link is swapped, and update_all_packages is enqueued later, at most once for each swap and
never before it. `BuildRun` implements it with all that can happen between the two.

### `BuildRun`: from `main` to the exit code

Builders with a schedule and builders with `--once`, one provider. `run_build` step
by step, with the stage each step writes to the status file, the PBF and what a
failed download leaves of it, the update passes of pyosmium, the swap, the
enqueueing; `handle_signal`, which terminates the subprocess only if it sees one; a
kill and a restart. The build lock is held by somebody or nobody here; what it takes
to be held is `GraphGenerations`.

Every builder has its own copy of the status in memory and writes all of it. A write may
fail, which `_write` swallows: then memory is ahead of the file (`missed`) until the next write or
heartbeat. Postgres may fail to answer before the lock is granted (`AttemptFails`) and
when it is released (`UnlockFails`); whether the row is there afterwards is open, and a row
nobody holds runs out (`LeaseExpires`). After a swap a release that fails ends the run as
failed, with nothing enqueued, as an enqueueing that fails does (`EnqueueFails`). Lost writes,
failing calls of Postgres and kills share one bound, `MaxFaults`; failing subprocesses and a
Redis that does not answer have none.

### `Tiles`: which tiles a package gets

Operators only: the boxes `split_bbox` accepts (`ValidBox`), `get_tile_bbox` (`TileBox`)
and `get_tiles_with_bbox` (`TilesWithBox`), and against them what a package is for
(`Needed`): the tile of every level at every place in the box. Coordinates are integers
in a unit that divides all tile sizes (a multiple of a quarter of a degree divides
4, 1 and 0.25), where the floating-point arithmetic of the code is exact.

### `Accounts`: who ordered what

Users and API keys with the handlers of `users.py` and `api_keys.py`. They are plain
functions, so FastAPI runs them in threads: a deletion and a PATCH are a step that
reads and a step that commits, and anything may happen between the two. `delete_user`
leaves the jobs of the user without one (the relationship sets the foreign key of the
jobs it read to NULL), and fails if one of them is gone or a new one came up
(`CannotDelete`). A PATCH writes the columns whose value differs from what it read
(`Patched`). `post_job` is cut between its checks and its commit (`StartPost`, `Post`). A
task carries the user it was posted for; `create_package` does nothing to a row when
that user is gone (`UserMissing`), and `update_all_packages` hands on the user each row
had when it was listed. Making a package is one step here; its insides are
`PackageJobs` and `GraphGenerations`. `Accounts` extends `Tiles`: a package has a box and
gets the tiles `TilesWithBox` selects from the graph.

## 3. Runs

All bounds are constants of the `.cfg` files. Deadlock is not checked: the bounds on
generations, posts, crashes and starts let a system stop that has nothing left to do.

| run | instance | shows |
|---|---|---|
| `graph_generations` | 2 builders, 2 workers, 3 generations, 1 attempt, 1 crash, jobs and pruners overrun | see below |
| `graph_generations_live` | 2 builders, 1 worker, 2 generations, 1 crash | builds and jobs end, builds step by step; the build lock comes free |
| `graph_locks` | 2 clients, 2 paths, lease 3, interval 2, timeouts 0 and 3 | the polling against the clock |
| `package_jobs` | 1 name posted twice, 2 requests, 1 worker, 2 graphs or 1 graph and 1 fault | rows, directories, zips and tasks agree; what clients see of a job |
| `build_run` | 1 scheduled and 1 `--once` builder, 2 starts, 2 graphs, 1 fault, 2 passes | swaps, status, PBF, signals, announcements |
| `accounts` | 1 user and the admin, 1 key, 2 jobs, 2 threads, 3 requests, 2 graphs, 1 night, 3 boxes | orders outlive users and keys; tiles of a box |
| `graph_lease_expiry` | 1 builder, 2 workers, 2 attempts, no crash, jobs overrun | violated: a reader loses its graph |
| `graph_rmtree` | as `graph_generations`, no job overruns | violated: three generations on disk |
| `package_jobs_repost` | 1 name posted twice | violated: a job stays Queued for ever |
| `package_jobs_names` | 1 name posted twice | violated: two rows share a name |
| `build_run_exit` | 1 `--once` builder, started once | violated: exit code 1 after a swap |
| `build_run_restart` | 1 scheduled builder, restarted | violated: a sleeping builder is reported building |

**`graph_generations`** checks that one build runs at a time (`OneBuildAtATime`), that a
reader's graph stays whole while its lease lasts, whoever else overruns one
(`LeasedGraphsStay`), that the link points at a whole graph (`CurrentGraphIsComplete`) and
only moves forward (`LinkMovesForward`), that the disk holds at most
`KEEP_GENERATIONS + 1` generations (`AtMostKeepPlusOneOnDisk`), that the whole implements
`GraphStore` (`ImplementsStore`), and the inductive invariant of the proofs (`GraphInv`).
Four more properties follow from these and are stated and proved, but have no place of
their own in the run: where no job outlives its lease, no job loses its graph
(`ReadersKeepTheirGraph`, from `LeasedGraphsStay`); nobody takes away the directory that is
being filled (`BuildInProgressSurvives`, a conjunct of `GraphInv`); no pruner is after the
current graph (`PrunersSpareTheCurrentGraph`, from `ExclusiveRowsAreOld` in `GraphInv`); and
a link that could be resolved always can, which is what the readiness check asks
(`ReadyStaysReady`, from `CurrentGraphIsComplete` and `LinkMovesForward`).

Three generations are enough for a reader on the oldest, the current one and the one
being built at the same time; two builders and two workers for every pair of processes;
one crash for a successor to find leftovers of each step. One attempt is enough for
safety: after a failed attempt that may be repeated and after one that may not the worker
holds nothing and has resolved nothing, and a new job resolves the link again as a new
attempt does. The run below has two attempts, and the proofs remove all these bounds.

**`graph_generations_live`**: every build and every job ends (`BuildsEnd`, `JobsEnd`), and
the build lock can be taken again and again (`BuildLockComesFree`). Why a build ends is in
a property of single steps: each step makes `BuildLeft` smaller, or leaves the step and the
list alone while it waits (`BuildsGetOn`), so the pruning loop goes through its list once
and there is no way back into it. `JobsGetOn` says the same of a job, whose attempts are
used up one by one however often the link moves; it is proved, and so is that what builders
and workers do to the rows is what `Leases` allows (`ImplementsLeases`), which the run of
`graph_locks` checks under the clock. Two generations and two attempts make both loops go
round.

**`graph_locks`**: two processes that believe to hold a lock, with leases that have not run
out, both hold it shared (`HoldersAgree`); a call never overstays its deadline
(`DeadlinesAreMet`), notices a free lock within one interval (`FreeLocksAreNoticed`) and
returns (`AcquireReturns`); a holder that overran its lease releases nobody else's
(`LeasesAreOnlyEndedByTheirHolders`); the whole implements `Leases` (`ImplementsLeases`). The
timeout is longer than the interval and no multiple of it, so the last nap is cut short.

**`package_jobs`**: a `Completed` package is whole, as long as its name is posted once
(`CompletedPackagesAreWhole`; `package_jobs_names` shows why the condition is needed); a
create that failed frees its name, unless `rmtree` left something
(`FailedCreatesFreeTheName`); a directory without a row is work in progress or somebody was
told (`OrphansAreReported`); after the updates of a build no package is on an older graph
(`PackagesKeepUp`); while nothing fails, no job is forgotten (`WaitingJobsAreInWork`): one that
says `Compressing` is in a worker's hands before its last commit, whatever happened to
its row or directory, and one that says `Queued` has its task in the queue, a request that is about
to put it there, or a worker that is about to begin. Two exceptions of the latter are real: a name
that is posted again (run `package_jobs_repost`, which states the same as the liveness property
`JobsComeToAnEnd`), and a killed worker, whose in-progress key outlives the task (the
hazard at `worker.py:257`). What a client sees of a job is `PackageLife` (`ImplementsLife`). It
needs one worker: two of them, an update and a create, can open the zip of one name in the wrong
order, and the package goes back to an older graph.

One name suffices: packages interact through their name only, but for the worker that takes
one after the other, and in which order it does is open. Two posts of it and two requests at a time
give the overlaps of POST, DELETE, create and update. `FewBuildsAndFaults` keeps two graphs and a fault
from coming together: properties that speak of two graphs (`PackagesKeepUp`, no package from an older
one) get both without a fault, those about what a fault leaves behind one graph with it. All of
the properties are proved without these bounds.

**`build_run`**: every swap has its `update_all_packages`, or failed or died on the way
there, or is on that way, and the exit codes agree with that (`SwapsAreAccountedFor`): there
are no more codes 0 than updates, none of them without a swap, no more codes 1 after a swap
than swaps without an update, and 75 is said of a run that did nothing. That 1 comes after a
swap at all is against `src/README.md`, which is the run `build_run_exit`.

The status file says idle only while no build runs, for a provider with one builder and
unless the last write was lost (`IdleMeansNoBuild`); the error of a failed build stays in the
file until the next build begins, through sleeps, skipped runs, late heartbeats and lost
writes, for a provider with one builder (`ErrorsAreKept`). With two neither holds: each
writes its own status over the other's, and the hazard at `__main__.py:202` says so.

Tiles are built from data of the same run (`TilesComeFromFreshData`), except after a
download that was cut short. A signalled builder stops (`SignalledBuildersStop`), which says
nothing of how soon: a signal between two subprocesses lets the build finish. How soon at
the latest is in `LastRunsGetOn`: from the signal on, and in a builder with `--once` from its
start, each step makes `StepsLeft` smaller, which is `MaxPasses + 15` at most.
`ImplementsPublications`: whatever fails, dies or is started again, what the worker is told is
what `Publications` has.

One fault is enough for a lost write whose trace the next one has to remove, for a kill and
a restart, and for a row nobody holds after a call of Postgres that failed; with it, failing
subprocesses, signals and a Redis that does not answer come in any number.

**`accounts`**: a package that can be downloaded has every tile the graph has for its box
(`PackagesCoverTheirBox`); after the updates of a build no package is behind, except
that one whose user was deleted while the list was worked through misses that one graph
(`PackagesFallBehindByOne`); a job that waits gets its turn unless its user is deleted
(`QueuedJobsAreMade`); overlapping PATCHes of a key each do what they ask for and nothing
else (`PatchesDoAsAsked`); deleting a user fails only if a job of theirs was posted or deleted
meanwhile (`DeletionsFailInRacesOnly`); no row names a user who is gone (`TypeOK`). The three
boxes lie across the border of two tiles and end on that of others, outside the graph, and inside out; three
requests make room for an order, a deletion and one that overlaps it. The tile sizes
are the real ones, in eighths of a degree.

### Findings

Each of the six violated properties quotes a line of the repository;
`PROJECT.json` has the details.

1. A packaging job that takes longer than `GRAPH_LOCK_TTL` loses its generation while
   it reads (`lock_utils.py:78` against `:137`). The compose file for local use sets 300 s.
2. A generation that cannot be deleted is logged as pruned and the build goes on with
   more than two on disk (`builder.py:135` against `builder.py:8`).
3. A name that is deleted and posted again within the hour arq keeps results gets a row
   and no task: it stays `Queued` (`routes/jobs.py:133`).
4. A job that failed keeps its row and frees its directory, so that its name can be
   posted twice; deleting the failed row then deletes the other's package
   (`file_utils.py:23` against `src/README.md:43`).
5. A build whose enqueueing fails after the swap exits with 1 and logs that it keeps the
   current graph, while the new one serves (`__main__.py:120` against `src/README.md:149`).
6. A scheduled builder that was killed during a build and started again sleeps until the
   next occurrence while the status file says it is building (`__main__.py:180`).

## 4. Fairness

- `GraphGenerations!FairSpec`: weak fairness of each process that is inside a build or
  a job, and of `Expire`. A live process is scheduled and its polling loops end in a
  grant or a refusal; leases expire because time passes. `StartBuild`, `SkipBuild`
  and `StartJob` have none: nobody has to build or package.
- `GraphLocks`: time passes (`Tick`) and a waiting client is scheduled (`Attempt`, `Wake`). No
  holder has to release.
- `PackageJobs`: accepted requests are handled, the worker is up and polls, in-progress
  keys expire. Nobody has to post, delete or build, and `ResultExpires` has none.
- `Accounts`: the worker is up. Nobody has to ask for anything, and a request that was
  started need not be finished.
- `BuildRun`: a running builder goes on, its subprocesses end, and leases run out. `Start`,
  `Signal`, `Heartbeat` and `Crash` have none.

Failures are alternatives of the fair actions, so no property relies on success.

## 5. Proofs

Checked by TLAPS for every value of the constants: any number of builders, workers,
clients, names, requests, users, generations, crashes, any `KEEP_GENERATIONS`, lease,
interval and tile size. The modules' own assumptions (`GenerationsAssumption`, `NoRowAssumption`,
`LocksAssumption`, `PackageAssumption`, `BuildAssumption`, `TilesAssumption`, `AccountsAssumption`)
give the constants their shape; what else a theorem assumes is in the last column.

| module | theorem | says | assumes |
|---|---|---|---|
| `LockTable_proofs` | `GrantKeepsCompatible` | a grant without conflicts keeps the table free of conflicts | |
| `GraphGenerations_proofs` | `TypeCorrect` | `[]TypeOK` | |
| | `GraphInvHolds` | `[]GraphInv` | `TimelyBuilds` |
| | `OneBuildHolds` | `[]OneBuildAtATime` | `TimelyBuilds` |
| | `LeasesKeepGraphs` | `[]LeasedGraphsStay` | `TimelyBuilds` |
| | `ReadersAreSafe` | `[]ReadersKeepTheirGraph` | `TimelyBuilds`, `TimelyJobs` |
| | `CurrentGraphIsServed` | `[]CurrentGraphIsComplete` | `TimelyBuilds` |
| | `BuildsInProgressSurvive` | `[]BuildInProgressSurvives` | `TimelyBuilds` |
| | `CurrentGraphIsSpared` | `[]PrunersSpareTheCurrentGraph` | `TimelyBuilds` |
| | `LinkOnlyMovesForward` | `LinkMovesForward` | `TimelyBuilds` |
| | `ReadinessHolds` | `ReadyStaysReady` | `TimelyBuilds` |
| | `BuildsDoGetOn` | `BuildsGetOn` | |
| | `JobsDoGetOn` | `JobsGetOn` | |
| | `GenerationsImplementLeases` | `ImplementsLeases` | |
| | `DiskBoundHolds` | `[]AtMostKeepPlusOneOnDisk` | `TimelyBuilds`, `RmtreeIsReliable` |
| `GraphStore_proofs` | `GenerationsImplementStore` | `ImplementsStore` | `TimelyBuilds` |
| `GraphLocks_proofs` | `TypeCorrect`, `LocksInvHolds` | `[]TypeOK`, `[]LocksInv` | |
| | `HoldersDoAgree` | `[]HoldersAgree` | |
| | `DeadlinesHold` | `[]DeadlinesAreMet` | |
| | `FreeLocksAreTaken` | `[]FreeLocksAreNoticed` | |
| | `LeasesLast` | `LeasesAreOnlyEndedByTheirHolders` | |
| | `LocksImplementLeases` | `ImplementsLeases` | |
| `PackageJobs_proofs` | `TypeCorrect`, `JobsInvHolds` | `[]TypeOK`, `[]JobsInv` | |
| | `FailuresFreeTheName` | `[]FailedCreatesFreeTheName` | |
| | `NoJobIsForgotten` | `[]WaitingJobsAreInWork` | |
| | `OrphansAreKnown` | `[]OrphansAreReported` | |
| | `CompletedMeansWhole` | `[]CompletedPackagesAreWhole` | one worker |
| | `PackagesAreKeptUp` | `[]PackagesKeepUp` | one worker |
| | `JobsImplementLife` | `ImplementsLife` | one worker |
| `BuildRun_proofs` | `TypeCorrect`, `RunInvHolds` | `[]TypeOK`, `[]RunInv` | |
| | `OneBuildAtATime` | one builder at a time is past the build lock | |
| | `SwapsAreAllAccountedFor` | `[]SwapsAreAccountedFor` | |
| | `IdleIsTrue` | `[]IdleMeansNoBuild` | |
| | `TilesAreFresh` | `[]TilesComeFromFreshData` | |
| | `ErrorsStay` | `ErrorsAreKept` | |
| | `BuildsImplementPublications` | `ImplementsPublications` | |
| | `LastRunsDoGetOn` | `LastRunsGetOn` | |
| `Tiles_proofs` | `OutsideMeansApart` | the comparisons leave out exactly the tiles apart from the box | |
| | `PlacesLieInTheirTile` | numbering and `get_tile_bbox` are inverse to each other | |
| | `NeededTilesAreSelected` | `Needed` is part of `TilesWithBox` | |
| | `SelectedTilesMeetTheBox` | nothing else is selected | |
| `Accounts_proofs` | `TypeCorrect`, `AccountsInvHolds` | `[]TypeOK`, `[]AccountsInv` | |
| | `PackagesAreComplete` | `[]PackagesCoverTheirBox` | |
| | `PackagesAreRecent` | `[]PackagesFallBehindByOne` | |
| | `PatchesKeepToTheirFields` | `PatchesDoAsAsked` | |
| | `OnlyRacesStopDeletions` | `DeletionsFailInRacesOnly` | |

**Graph generations.** `LeasedGraphsStay` is not inductive. That a pruner does not delete the
directory of a reader takes three things. What each process remembers as its lock is, as
long as it is live, a row of its own, on the path and in the mode it thinks, and live rows
are compatible (`LeaseInv`): so nobody reads a generation at the moment its pruner is
granted the lock. From then on nobody begins to (`RemovalsAreUnread`), and that does not
rest on the pruner's lock, which may run out, but on the check of the symlink: the
pruner's list, made some steps ago, still does not contain the current graph
(`PrunersKeepToOldGenerations`). That in turn holds because the link moves under the build
lock only. `ExclusiveRowsAreOld` ties leases and directories together: the exclusive row of
a pruner, a killed one included, never stands on the current graph nor on the one that is
being built. `GraphInv` is the conjunction, and `GraphGenerations_proofs` shows
`Init => GraphInv` and, action by action, that every step preserves it; `ReadersStay` is the
part all steps share that move no reader. `LeasesKeepGraphs` takes `TimelyBuilds` alone, and
`ReadersAreSafe` adds `TimelyJobs`, under which a worker's row is live as long as it reads.
The last part adds `PruningMakesRoom`: while a builder prunes, what is on disk and not on
its list is `KEEP_GENERATIONS` directories at most; with `FS_Subset` and `FS_AddElement` this
bounds what the next `mkdir` adds to. `GraphStore_proofs` maps each action to a step or a
stutter of `GraphStore` under `GraphInv`.

`BuildsGetOn` and `JobsGetOn` need neither `TimelyBuilds` nor `GraphInv`: the one invariant
beside the types is that a pruner's target is on its list (`TargetsAreListed`), without which
leaving it would not make the list shorter. The sizes of the lists are bounded by
`ListsAreShort`.

**Leases.** A grant adds one lease, which the others admit (`GrantTakesLease`); a refusal,
which reaps, changes none (`RefusalKeepsLeases`); and whatever else touches the table leaves
a part of them (`FewerLeases`). Both refinements rest on these three lemmas of
`LockTable_proofs` and on the types, so they hold with leases that run out under any holder:
then a lease is what somebody has until it ends and nothing more, which is why one build
at a time needs `TimelyBuilds` beside it.

**Graph locks.** `LocksInv` has the compatibility of the live rows, which
`GrantKeepsCompatible` preserves; that a holder's row is its own and is there as long as its
lease runs, so that a late release finds nothing of anybody else's; and that a nap ends
by the deadline and by the next poll.

**Package jobs.** A job is told from the next one of its name by its number, so first
everything anybody remembers of a job has to be about one that was posted
(`JobsAreNumbered`): a POST then makes a row no worker and no request is about. With it,
the directory of a create that failed is gone before its row says so, or its name is in
`kept` (`FailuresAreCleanedUp`), and a directory without a row is being removed or was reported
(`OrphansAreUnderWay`). These hold for any number of workers. That a Completed package is whole
(`WholeInv`) and on the latest graph (`KeepUpInv`) needs one worker, as the compose files
start it: two could write into one zip. `KeepUpInv` says that what is at work is at work on
the latest graph no update is queued for, and that a package on an older one is still on
the list of the update that runs. TLC checked both with the constants of `package_jobs`.

`NoJobIsForgotten` needs to know what Redis does not know yet. arq refuses a task it has a key
or a result of, so the first job of a name is enqueued only if nothing of that name is
there: `NamesAreNew` has that as long as the name was not posted, and `FirstTasksAreNew`, with
`JobsAreNumbered`, from the POST to its `enqueue_job`. A task in the queue is picked unless an
in-progress key is in its way, and without a fault that one belongs to a worker that has the job in hand
(`PickedIsInHand`). A worker past its first commit leaves no `Queued` behind
(`BegunIsNotQueued`). `WaitInv` is the conjunction; it holds for any number of workers.

`JobsImplementLife` takes `PackagesFollowGraphs` to `JobsInv`: the graph a worker is about to write from is no
older than the one the package was written from last, which with one worker holds from the moment it
locks the graph. The proof has one step per action and gives for each the step of
`PackageLife` it takes: a failed update is `Fail`, a commit after the deletion of the row is
`Forget`, and what happens in Redis alone is a stutter.

**Build run.** `RunInv`: who is past the build lock holds it; what a process remembers of
its run agrees with where it is; a provider's only builder that builds has the file say what it
has in memory, unless the last write was lost; and the PBF is fresh from the step that makes it so.
`SwapsAreCounted` and `ExitsAreCounted` are the two counts behind `SwapsAreAllAccountedFor`: of the builders on
their way from a swap to its update, and of those that came through or failed there, each of
whom has an update or a lost swap of its own (`OneMoreIsCounted`). `ErrorsStay` follows step by
step (`StepKeepsErrors`): whoever knows of an error writes it, the first stage of a build apart.

`BuildsImplementPublications` rests on the count behind `SwapsAreCounted`: a builder past its swap has
swapped something nobody announced yet (`UnderWay`), whoever else did or died there.
`LastRunsGetOn` needs the types only.

**Accounts.** `PackagesFallBehindByOne` speaks of the moment nothing is pending; in between,
`RowIsRecent` relates a package to the graph the running update is for: what is listed for
a user is at most one graph behind yet, what is not listed any more only if its user
was deleted, and what is listed for nobody will be made in any case. `RowIsTrue` carries that a
row's user is who ordered it or nobody, and the box of a row is valid, from which
`NeededTilesAreSelected` gives `PackagesCoverTheirBox`.

Only model-checked: everything temporal under fairness (`BuildsEnd`, `JobsEnd`,
`BuildLockComesFree`, `AcquireReturns`, `SignalledBuildersStop`, `QueuedJobsAreMade`), which is out of
the prover's reach, and the properties that do not hold. Of
`BuildsEnd`, `JobsEnd` and `SignalledBuildersStop` the part that is about single steps is proved: no step
goes back (`BuildsGetOn`, `JobsGetOn`, `LastRunsGetOn`). What stays with TLC is that steps are taken.

## 6. What the models leave out

- A generation's name is the second it was created in. The models number generations in
  order; two builds within a second and a clock that is set back are not modelled.
- The staged link is made by an unlink and a symlink, which is one step here.
- Errors of the database in a worker are covered by its crash, those in an API handler by
  the commits that are refused (`PostFails`, `RemoveRowFails`) and the crash of the server, those of a
  builder by `Fail` and `CrashBuilder` in `GraphGenerations` and by `AttemptFails`, `StepFails` and
  `UnlockFails` in `BuildRun`.
- `delete_job` removes the directory with an `rmtree` whose errors are not ignored. The one that is
  modelled is the directory a worker put a file into; a volume that refuses to delete is not.
- One API process and one event loop; one worker, as the compose files deploy them.
- `delete_job` is documented to stop a job in progress; it deletes the key of the task only
  and a worker that already picked it goes on. The model has that behaviour.
- The validity check of `GRAPH_BUILD_CRON`, which exits before anything is done.
- The smoke tests of the health endpoint (Redis, Postgres, the output directory), what arq
  writes about itself, logs and metrics read what the modules have and write nothing
  back; there is no state of theirs to be wrong about.
- Passwords, their hashes and the value of a key: a caller of `Accounts` is who they say
  they are. A PATCH that sends an explicit null.
- Boxes that are not numbers (`float()` takes `nan`), and the conversions of a box to WKT and
  WKB and back.
- The mail handler of the worker: `src/README.md:188` announces mails, but the handler is
  attached only to a logger without handlers, and the logger always has some.
- Configuration, the set-up of the database and the application factory: they run once,
  before anything the modules have, and end the process when they fail.

## 7. How the modules build on each other

`LockTable` is under `GraphGenerations` (with builders and workers, and `GraphStore` as what
they promise) and `GraphLocks` (with the clock); both implement `Leases`. `Tiles` is under
`Accounts`. `BuildRun` implements `Publications`, and `PackageJobs` has the steps of `Publications` for its
builds and implements `PackageLife`, so that what clients are told rests on what the builders do and
on nothing else about them. `Accounts` stands beside them and meets them in the steps they
share: the swap and the announcement of a graph (`Publish`) and the making of a package
(`Create`); `PackageJobs` meets `GraphGenerations` in the lock a package is made under (`LockGraph`). What is
left of the components is under "What the models leave out"; of the hazards in
`PROJECT.json`, those without a property name the reason there.
