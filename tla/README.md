# A TLA+ verification of evoblue-video-mcp

evoblue-video-mcp is a local engine that turns video URLs into Markdown reports: it
fetches metadata and subtitles (or downloads the audio and transcribes it with a local
speech model), cleans, chunks and summarises the text with an LLM, writes a report and
indexes it. One Python process holds an HTTP API, a worker, install tasks and a
heartbeat, all asyncio; SQLite, the models directory and the report directory are its
persistent state. An MCP bridge in another process talks to the API.

Paths below are relative to `src/evoblue_video_mcp/` in the repository.

## Inventory

| Component | State | Operations | Interacts with | Hard behaviour | What makes it correct |
|---|---|---|---|---|---|
| Job table, leases (`storage/repository.py`, `jobs/`) | rows of `jobs`, `job_artifacts` | claim, renew, advance, artifact commit, fail, cancel, resume, sweeps | worker, API, installs, startup | expired leases, late commits, crashes | consistent row, single owner, final states final |
| Worker and heartbeat (`runtime/worker.py`) | what it loaded of its job | one iteration: claim, handler, refresh, commit | job table, handlers | state read before the handler, used after it | commits only what it owns |
| Stage handlers (`runtime/handlers.py`) | none; artifacts | nine `execute` methods | platform, ASR, LLM, disk | two safe points for cancellation | idempotent stages |
| Submission (`application/submit.py`) | none | `submit_video` | job table | equal concurrent submissions | one active job per request |
| Startup (`runtime/bootstrap.py`, `runtime/engine.py`) | none | cleanup, three sweeps, reconciliation | all of it | a crash anywhere | nothing lost, nothing finished revived |
| Model store (`asr/service.py`, `asr/registration.py`) | install rows, directories, `.trash`, provider registry | install, uninstall, cleanup, refresh | worker, settings, startup | three stores changed in turn | rows, files and registry agree |
| Waiting jobs (`asr/service.py`, `TranscribingHandler`, `asr/routing.py`) | recommendation and pin of a job | route, pin, park, reconcile, resume | model store, job table | decision on stale reads | a waiting job goes on once its model is ready |
| Model download (`asr/installer.py`, `asr/model_manager.py`) | operation row, partial files | resume, stream, fail over, verify, install | HTTP servers | row and file drift apart | only verified files are installed; no wedge |
| Report index and rebuild (`storage/rebuild.py`, `storage/report_repository.py`) | documents, FTS rows, issues, index state | upsert, mark missing, purge, rebuild, startup reconciliation | worker, startup, settings, user | rebuild beside the pipeline, drives that go away | search and history paired; an undisturbed run mirrors the directory; nothing lost |
| Report writer (`reports/writer.py`) | report files | idempotent write, verified read | handlers, user | write without commit | never overwrites a file |
| Task list (`web/app.py`, `mcp/listing.py`) | none | one page over jobs and reports | job table, report index, MCP bridge | two lists that change apart | every task on exactly one page |
| Settings (`web/app.py`, `settings_put`; `config/credentials.py`) | settings row, pointer file, credential vault | compensated writes to the three | rebuild, worker, connection test | late vault writes, failure between stores, cancelled requests | the row names its key; stores agree or the request fails |
| Write transactions (`storage/db.py`) | none | `immediate_write_transaction` | every writer | cancellation during COMMIT | the verdict of the COMMIT decides, not the cancellation |
| Single-instance guard, migrations, backup (`runtime/singleton.py`, `storage/migrations.py`, `storage/backup.py`, `__main__.py`) | mutex, lock file, port, token file, schema version, backups | start, steal, probe, migrate, bind, release | other processes | two starts at once, stale locks, kills | one engine on the database; no lockout |
| Client configuration (`application/client_config/`) | another program's file, backups, cached verdicts | install, remove, restore, verify, status | the client and its user | foreign writes between read and replace, rollback, retention | only this server's entry changes, and what is overwritten is kept |
| Diagnostics, providers, adapters, LLM, frontend | none of their own | requests, views, native calls | API | none shared | outside the model |

`PROJECT.json` lists every component with its status, and under `hazards` what is hard to
test, line by line, with the property that covers it.

## Modules

| Module | Models | State and actions |
|---|---|---|
| `JobStates` | `jobs/states.py`, `jobs/transitions.py` | the states and `Allowed`, the transition table |
| `StageHandlers` | `runtime/handlers.py` | per stage, the set of `StageOutcome`s, by registered artifacts and pending cancellation |
| `JobQueue` | `storage/repository.py`, `runtime/worker.py`, `application/submit.py`, `runtime/engine.py` | one function per column of `jobs`; `arts` for `job_artifacts`; `pc`, `held`, `view`, `out`, `beat` for a worker's locals; one action per transaction |
| `JobLifecycle` | the abstract specification: a job's life as a user sees it | `phase`, `progress`, `asked` |
| `ModelStore` | `asr/service.py`, `asr/registration.py`, the rows of `asr/installer.py` | rows, directories, trash, registry; install and uninstall as processes |
| `ModelParking` | `TranscribingHandler`, `reconcile_waiting_asr_jobs`; composes `ModelStore` | the worker and up to `Models + 2` reconciliations, step by step |
| `ModelDownload` | `asr/installer.py`, `asr/model_manager.py` | one operation row, its partial files, the install task |
| `ReportIndex` | `storage/rebuild.py`, `storage/report_repository.py`, `reports/writer.py`, the last two handlers | files, documents, FTS rows, issues, index state; the worker, one rebuild and the startup task as processes; user, drive and pointer as the surroundings |
| `JobListing` | the unified list in `web/app.py`, `mcp/listing.py`; extends `ReportIndex` | operators on its tables: the page the API returns, the page the bridge accepts |
| `SettingsWrite` | `settings_put`, `settings_test`, `storage/db.py`, `config/credentials.py`, the handler factory's read | row, vault, pointer, the credential thread's queue, one save step by step, one reader |
| `EngineProcess` | `runtime/singleton.py`, `__main__.py`, `storage/backup.py`, `init_db` | mutex, lock file, port, version, backups, token; per process its program counter and what it read |
| `ClientConfig` | `application/client_config/` | target file, backup shelf, the operation that holds the client's lock, verdict, a verify and a status beside it |
| `JobQueue_proofs`, `ModelDownload_proofs`, `SettingsWrite_proofs`, `EngineProcess_proofs`, `ClientConfig_proofs` | the theorems about the module each is named after | |
| `ModelParking_proofs`, `ReportIndex_proofs` | the theorems about `ModelStore` and `ModelParking`, about `ReportIndex` and `JobListing` | the second part of each uses what the first proves |
| `Host_proofs` | the theorems about `MCHost`'s composition | extends the three proof modules of its parts |
| `MCJobQueue`, `MCModelStore`, `MCModelParking`, `MCModelDownload`, `MCReportIndex`, `MCHost` | instances for TLC | `MCHost` composes the last three modules |

An action is what the code does between two awaits that let another actor in, or one
database transaction. All writes to `jobs` are `BEGIN IMMEDIATE` transactions, hence
atomic; what a worker read before a handler ran is kept in `view` and may be stale. Names
follow the code: `ClaimNextJob` is `claim_next_job`, `ReconcileCheck` a pass of the loop
in `reconcile_waiting_asr_jobs`. Definitions ending in `_Something` under a comment that
begins "Mutant" are plausible bugs; `PROJECT.json` pairs each with the property that
finds it.

Abstractions worth knowing:

* Time is relative: a lease and a retry count down to 0. The code compares both columns
  with `now` only.
* `JobQueue` leaves out display columns (title, progress, error text). Handler outcomes
  are nondeterministic within what the artifacts allow; any handler may raise, which the
  worker turns into a fatal failure.
* `ModelStore` gives each model one version and one install task (the per-model lock). A
  directory is intact, broken (a partial deletion) or absent; an entry's random name in
  `.trash` is its slot, so any order of names occurs.
* `ModelParking` assumes preference `auto`, no custom provider, that VAD and sherpa
  can be imported, and that setup is complete with a key that can be read, as the worker
  claims nothing otherwise. Its worker does not lose its lease: that is `JobQueue`'s
  subject. It loads the settings (`LoadSettings`, variable `wcli`) and refreshes the
  registry from what it loaded (`WorkerReady`) in two steps, between which the session is
  closed and a save or a reconciliation may come.
* `ModelDownload` measures files in units; content is right or wrong. A server may answer
  200 or 206 whatever the validators say. One budget bounds everything that goes wrong.
  What `uninstall` deletes under `.downloads` is among the damage of `DiskDamage`.
* `ReportIndex`: a path is its rank in the sorted scan; a file is the analysis it
  identifies (or none, if it does not parse) and its text. A generated name is made of the
  content's hash, so a generated text is the path it was made for. The stage commits of the
  two handlers are one step each, as `JobQueue` has them in detail. The warning
  `MD_EMPTY_BODY`, which keeps no file out, and the counters are left out;
  `mark_report_stale` has no caller.
* `SettingsWrite`: a slot is the number of the save that made it; a secret is the endpoint
  it belongs to. The model name follows the base URL, so a body that sets the model alone
  to null is not among the inputs. An error of the session's close after a COMMIT that took
  effect is left out.
* `EngineProcess`: pids are not recycled; the grace period is one event (`Grow`). A
  transaction of `init_db` is its read and its write.
* `ClientConfig`: a document is its entry for this server and the rest. JSON and TOML
  merges agree on that. Two kinds of bad documents differ: one that `read_entry` refuses
  ("broken") makes `remove`, `verify` and the proof of a restore raise, while one whose
  servers or whose entry are no object ("odd") reads as having no entry and is refused by
  the merge of an install only. A restore replaces the file, reads it back and parses it in
  three steps (`PutBack`, `CheckBack`, `ParsePut`). The manual tier changes nothing.
* `MCHost` has a variable `part` that picks one of its three modules in the initial state:
  they share no variable and meet only in the death of the process, which each has as an
  action of its own, so that their product would add no behaviour.

## Runs

Passing runs:

| Run | Instance | States, time | Shows |
|---|---|---|---|
| `lease` | 1 job, 2 workers, 3 attempts, lease 2, retry 1 | 144 k, 11 s | checkpoints, ownership, finality; refinement of `JobLifecycle` |
| `starvation` | 2 jobs, 2 requests, 1 worker, 2 attempts, engine stays up | 838 k, 2.5 min | one active job per request; no claimable job starves |
| `parking_full` | 1 CLI model, 1 job, 1 uninstall | 795 k, 3 min | records, operations, files and registry agree; a reconciliation resumes the waiting job |
| `parking_route` | 2 models (one needs the CLI), 1 job, database errors and cancellations | 2.04 M, 2 min | a routed job keeps its model and waits for it |
| `download_retries` | an archive of 4 units or files of 1 and 3 units, 2 sources, 6 faults | 12 k, 3 s | row against file, verified install, retries succeed |
| `index_mirror` | 1 analysis, 3 paths, batches of 2, 2 faults, one other task and report | 467 k, 2.5 min | search paired with history; an undisturbed run mirrors the directory; outages and orphaned runs; files kept; pages partition the tasks |
| `host` | 3 processes, schema 2, 1 kill; 2 saves, 3 URLs of 2 origins, 2 troubles; 3 client requests, 2 backups kept, 2 mishaps | 918 k, 3 min | one engine, right backups, no lockout; keys, pointer and row; other programs' files |

Two workers are enough for contention (a third adds no new relation between a row and a
stale holder); a lease of 2 lets it be renewed, run down and expire; 3 attempts let a
loser, a winner and a retry touch one job; two jobs are needed for order and
deduplication. One model suffices where models do not interact, two where routing
chooses. An archive of 4 units with a progress interval of 2 has partial files before,
at and after a checkpoint; 6 faults allow, for instance, damage, a failover on both
sources, a cancellation and two crashes in one behaviour.

Three paths give an analysis an owner, a duplicate and a broken file, in two batches; two
faults are enough for a user's edit in one run and a crash or an outage in the next. Three
processes are a holder, a thief and a bystander. Two saves let a late vault write of the
first land under the second, and three URLs of two origins tell a changed path from a
changed host. A shelf of two fills within three requests, which is when retention
bites.

`parking_full` takes one uninstall at a time, no database errors and no cancellations
(`parking_route` has those). With two concurrent uninstalls and an install between them
`RecordHasFiles` does not hold: the first request's `rmtree` removes the whole
`.trash/<model>`, the second one's entry included.

Runs that find a disagreement, each with its finding in `PROJECT.json`:

| Run | Property | What happens |
|---|---|---|
| `exhausted` | `SpentJobEnds` | the last attempt fails transiently: the job stays in `retry_wait` until a restart; so does, in `transcribing`, a job that parked on its last attempt and was resumed |
| `store_restore` | `RecordedModelIntact` | the startup cleanup restores a partly deleted leftover instead of the intact one |
| `download_escape` | `EveryErrorIsRecorded` | a cancelled file set that was being rewritten leaves its operation active |
| `parking_wakeup` | `WaitingResumes` | an install that ends between the worker's reads and its park wakes nobody; a provider gone before `get_provider` even parks the job without a recommendation, which no reconciliation looks for |
| `index_rollback` | `PipelineRowsAreKept` | a report indexed while a rebuild scans is in no claim of that rebuild, which marks it missing until the next one |

### What the models show besides

These follow from the models or were met while modelling; where a property would fail for
one of them it says so in its comment and excludes exactly that case.

* `uninstall` checks for an active
  operation in one transaction and deletes in another, so an install that starts between
  them loses its operation row (`StartInstall` between `UninstallCheck` and
  `UninstallDelete`) and ends as a vanished operation, although the docstring says an
  uninstall cannot race an activation. `RecordMatchesOperation` holds through it.
* Waiting jobs: the worker registers providers from settings it loaded in a session it has
  closed since. If a save makes a provider usable in between, the reconciliation of that
  save registers it, the worker's refresh on the old setting takes it back, and if that
  falls before the reconciliation looks the provider up, the job waits until the next
  event; a second reconciliation that read before the save does the same. `ReconcileResumes`
  excludes exactly that (`TakesBack`).
* Index: an outage exactly while `_collect` lists the files, over by the last check of the
  root, looks like an empty directory. A file that stops parsing keeps an older duplicate
  issue. The startup task marks a `running` state orphaned even if a request has begun a
  rebuild by then, and skips its own run if one is under way. A database error in a
  requested run's last write, or in the park, leaves `running` until the next start or
  request. The run of the startup task parks twice on a failure, the second time without
  the lock (`StartupPark`), when a requested rebuild may be at work already.
* Settings: a request cancelled while it waits for the vault is not an `Exception`, so its
  fresh slot is not cleaned up. A crash between pointer and COMMIT leaves the pointer
  ahead, and nothing repairs it.
* Start: without the mutex two processes that judged the same stale lock can both go on (the
  second unlinks the first one's new file); as uvicorn runs the lifespan before it binds, both
  may migrate and recover before the port decides. `path.stat()` on a lock that has gone
  raises. A failed migration or bind ends the process without releasing the lock. A stall
  longer than the grace period between `_read_lock` and `stat` can steal a live lock.
* Client files: a foreign write between the backup copy and `os.replace` is lost. A copy
  whose name sorts behind a full shelf (same second, clock set back) is pruned at once. An
  unparseable file makes `verify` raise and keeps the cached verdict. A `verify` that races
  a removal can cache "verified" for an entry that is gone, until the next status.
  Cancelling a request frees the client's lock while its thread still writes.

Deadlock checking is off where the modelled system may rest: `starvation` without crashes
(every job finished), the downloads once the model is installed, and `host`, whose
processes end and whose requests are finitely many.

### Fairness

* `JobQueue`: weak fairness for time, for an idle worker's claim (the loop polls every
  `worker_idle_sleep`, once setup is complete), for a handler's return (every external
  call has a timeout) and for the end of a stage commit, successful or not. None for
  users, installs, the heartbeat, crashes or restarts.
* `MCModelParking`: weak fairness for the worker and for every reconciliation that has
  begun (the subscripts name only the two variables of which each of its steps changes
  one, which is the same condition and cheaper to check); `SpecNoDbError` leaves out database errors during a reconciliation, after which
  nobody retries before the next event.
* `ModelDownload`: weak fairness for the task and for a user who tries again; faults are
  finitely many.
* `ReportIndex`: weak fairness for the rebuild's task and for the startup task, which the
  event loop schedules; none for restarts, for the drive or for a user who asks for a
  rebuild. `OrphanedRunHeals` starts when the faults are spent.
* `EngineProcess`: weak fairness for each process that was started; none for starting,
  stopping or killing one.

## Proofs

`JobQueue_proofs` proves, for every number of jobs, workers and requests and every
positive lease, attempt limit and retry delay (the assumptions `MaxJobsAssumption`,
`MaxAttemptsAssumption`, `LeaseAssumption`, `RetryAssumption`, `NoneAssumption`), the
safety properties of `lease` and `starvation`:

| Theorem | States |
|---|---|
| `InductiveInvariant` | `Spec => []IInv` |
| `TypeCorrect`, `RetryRunsItsStage`, `CheckpointsConsistent`, `OwnerCommits` | the invariants of `lease` |
| `LeaseDiscipline`, `CancelNotSwallowed` | only a running row is leased; no row parks with a cancellation pending |
| `TerminalFinal`, `LiveOwnerMoves` | the action properties of `lease` |
| `OneActiveJob` | the invariant of `starvation` |
| `LifecycleRefinement` | `Spec => Lifecycle!LCSpec` |

The invariants are not inductive by themselves: a stage commit rewrites the row from what
the worker holds locally. `IInv` adds `WorkerShape` (a worker in a handler or a commit
holds an existing job and an outcome of some handler) and `OwnerView` (a worker with a
live lease holds a row in the very stage it ran, so its outcome was computed from the
artifacts still registered). A worker without a live lease needs no such fact: the
compare-and-swap turns its commit into a failure. The lemmas `OutcomeShape`,
`OutcomeMonotone` and `SuccessArtifacts` say what a handler may return; there is one
preservation lemma per action. The refinement maps a row to its phase and its stage's
rank; it needs that a queued row has no stage yet, a second small induction.

`ReportIndex_proofs` proves, for every set of analyses, number of paths, batch size and
number of faults (`PathsAssumption`, `FaultsAssumption`, `NoneAssumption`):

| Theorem | States |
|---|---|
| `InductiveInvariant`, `TypeCorrect` | `Spec => []IInv`, `Spec => []TypeOK` |
| `SearchMatchesHistory` | exactly the listed documents have a full-text row |
| `ScanStaysHome` | no scan runs over the default directory in the user's stead |
| `ReportsAreKept` | neither the pipeline nor a rebuild changes or removes a file |
| `QuietInvariant` | `Spec => []QuietInv` |
| `RebuildMirrorsDisk` | an undisturbed rebuild leaves the index a projection of the directory |
| `OutagesLoseNothing` | an outage takes no document out whose file owns its analysis |
| `ListShowsEachTaskOnce` | the bridge accepts every page of the task list, and the pages of any one size show every task exactly once |

The pairing is not inductive alone: absence rewrites documents, which have to be records,
and a batch upserts the least path among those it parsed, which has to exist. `IInv` adds
`TypeOK` and `RunShape` (nothing is collected before the scan; the root is probed only for
a path yet to be read). `MinOfMember` gets the least path from the well-foundedness of the
natural numbers (`WFMin`), `ClaimIsParsed` says what a batch upserts.

The mirror holds only at the end of a run, so `QuietInv` says what holds on the way there.
While an undisturbed run scans, what it scanned and what is left are together the
directory, every scanned path sorts before every path left (`ScansInOrder`; `ChunkIsFirst`
derives it for a batch from the cardinalities that define one), and claims, documents and
issues are right for what was scanned (`ExactSoFar`): a claimed path owns its analysis
against *all* files of the directory, because everything smaller has been scanned.
`BatchIsExact` carries this over one batch, `AbsenceIsExact` from the last batch to the
mirror. Under an outage the same facts hold in the one state in which it could hurt: a
run that decides absence had checked the root after its last batch.

The task list needs no invariant: `ListShowsEachTaskOnce` holds of whatever the tables hold,
in every state and for every page size (the run reads pages of one and two rows), from
`OthersAssumption` and `RowsAssumption` (the rows are finitely many and numbered in the order
of their creation). What has to be proved is that the two lists and the arithmetic of the
page fit together. `NewestLists` shows that the rank of a row, the number of later rows, is a
bijection from a finite set of rows to its positions; `SegmentsListTasks` that the three sets
of rows are disjoint and together the tasks; `SliceIsWindow` and `PageIsWindow` that a page
that begins in the jobs and ends in the history is one window over both; `AnyPageSizeWorks`
that a position lies on exactly one page, from `PageOfRow` and `PagesAreApart`.

`ModelParking_proofs`, for any models, jobs, concurrent uninstalls,
trash entries and preference order (`ModelsAssumption`, `TrashAssumption`,
`RouteAssumption`, `JobsAssumption`, `RolesAssumption`: the names of the two other
reconciliations are no models):

| Theorem | States |
|---|---|
| `StoreInductiveInvariant`, `StoreTypeCorrect`; `ParkInductiveInvariant`, `ParkTypeCorrect` | the invariants of the store alone and of the composition |
| `RecordsMatchOperations`, `ParkedRecordsMatch` | a model is recorded exactly if its latest operation completed |
| `UninstalledGetsUnregistered`, `ParkedUnregistered` | no provider stays registered for what is gone |
| `RecordsHaveFiles`, `ParkedRecordsHaveFiles` | no two uninstalls of one model overlapping, a recorded model has files |
| `RecommendationsArePinned`, `PinsAreKept` | a waiting job's recommendation is its pin; a pin stays |
| `JobsUseTheStore` | the composition implements the store with refreshes of the registry at any moment |
| `RestoredModelsAreIntact` | `RecordedModelIntact`, if no uninstalls of a model overlap and no start finds a partly deleted entry |

`StoreIInv` adds that tasks and requests run only while the engine serves
(`AsleepIsIdle`), that the startup cleanup finds every registered model in place
(`FreshRegistry`) and that a provider outlives record and files only until the request
that took them drops it (`RegisteredIsOwned`). `RecordsHaveFiles` has the hypothesis
`[]NoOverlap`, which the code does not enforce: without it the property is false (see
Runs). Its strengthening `FilesStay` follows the trash entry of each request. The
composition proves nothing twice: `ParkKeepsStore` shows with the store's lemmas that every
step of `ModelParking` keeps what the first part needs of the store.
`JobsUseTheStore` is a refinement under the identity: the store's variables of
`ModelParking` take steps of `StoreNext`, refresh the registry (a reconciliation does so with
a setting it read earlier, and retries failed loads, which `StoreNext` alone does not) or
stay; it needs that the engine serves only after the startup's reconciliation
(`StartupServes`). `RestoredModelsAreIntact` delimits the finding of `store_restore`: under
the two hypotheses the docstring of `cleanup_trash` is right, of the store alone and of the
composition. The code guarantees neither, a locked file being enough for a partial
deletion. `DecisionIsPinned`
ties a worker's routing decision, made, pinned and acted upon in three transactions, to
the pin in the row.

`ModelDownload_proofs`, for any manifests, number of sources, progress interval and number
of faults (`ManifestAssumption`, `NumberAssumption`):

| Theorem | States |
|---|---|
| `InductiveInvariant`, `DownloadTypeCorrect` | row and task move together; no progress write passes the manifest's size |
| `RecordStaysWritten` | while an archive streams, the row never claims more than was written |
| `InstalledIsPinned` | what is recorded as installed is what the manifest pins |
| `ArchiveErrorsAreRecorded` | `EveryErrorIsRecorded`, for archives |

`IInv` adds `ChainInOrder` (a resumed operation in `verifying` or `installing` has a
complete row, whichever crash it survived), `CompletedIsLeft` (nobody works on a completed
install) and `ArchiveInStep` (what `on_headers` will write again is not ahead of the
partial file). The lengths are sums over the files, a recursive function. Its equations
(`UpToEquations`), its growth (`UpToGrows`) and the comparison of two lists of lengths
(`UpToCompares`) are proved at the least index at which they could fail (`LeastOf`), which
takes the place of an induction. `ArchiveErrorsAreRecorded` delimits the finding of
`download_escape`: only a file set has it.

`SettingsWrite_proofs`, for any URLs and origins, payloads, number of saves and of troubles
(`OriginAssumption`, `PayloadAssumption`, `PutsAssumption`, `NoKeyAssumption`), from
`PutSpec`:

| Theorem | States |
|---|---|
| `PutInductiveInvariant`, `SettingsTypeCorrect` | the invariant; row, vault, pointer and locals keep their types |
| `NeverAWrongBinding` | the slot the row names holds the key of the row's endpoint |
| `SetupStaysRunnable` | a completed setup passes the worker's gate |
| `KeysStayHome` | a key is sent only where it belongs |
| `PointerAgrees` | no save under way, the pointer names the row's directory |
| `NoKeyIsLeft` | the vault caught up, no slot holds a key that no row adopted |

The difficulty is the credential thread, whose queue outlives the request that filled it.
`QueueIsHarmless` says what it may still hold: nothing for the row's slot, no write to a
slot a row ever had, and of the slot of the save under way only the write that save waits
for. `SlotsInOrder`, `SaveWantsItsKey` and `FreshSlot` describe that save,
`ReaderIsSafe` a reader between its two reads (its slot keeps its key or loses it, never
gets another), `PointerInStep` the window between pointer and COMMIT, `GarbageIsDoomed` that
an abandoned slot has its deletion in the queue behind every write to it.

`EngineProcess_proofs`, for any number of processes, schema versions and kills
(`PidsAssumption`, `NoPidAssumption`), from `StartSpec`:

| Theorem | States |
|---|---|
| `StartInductiveInvariant`, `StartTypeCorrect` | the invariant; lock, port, schema, backups and processes keep their types |
| `OnlyOneEngine` | one process at a time backs up, migrates or serves: with the mutex always, elsewhere while no lock is stale |
| `BackupsCanBeRestored` | under the same condition, a backup holds the version it is named after |

`MutexHeld` and `LockHeld` are the two arguments, `SnapshotIsNamed` carries the version read
before the copy. The second property needs the same exclusion as the first: without it
another process may migrate between the version's read and the copy.

`ClientConfig_proofs`, for any foreign files, contents, shelf size and number of requests and
mishaps (`KeepAssumption`, `ForeignAssumption`), from `ClientSpec`:

| Theorem | States |
|---|---|
| `ClientInductiveInvariant`, `ClientTypeCorrect` | the invariant; file, shelf, operation and requests keep their types |
| `AnswersNeverDisagree` | no answer says verified beside evidence against it |
| `NothingOfTheClientIsLost` | what is overwritten is on the shelf |
| `OperationsStaySurgical` | an install or a removal changes this server's entry only |
| `RestoreStaysReversible` | an undisturbed restore brings the copy back and keeps what it replaces |

The three last are action properties: they speak of the step that ends an operation, and
`Covered`, `TargetInHand` and `RestoreInHand` say what holds before that step, for each
step of the operation, as long as nobody else writes.

`Host_proofs` carries these three over to `HostSpec`, which the `host` run checks, under the
assumptions of all three:

| Theorem | States |
|---|---|
| `HostImplementsItsParts` | `HostSpec => StartSpec /\ PutSpec /\ ClientSpec` |
| `HostTypeCorrect` | `HostSpec => []HostTypeOK` |
| `HostIsSafe` | the other invariants and the action properties of `host` |

A step of the host is a step of one part and a stutter of the two others, so that each part's
theorems hold of it. `StaleLockYields`, a liveness property, is not among them.

The strengthenings were model-checked on instances of this size before they were proved.

Only model-checked:

* the liveness properties `NoStarvation`, `ReconcileResumes`, `RetriesSucceed`,
  `OrphanedRunHeals` and `StaleLockYields`: fairness and `ENABLED` are beyond the prover;
* the five properties the code does not have: the runs refute them. Of two of them
  `RestoredModelsAreIntact` and `ArchiveErrorsAreRecorded` prove what is left.

## Plan

All safety properties of the passing runs are proved. What could be added:

1. In-stage checkpoints (segments, chunk summaries) beneath `StageHandlers`.
2. Route choice by language against a reference definition.

## Not modelled

Native inference, yt-dlp, the LLM client and the HTTP servers appear as nondeterministic
outcomes. Request parsing, schemas, views, diagnostics, the tools of the MCP bridge and the
frontend keep no state of their own. Text processing (rendering, parsing, cleaning,
chunking) is data. The artifact store writes each file once under its hash; what can go
wrong around it is the registration, which `JobQueue` has.
