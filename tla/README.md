# Verification of sekai-assets-updater

TLA+ models of the asset updater in `src/updater`, checked with TLC on small instances and, where marked *proved*, proved with TLAPS for every value of the constants. Definitions are translated from the source; `PROJECT.json` maps each to its lines. `Mut_*` definitions are broken variants of the one that follows them: each property is shown to fail when its mutant takes the definition's place.

## 1. Inventory

The updater compares the game server's bundle manifest with its cache, downloads the changed bundles, extracts and converts them, uploads the results, and derives further artefacts. It is one asyncio process, run again and again (by hand or a timer), with worker processes for extraction and child processes for codecs and uploads.

| Component (source) | State | Operations | Hard behaviour | What makes it correct |
|---|---|---|---|---|
| Bundle pipeline (`pipeline/__init__.py`) | three bounded queues, per-item progress, `failed_tasks`, temporary bundles and staging directories | stage workers, sentinels, worker monitor, failure handlers, cancellation clean-up | tasks interleave at every await; cancellation anywhere; a worker that dies; bounded queues filled by those who wait | each bundle is published or reported exactly once; the run ends; nothing temporary remains but what the OS refuses to remove |
| Extraction scheduler (`pipeline/scheduler.py`) | `_pending`, `_active`, `_active_media`, `_closed`, two conditions | put, claim, release, wait_idle, close | lost wakeups, slot leaks, overtaking | exact counters, no sleeper with work to do, FIFO per class, everything served |
| Durable state (`state.py`) | queue, metadata, version and journal files, lock file | create and replay journal, empty transaction, durable unlink, lock | kill or power loss between any two file operations; two processes | one atomic durable value; recovery always possible |
| Run lifecycle and planning (`cli/runner.py`, `cli/lifecycle.py`, `cli/pending.py`, `net/plan.py`; the regional scope of `music_selection.py`) | pending queue, cached manifest, `processed_checksum` markers | plan, merge, commit plan, download, partial failure, commit success, post-process | failures, stops, changes of server, lists and music scope between runs | no pending work lost, markers truthful, convergence |
| Bundle download (`net/download.py`, `net/integrity.py`, `net/disk_space.py`) | temporary file, attempts, reserved bytes | reserve, attempt, validate, promote, retry, release | truncated bodies, full disk, several reservations, cancellation | only whole bundles promoted, free-space floor, termination |
| External processes (`external_process.py`, `media/process.py`) | child process, shared termination task, private staging directory | wait with timeout, terminate, kill, reap, clean up | repeated cancellation during termination; the end of the event loop | terminated once, reaped, then its slot given back and its directory removed |
| Process runtime (`runtime.py`) | cached pools and semaphores | lookup, replacement, shutdown | shared by all artefacts | process bounds hold |
| Extraction (`extract/`, `unity_rs_adapter.py`) | files of one staging directory | decode and write the objects of one bundle, convert its media | gathers that end at the first failure | an artefact that counts as done is complete |
| GLB export (`extract/glb/`) | three output files | plan the dependency closure, load, walk, write | cycles, missing, excluded and optional dependencies | exact closure; nothing incomplete is written |
| Media (`media/`) | best encoder so far | audio, video, image conversion with fallbacks | child processes that fail, hang or are cancelled | output only when complete |
| Remote storage (`storage/`) | none kept | upload files and directories | partial fan-out | published only after every upload |
| Live2D publication (`live2d/rollout.py`, `publication.py`) | candidate directories, `index.json`, `current.json`, state file with receipts | stage, verify, publish, roll back, disable, record uploads | failing writes, failing restores, kills between files | readers see a committed generation; receipts are true |
| Live2D association (`association.py`, `contracts.py`, `automatic_selections.py`, `master_data.py`, `viewer_catalog.py`, ...) | none | select, associate, build and validate the index | names, tables and paths that disagree | no motion of another character |
| Post-processing (`postprocess/`) | extracted tree, incremental states, remote trees, audit index | recover models, restore motions, upload, list, render charts | failure or crash between upload and state; outputs of older runs | a skip is sound; lists name what is there; convergence |
| Live2D document validation (`motion_validation.py`, `motion3.py`, `moc3.py`, `curves.py`) | none | pure functions | - | - |
| Metadata and HTTP, configuration, security, music selection | none kept | requests, options, predicates | - | - |

How they interact: `runner` takes the state lock, recovers, fetches the manifest and asks `plan` for candidates; it merges them with the pending queue, commits the plan through the state store, and calls `do_download`, which calls `run_pipeline`. The pipeline's workers go through the disk gate to the download code, through the scheduler (adaptive mode) to extraction, and to storage. `run_pipeline` returns the failed items or raises; `lifecycle` commits the outcome through the state store and starts post-processing.

## 2. Plan and state of the work

| # | Module | Models | Status |
|---|---|---|---|
| 1 | `Pipeline`, abstract `BatchRun` | `run_pipeline` | all safety and the refinement proved; its end checked |
| 2 | `ExtractionScheduler` | admission scheduler | all safety proved; `AllServed` checked |
| 3 | `StateStore`, abstract `AtomicStore` | durable state | all safety and the refinement proved; `JournalReplayed` checked |
| 4 | `UpdaterRun` | runs over one state directory | all safety proved; convergence checked |
| 5 | `Download` | disk gate, retries, promotion | all safety proved; `AllEnd` checked |
| 6 | `Rollout` | Live2D publication transactions | all proved |
| 7 | `Media` | media jobs, their processes, uploads of an artefact | all safety proved; its end checked |
| 8 | `GlbPackage` | GLB planning, collection, export | all proved |
| 9 | `Live2DAssociation` (operators), `Postprocess` | post-processors, run after run | all safety proved; convergence checked |
| 10 | what `Publishable` implies of every index, as theorems about the operators of `Live2DAssociation`; a property of the paths remembered for ACB files | | left |

The composition is by contract instead of by product state. `Pipeline` refines `BatchRun`, and `UpdaterRun` uses `run_pipeline` as the bag of outcomes that `BatchRun` allows (`Publish`, `Fail`, `Stop`). `StateStore` refines `AtomicStore` and keeps runs apart (`SingleWriter`), so `UpdaterRun` and `Postprocess` take a state write as one step and one run at a time. `Pipeline` contains the scheduler's admission rule; its conditions and wakeups are in `ExtractionScheduler`. A download is one step with two outcomes in `Pipeline` and a machine of its own in `Download`; extraction and upload of an artefact are one step each in `Pipeline` and `Media` is what they do. `Postprocess` extends `Live2DAssociation`, whose operators build the index it publishes; what follows a success in `UpdaterRun` is `Postprocess`.

## 3. Modules and code

**Pipeline.** A worker's `pc` names the await it is at; what runs between two awaits is one action. `DownloadGet`, `Reserve`, `Fetched`, `PutExtract` are the successive awaits of `_download_one_item`; `Claim`, `StartExtract`, `Extracted`, `PutUpload` those of the extract stage; `UploadGet`, `Uploaded` those of the upload stage. `DownloadFail`, `ExtractFail`, `ExtractCleanup`, `UploadFail` are the `except Exception` handlers, `DownloadDie` a handler whose `unlink` raises. `main` is the await of `run_pipeline`; `DownloadsJoined` to `Complete` its success path, `WorkerFailure`, `Cancelled`, `CancelTasks`, `CancelWorker`, `DrainQueues` the abort path. A second cancellation leaves its handler: `CancelledAgain` before the workers are cancelled (they go on until `LoopCancels`, the end of `asyncio.run`) or while they unwind, `DrainCut` in the drain, and the run is `Abandoned`. `Unlinked` and `Cleared` are the two removals of `_cleanup_artifact`, which only log what the OS refuses (`Undeletable`, `Unremovable`). `queue` holds item positions and sentinels, `progress` is `PipelineProgress._states`.

**BatchRun** is the promise to `do_download`: each item is resolved at most once, the call returns only when all are resolved, and returns exactly the failed ones. After `Abandon` (a run cancelled again in its abort handler) workers may still resolve items.

**ExtractionScheduler.** Each method runs without an await up to its `wait_for`; a waiting task moves only when notified, which makes a lost notification visible. Clients are the download workers (`Produce`, `Put`), the extract workers (`Claim`, `Release`) and `run_pipeline` (`WaitIdle`, `Close`).

**StateStore.** `dir` is the directory processes see, `images` the directories a power loss may leave (all states since the last directory fsync). `LinkJournal`, `SyncJournal`, `PutQueue` ... `UnlinkJournal` are the file operations of `create_journal` and `replay_journal` in order; `Begin` chooses among the uses the lifecycle makes of the store; `Stop` is an exception, an fsync error or a kill at any step; `PowerLoss` is a crash of the machine. `Recover` is the replay at the start of a run.

**AtomicStore** is one durable value. An acknowledged update is never lost, one under way survives a power loss or not, never in part.

**UpdaterRun.** A bundle's checksum is a number. `Candidates` is `_select_changed_bundles`, `Merge` the merge of pending and new items, `CommitPlan` the journal before the downloads, `Publish`/`Fail` the outcomes of the pipeline, `Succeed` the commit of markers and the empty queue, `PartialFailure` the replacement of the queue, `Postprocess` what follows a success, `Stop` any other end. `Pending` drops what the regional music selection (`scope`) no longer allows, as `_load_pending_download_lists` does; `Selected` is the configured selection within that scope. `ServerChanges`, `Reselect` (the configured lists) and `Rescope` (the master data of the songs) are the world.

**Download.** `Admit` is the check of the gate's loop under its lock, `Release` the exit of `reserve`; `Accept`, `Chunk`, `Promote` are a successful attempt, `Reject`, `Retry`, `Exhaust`, `NextAttempt` the error paths of `download_deobfuscate_bundle`, `GiveUp` includes the handler of `_download_one_item`. `OthersUse` is every other writer on the disk.

**Media.** A unit is one step of one job: a decode, an encode, a demux, an upload. `at` is the await of its coroutine, `child` its thread, pool worker or process, `left` the ways to do it that are left (pool, then `vgmstream-cli`; hardware encoder, then software). `Enter` takes the semaphore, `Launch` starts the child, `Exit` is the child's own end; `TimeOut`, `CancelledUnit`, `Grace` and `Reaped` are `wait_for_process`, `_await_termination` and `terminate_process`. `Gathered` and `GatherRaises` are the ends of a gather, `NextGroup` the end of an audio or video group, `StartUpload` to `EndUpload` the upload of what was made, `EndArtifact` the artefact's end in the pipeline: what happens to its directory depends on `Workspace`, a temporary directory that is removed, one whose removal fails part way and is only logged, or a persistent or aggregate workspace that is kept. `Cleaned` is `rmtree(ignore_errors=True)` of a unit's own directory, which leaves those of `Undeletable`. `CancelRun` is a cancelled pipeline, `Teardown` and `Close` the end of `asyncio.run`.

**GlbPackage.** `Visit` is one turn of `_closure_bfs` (`Discovered`, `Ancestors`, `Chain` its parts), `Built` and `Fatal` the plan and its validation, `Ready` the check of the downloads, `Load` and `Walk` the collection and the search from the roots (`Severity` classifies a reference), `WriteFile` the three writes of `export_root_glb_sync`, `WriteStops` a stop between them.

**Rollout.** `StageNew` and `StageExisting` stage a candidate, `Rollback` and `Disable` begin the other calls; `Write` writes the next of the three files of `_write_current_transaction`, `WriteFails` raises before or after the effect, `Restore` is one `_restore_file` of the handler. `Upload` and `Record` upload a candidate and write its receipts. `Damage` is a candidate directory changed from outside, `Crash` a kill.

**Live2DAssociation.** A bundle's name is its `v2` prefix, character number and words; `MatchKind` is `_motion_match_kind`, `Contexts` and its parts the character contexts of a model from costume and character rows, `Candidates` the associations with their status. `ModelRoots`, `RootAliases`, `MotionPath` and `Discoverable` are the automatic selection by metadata paths. `Snapshot`, `TableErrors`, `Conflicting` and `Loadable` are how the six tables are read. `BuildAssociationIndex` builds the index, `ValidIndex` and `Publishable` are its checks, `ViewerCatalog` and `NamedFiles` the public list and the files it names.

**Postprocess.** `world` is what the asset server and the master data offer now, `meta` what the present run was given, `work` the extracted tree, `mstate` and `cstate` the incremental states, `legacy`, `assoc` and `charts` the storages, `audit` the local audit index. `stage` is the post-processor a run is at, `pc` its step: `MoveAside`, `Promote`, `CleanBackup` recover the models; `LegacyStart` to `LegacySave` are `_process_live2d`; `PrepareMasterData` to `AssocFinish` `_process_live2d_associated`; `ChartsStart` to `ChartsSave` `_process_charts`. `SkipOrRaise` tells an optional processor from one that ends the run. Every operation has its failure (`RestoreFail`, `AssocUploadFail`, ...), an upload one that leaves any part of its files; `Crash` is a kill, `LoseState` a state file that is gone or corrupt, `Change` the world.

## 4. Runs, bounds and results

| Run | Instance | Shows | States |
|---|---|---|---|
| `pipeline` | fixed and adaptive mode; 3 bundles (2 media, 1 raw-cached, 1 that cannot be unlinked, 1 whose staging directory cannot be removed, 1 with a shared output directory), 2+2+1 workers, queues of 1 | `ProgressTracksWork`, `NothingDropped`, `FailedTasksExact`, `CleanCompletion`, `AbortLeftovers`, `RemovalOrder`, refinement of `BatchRun`, `RunEnds` | 419 923 |
| `pipeline_cancel_leak` | 1 bundle | *violation*, finding 1 | |
| `scheduler` | 4 artefacts, 3 of them media, 2 producers, 3 workers, capacity 2, close at any moment | `CountersExact`, `NoLostWakeup`, `FifoPerClass`, `LightSlotKept`, `AllServed` | 32 254 |
| `state_store` | 2 runs, 3 updates, stops and power losses at every step | `NoTornState`, `CrashConsistent`, `SingleWriter`, `NeverBlocked`, refinement of `AtomicStore`, `JournalReplayed` | 88 485 |
| `updater` | 2 bundles (one raw-cached), 3 checksums, 3 changes; either the server may revert or the selection and the music scope may change | `MarkerTruthful`, `QueueLoadable`, `PendingKept`, `Converges` | 628 884 |
| `download` | 2 downloads of 1 and 2 units, 2 attempts, floor 1, disk of 5 | `DestinationAtomic`, `FloorHeld`, `AllEnd` | 171 240 |
| `rollout` | 2 candidate ids, 2 publishable indexes and 1 that is not, 2 storages | `ServedIsCommitted`, `ReceiptsTruthful`, `FailureRestores` | 357 956 |
| `glb_package` | every dependency graph of 3 bundles, every set of roots in every order, 2 exports | `ClosureExact`, `CyclesReal`, `ExportComplete` | 412 676 |
| `media` | one artefact in a temporary directory, two audio files and a movie, one directory that `rmtree` leaves, semaphores of 1 | `ChildrenBounded`, `DoneIsComplete`, `StagingRemoved`, `RunEnds` | 447 406 |
| `media_orphan` | one artefact, two audio files, one with FLAC | *violation*, finding 2 | |
| `postprocess` | 3 configurations, 3 path layouts, 4 sets of master data, 1 model, 2 motion bundles, 1 score, 2 associated storages, 1 change, 1 fault | `SkipIsSound`, `ListedAssetsPresent`, `CatalogSound`, `Converges` | 325 476 |
| `stale_motions` | live2d-associated alone, persistent workspace | *violation*, finding 3 | |

Why the bounds suffice. Three bundles through queues of one fill every queue, block its producer and still leave a bundle behind it; two workers of a stage give every race for a queue entry, and sentinels outnumber the queue's capacity. Four artefacts let a light one be overtaken by, and overtake, media ones while slots are full. Two runs and three updates contain: an update, a crash in it, its replay, a crash in the replay, and an update by the other run. Two bundles suffice for the interplay of an item that fails and one that succeeds; three server changes contain change, revert and change again while an item is pending. Two downloads contend for the last free units, and two attempts distinguish a first, a last and an excess one. Two candidates and three indexes contain a publish over a publish, a rollback to the first and a disable, with one write or restore failing in each; the number of calls is not bounded. Three bundles give every cycle, diamond and self-reference, and a second export finds the files of the first. With slots of one, one hanging process blocks all others of its kind; two audio files and a movie contain two siblings of one gather and a group after it. `MCMedia` also defines the two other workspaces (`AStuck`, `AKept`); with either in place of `ARemoved` the run passes as well (541 138 and 535 594 states), and the proof is for all of them. In `postprocess` one change and one fault, each at any moment, relate every crash or failure to every version of its input; the four tables are an exact join, a crossed one, none, and a contradictory one.

Named bounds: `NItems`, `NArtifacts`, `MaxSerial`, `MaxVersion`, `MaxChanges`, `MaxRetries`, `Capacity`, `MaxExports`, `MaxFaults`. Deadlock is not checked for `download` (ended downloads and a disk that stays full really stop), `glb_package` (a refused plan ends) and `media` (a closed loop ends); in the other models the end is an explicit stuttering or repeating step.

## 5. Fairness

Every assumption is weak fairness of a step that the code bounds in time.

* `Pipeline`: each worker's step and `run_pipeline`'s own. Requests have `REQUEST_TIMEOUT` (not if it is set to 0), child processes `EXTERNAL_PROCESS_TIMEOUT`; asyncio schedules every ready task. An executor job is assumed to end, and so are the waits without any timeout: an OpenDAL upload, and the disk gate, where a download waits until there is room (`Download` says what that rests on). `asyncio.run` cancels the workers that a run left in its abort handler has not. Cancellation and failures are never assumed to happen.
* `ExtractionScheduler`: every ready task runs and an extraction ends; a task that waits for a notification is not ready. `Closer` waits for the scheduler to be idle, as `run_pipeline` does, or closes at any moment.
* `StateStore`: a run that is not stopped performs its next file operation, and some run gets the lock if it is free again and again (strong fairness of `Acquire`: the updater is restarted). Nothing is assumed about stops; `JournalReplayed` says that a journal whose writer was killed disappears once interruptions cease.
* `UpdaterRun`, `Postprocess`: runs follow each other and go on unless stopped. `Converges` assumes that from some time on nothing fails and nothing is stopped, and `MaxChanges` makes the world quiet; a crash in `Postprocess` counts against `MaxFaults`.
* `Download`: polling and timeouts. `AllEnd` assumes that room returns whenever nothing is reserved; without it a download waits at the gate for ever, as the code means it to.
* `Media`: each coroutine that is ready runs; threads, pool work and a process that got SIGKILL end. A process that did not get it may hang for ever: `RunEnds` rests on the timeout.

## 6. Proofs

`StateStoreProofs` proves `TypeOK`, `SingleWriter`, `NeverBlocked`, `NoTornState`, `CrashConsistent` and the refinement of `AtomicStore` for any set of runs and any number of updates, from `StateStoreAssumption` only. None of these is inductive: whether a power loss may leave new metadata with an old version depends on whether the journal is durable at that moment. The invariant `IInv` adds, for the step the lock holder is at (`StepInv`), which targets already carry the transaction's serial and whether every image still has the journal (`Durable`). Others are "down" and have no obligations. A step that publishes a file adds one image (`PublishInv`), a sync leaves only the directory itself (`SyncInv`); the lock actions move between holders. `Atomicity` then maps each publication to `Update`, each return to `Acknowledge`, a power loss to `PowerLoss`, everything else to `Ask` or a stutter.

`UpdaterRunProofs` proves `TypeOK`, `QueueLoadable`, `PendingKept` without further assumptions, and `MarkerTruthful` if the server never reverts or neither the lists nor the music scope change. `Flow` follows items from the queue through `todo`, `failed` and `delivered`; `Forward` orders marker, cached checksum, pending version and server for a server that only moves forward; `Fixed` says for selections that never change that pending items carry the cached manifest's checksum.

`PipelineProofs` proves every safety property of `Pipeline` and the refinement of `BatchRun`, for any items, workers and queue sizes. The invariant says where things are: `Once` and `Somewhere` place each unresolved item in exactly one queue or worker, `WorkersInv` ties a worker's step to its stage and its item, `ProgressTracksWork` the booked progress to the place, `FilesOwned` every temporary bundle and staging directory to the one who will remove it (or to a worker cancelled while it was at it, to nobody in a run that has lost its drain, or to the OS that refuses), and `Joined` says that a stage once joined stays drained. The last is what makes `CleanCompletion` inductive: without it a worker of an earlier stage might still bring work to a later one.

`ExtractionSchedulerProofs` proves `CountersExact`, `NoLostWakeup`, `FifoPerClass` and `LightSlotKept` for any number of artefacts, producers, workers and slots. `OneCopy` says that an artefact exists once (at a producer, or accepted), `InOrder` that what was accepted and not claimed is pending in the order of acceptance. Order is stated by positions (`Precedes`), not by filtering the sequences: a filter is a recursive definition, of which nothing can be proved here. `NoLostWakeup` needs `Roles` beside it, which says what each task may wait for. `LightSlotKept` has as its hypothesis that fewer media slots are configured than there are workers (see section 7).

`BundleProofs` is about `Download` and `GlbPackage`, which share no state. Of `Download`: `TypeOK`, `DestinationAtomic` and `FloorHeld`. `Consistent` adds which program counters have a temporary file and that a backoff has an attempt left. For the floor, the bytes of a download are elements of a set: `Held` are those the reserved downloads hold, `Unwritten` those of them still to be written, and `Ledger` says that the gate's counter is the number of the first and that what is free above the floor covers the second; sums over a changing set of downloads then need no induction. Of `GlbPackage`: `ClosureExact`, by `QueueOK` (the queue lists bundles of the closure, each once) and `SearchOK` (what visited bundles need is known, what is known is needed: every closed set with the roots contains it); `CyclesReal`, since the recorded way to each bundle is a trail (`PathOK`) and a trail whose end depends on one of its bundles is a cycle from there on (`TrailCycle`; the first bundle a closed set lacks is found with `Least`); `ExportComplete`, because until an error is found whatever a visited object names is visited, to be visited or optional (`Reached`).

`RolloutProofs` proves `FailureRestores`, `ServedIsCommitted` and `ReceiptsTruthful` for any candidates, indexes and storages. `Progressed` says of a call under way that the files a flawless restore has passed are already as they were, and that an outcome of plain failure is reached only when no restore has raised. `Committed` says which generation `current.json`, the copy to be restored and the call under way may name; `ReceiptsKept` that receipts agree with the uploads in the state file and in the copy to be restored, that a state with receipts names the current candidate, and that a new generation has none before `current.json` is written. The second conjunct of `ServedIsCommitted`, that what is served is publishable, is asked only of a pointer a reader accepts.

`MediaProofs` proves `ChildrenBounded`, `StagingRemoved` and `DoneIsComplete` for any artefacts, groups of jobs and semaphores. While the loop runs, a process belongs to a unit that holds its slot; from the teardown on units let go of processes that still run, so the bound then rests on nothing being started any more (`Winding`). `Orphans` says what may run for a unit that has ended, `Loyal` that units are cancelled only with their artefact, `Gatherings` that an artefact leaves a group only when each of its jobs has returned; `Staging` says of every staging directory whose it is and that its artefact's own has not been removed. With `Shut` (in a closed loop every artefact has ended) it leaves directories only where the artefact's is kept or could not be removed. `MediaAssumption` asks that groups be sequences of jobs, that no two artefacts share a job and that each has one of the three workspaces.

`PostprocessProofs` proves `SkipIsSound`, `ListedAssetsPresent` and `CatalogSound` for any bundles, storages, tables and layouts and any number of changes, failures and crashes.

* A skip compares two values, the saved state and the present one, and claims something of a third, the storage. `MotionsKept` and `ChartsKept` say that each output on disk or on a storage lies between the two (`Between`, `ChartBetween`): not older than the saved state, not newer than what the run works from. When the two ends are equal, so is what lies between. Versions of motions and scores only rise; a moc3 file may take an earlier content again, and `NoLater` orders contents only if none does. `MocsNeverReturn` states that as a hypothesis of the motions' part of `SkipIsSound`, without which it is false (section 7).
* That the state may be saved at all needs `LegacyDone`: in a publishing run every pending motion was restored from the run's own metadata, and every storage not in the queue any more has it. Of charts it is the last conjunct of `ChartsKept`.
* `Uploading` says of a storage being served that each directory of the index is still in the queue or entirely there, and that the list is the last entry; `IndexBuilt` that the directories hold every file the list names, and that the list itself is sound. Both rest on pure lemmas about the operators of `Live2DAssociation`: `IndexCovers` (files of the list are in directories of the index), `EntriesSound` (a candidate that is not ambiguous has the model's character), `NormalWords` and `WordsOf` (what a name keeps of its words when its prefix is taken away).
* `CatalogSound` excludes "back" and "still" sets only if no asset name of `character2ds` contains these words (`NoProtectedAssets`); a row that names such an asset would make the exact join accept it.

`PostprocessAssumption` asks for finite sets of bundles, storages and rows, for names made of words, and for a `None` that is neither a version nor a restored motion. All assumptions are evaluated by TLC in the runs.

Nothing about liveness is proved: `RunEnds` (of `Pipeline` and `Media`), `AllServed`, `JournalReplayed`, `Converges` (of `UpdaterRun` and `Postprocess`) and `AllEnd` need fairness and `ENABLED`, which the prover does not treat. What the recursive definitions compute for every input is not proved either, because the induction theorems take an operator as parameter; where a proof needs induction it is first-order, by the least element of a set of numbers (`Least`).

## 7. Findings

1. **A cancelled run can leave temporary files** (`pipeline_cancel_leak`). `_download_one_item` awaits `asyncio.to_thread(_reserve_temporary_bundle_path)` (`pipeline/__init__.py:870`). A cancellation there does not stop the thread: it creates the file, `bundle_save_path` is still `None`, and nobody removes it. Tests and documents promise that no temporary files survive a cancelled run. The model has the same hole at other awaits: the stat before the extraction (1100), the executor job that goes on writing, and the awaited `unlink` of `_cleanup_artifact` (761), which a cancellation keeps from happening.
2. **A child process can outlive the updater** (`media_orphan`). The termination of a process is a task of its own (`external_process.py:72`). If another job's failure ends the run meanwhile, `asyncio.run` cancels that task in its grace period, and a process that ignores SIGTERM is never killed. (In `media`, where the last artefact waits for its own processes, bounds and clean-up hold.)
3. **Motions stay old in a persistent workspace** (`stale_motions`). With live2d-associated alone, `_ensure_manifest_motion_outputs` (`postprocess/dispatch.py:357`) is content with the files an earlier restore left, so a changed motion bundle is never restored again, while the audit index takes its new checksum.

Smaller observations, of code the models follow as it is:

* `EXTRACT_ADAPTIVE_MEDIA_SLOTS` equal to the number of workers lets media bundles take every worker (`pipeline/__init__.py:279`), although its docstring keeps one light slot; `LightSlotKept` holds for the default.
* `_closure_bfs` looks for an ancestor along first paths only (`extract/glb/planner.py:299`): two roots that depend on each other are no recorded cycle, though the module's docstring (6-8) says cycles are classified into records and `cycles_fatal` should refuse them. `CyclesReal` is the direction that holds.
* `export_root_glb_sync` says its files are published atomically together (`sync_worker.py:625`); it replaces three files one by one. Readiness of downloads checks that files exist, not their checksum.
* A crash between the writes of `index.json` and `current.json` makes `_read_current` refuse until `disable`; after an incomplete rollback receipts may name another candidate.
* A timed-out MP3, FLAC or MP4 transcode is dropped without failing the artefact, while a timed-out HCA decode fails it. Work in a pool goes on after its job was cancelled. A second cancellation skips the clean-up of a transcode's directory. A temporary directory of the artefact is then removed with it; in a persistent `ASSET_LOCAL_EXTRACTED_DIR` or an aggregate workspace the `.ffmpeg-*` directory survives the run (`StagingRemoved`).
* A second cancellation (a second Ctrl-C, say) while `run_pipeline` is in its abort handler (1583-1588) skips the drain, so bundles and staging directories of artefacts that wait in a queue stay on disk; met before the workers are cancelled, they go on until `asyncio.run` ends them (`AbortLeftovers`, `CancelledAgain`).
* `_cleanup_artifact` logs a staging directory it cannot remove and forgets it (785-791): nobody tries again (`CleanCompletion`).
* A pending item leaves the queue unpublished when the regional music selection no longer allows it (`cli/pending.py:128`), as `docs/REGIONAL_MUSIC_SELECTION.md` (56-57) asks; `PendingKept` names this exit and says the other half too, that no run publishes such a bundle. If the song comes back into scope, its marker makes the plan find it again (`Converges`).
* A row of a master table that is not a mapping becomes `{}` (`live2d/master_data.py:602`) "to keep malformed rows visible" to the association, which accepts `{}` silently. The snapshot keeps no `bundleName`, so the match by it never applies.
* A model bundle with two sibling roots makes the whole index invalid; one ambiguous candidate blocks the whole publication.
* The fingerprint of legacy Live2D covers moc3 files and motions: a model whose texture alone changed, or a storage added later, is not uploaded until something else changes.
* A legacy Live2D run that dies between its uploads and the write of its state leaves the storages with motions restored for the new moc3 files and the state with the old fingerprint. If the server then puts the old moc3 content back, the next run takes its state for current and skips, although the docstring of `postprocess/dispatch.py` (98-102) says that a crash midway causes a full rebuild on the next run. TLC shows it when `MocsNeverReturn` is dropped from `SkipIsSound` and `Moc` lets a content return.
* A row of `character2ds` whose asset name itself contains "back" or "still" attaches such a set to a model by the exact join, past the protection of those words.
* A crash while models are promoted leaves `.model-backup-*` below `extracted/live2d`, which the legacy upload copies too.

## 8. Limits

* `UpdaterRun` with a reverting server *and* a changing selection violates `MarkerTruthful`: an old pending item of a bundle that was deselected can be published over newer content after the server went back and forth. `MCUpdaterRun` lets a behaviour have one or the other (`world_kind`; a change of the music scope counts as one of the selection), and the theorem excludes the combination too.
* One permanently failing bundle keeps all markers of its run from being committed, so its companions are downloaded again by every run. `Converges` assumes failures end.
* `StateStore` lets directory operations reach the disk in the order they were made. Only `NoTornState` is stated so that it also holds if the operations since the last fsync reach the disk in any order.
* `FloorHeld` covers only what downloads write, for bundles whose manifest size is present and honest; extraction output is reserved nowhere in the code. In `Download` an unlink of a temporary file is taken to succeed (`Pipeline` has the failing one).
* `Media` has one artefact in its runs and an `rclone` storage; the tail of a run with several artefacts is `Pipeline`'s. A file of a conversion that stays beside its output (a `.wav` that could not be removed) is not followed.
* `Postprocess` restores one motion bundle in one step and copies a directory in one step or in part. Versions of bundles only rise. The explicit index, the selection manifest (and with it the observation that an explicit index in a temporary workspace fails after a legacy skip), the region scope and fingerprint of charts, remote listings, and audit evidence are left out. `Converges` promises the associated list only where the index may be published at all.
* `GlbPackage` walks at the grain of bundles: an object graph is the set of bundles each references. What lies behind an object whose type tree cannot be read is not followed, as in the code, where it is a warning (`collection.py:364-374`), so `ExportComplete` says nothing of it.
* Contents are identifiers: JSON validation, URL building, checksums of bytes, path and symlink checks, logging and profiling are left out. The sampler of `run_pipeline` is left out with the profiler.
* Not modelled: geometry, materials, animation curves, codecs, image and text handling, moc3 and motion3 validation (pure data transformation without the interleavings a model checker explores); the metadata requests (one after another, without retries or state); path security, how the music selection is computed, and the command line.
