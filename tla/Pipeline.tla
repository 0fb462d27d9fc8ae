------------------------------ MODULE Pipeline ------------------------------
(***************************************************************************)
(* updater/pipeline/__init__.py: run_pipeline and its stage workers.       *)
(*                                                                         *)
(* Bundles flow download -> extract -> upload through bounded queues.  All *)
(* workers are asyncio tasks, so what runs between two awaits is one step. *)
(* asyncio.Queue.join and ExtractionScheduler.wait_idle both mean "nothing *)
(* queued, nothing claimed and not yet given back" (Drained).              *)
(*                                                                         *)
(* Data are abstracted: an item of dl_list is its 1-based position, the    *)
(* temporary files of an item are members of the sets tempBundle and       *)
(* staging, and a worker's program counter names the await it is at.       *)
(***************************************************************************)
EXTENDS Naturals, Sequences, FiniteSets, SequencesExt

CONSTANTS
  NItems,        \* length of dl_list
  CachedBundle,  \* items downloaded into a configured bundle cache
  SharedOutput,  \* items extracted into a root that is not theirs to remove
  Media,         \* items the media hints match
  Undeletable,   \* items whose temporary bundle the OS refuses to unlink
  Unremovable,   \* items whose staging directory the OS refuses to remove
  Downloaders, Extractors, Uploaders,      \* the worker tasks of each stage
  ExtractCap, UploadCap,                   \* PIPELINE_STAGE_QUEUE_SIZE
  Modes,         \* EXTRACT_SCHEDULER_MODE: "plain" for fixed, "open" for adaptive
  MediaSlots     \* EXTRACT_ADAPTIVE_MEDIA_SLOTS

Items == 1..NItems
Workers == Downloaders \cup Extractors \cup Uploaders
Stages == {"download", "extract", "upload"}
NoItem == 0
Sentinel == 0    \* _QUEUE_SENTINEL; never an item

ASSUME PipelineAssumption ==
  /\ NItems \in Nat
  /\ CachedBundle \subseteq Items /\ SharedOutput \subseteq Items
  /\ Media \subseteq Items
  /\ Undeletable \subseteq Items /\ Unremovable \subseteq Items
  /\ IsFiniteSet(Workers)
  /\ Downloaders # {} /\ Extractors # {} /\ Uploaders # {}
  /\ Downloaders \cap Extractors = {}
  /\ Downloaders \cap Uploaders = {}
  /\ Extractors \cap Uploaders = {}
  /\ ExtractCap \in Nat \ {0} /\ UploadCap \in Nat \ {0}
  /\ MediaSlots \in Nat \ {0}
  /\ Modes \subseteq {"plain", "open"}

VARIABLES
  main,         \* the await run_pipeline is at
  sentinels,    \* sentinels _put_sentinels has put into the current queue
  queue,        \* stage -> pending entries, oldest first
  extractQueue, \* "plain", or the scheduler: "open", "closed" to new work
  pc, item,     \* worker -> the await it is at, the item it holds
  progress,     \* PipelineProgress._states
  failedTasks,  \* failed_tasks, in the order of the appends
  tempBundle,   \* items whose temporary bundle file exists
  staging,      \* items whose temporary extraction directory exists
  published     \* items whose outputs reached every storage

files == <<tempBundle, staging, published>>
books == <<progress, failedTasks>>
control == <<main, sentinels, extractQueue>>
Adaptive == extractQueue # "plain"

vars == <<control, queue, pc, item, books, files>>

StageStates == {"download_waiting", "download_running", "extract_waiting",
                "extract_running", "upload_waiting", "upload_running"}
Outcomes == {"succeeded", "failed"}

Pcs == {"idle", "reserve", "fetch", "put_extract", "claimed", "extract", "put_upload",
        "cleanup", "upload", "exited", "dead", "cancelled"}

\* The steps at which a worker has an item in hand.
Working == Pcs \ {"idle", "exited", "dead", "cancelled"}

Init ==
  /\ main = "downloads" /\ sentinels = 0 /\ extractQueue \in Modes
  /\ queue = [s \in Stages |->
               IF s = "download"
               THEN [k \in 1..(NItems + Cardinality(Downloaders)) |->
                       IF k <= NItems THEN k ELSE Sentinel]
               ELSE <<>>]
  /\ pc = [w \in Workers |-> "idle"]
  /\ item = [w \in Workers |-> NoItem]
  /\ progress = [i \in Items |-> "download_waiting"]
  /\ failedTasks = <<>>
  /\ tempBundle = {} /\ staging = {} /\ published = {}
-----------------------------------------------------------------------------
(* PipelineProgress: a transition from another state than the expected one *)
(* and a second outcome are ignored.                                       *)

Transition(i, expected, next) ==
  [progress EXCEPT ![i] = IF @ = expected THEN next ELSE @]

Finish(i, outcome) ==
  [progress EXCEPT ![i] = IF @ \in Outcomes THEN @ ELSE outcome]

At(w, p, i) == pc' = [pc EXCEPT ![w] = p] /\ item' = [item EXCEPT ![w] = i]

\* Removing the temporary bundle of i (a no-op for a cached bundle).
Unlinked(i) == tempBundle \ ({i} \ Undeletable)

\* Removing the staging directory of i: _cleanup_artifact logs a failure and
\* forgets the directory, so there is no second try.
Cleared(i) == staging \ ({i} \ Unremovable)

\* Workers take normal steps until somebody has called task.cancel().
Live == main \in {"downloads", "extracts", "uploads", "gather", "stopping", "leaving"}

\* No task of the run takes a step any more.
AllGone == \A w \in Workers : pc[w] \in {"exited", "dead", "cancelled"}

\* What the live workers of W hold: claimed and not yet given back.
Held(W) == {item[w] : w \in {v \in W : pc[v] \notin {"dead", "cancelled"}}} \ {NoItem}

StageWorkers(s) == CASE s = "download" -> Downloaders
                     [] s = "extract" -> Extractors
                     [] s = "upload" -> Uploaders

\* asyncio.Queue.join, ExtractionScheduler.wait_idle
Drained(s) == queue[s] = <<>> /\ Held(StageWorkers(s)) = {}

\* Mutant: a media slot cap of zero.
Mut_AdmissibleNever(i) == i \notin Media

\* ExtractionScheduler._admissible; in fixed mode the queue is plain FIFO
Admissible(i) ==
  ~Adaptive \/ i \notin Media \/ Cardinality(Held(Extractors) \cap Media) < MediaSlots

FirstAdmissible ==
  {k \in DOMAIN queue["extract"] :
     /\ Admissible(queue["extract"][k])
     /\ \A j \in 1..(k - 1) : ~Admissible(queue["extract"][j])}
-----------------------------------------------------------------------------
(* Download workers.                                                       *)

\* _download_stage takes an item; it goes on to reserve a destination.
DownloadGet(w) ==
  /\ Live /\ pc[w] = "idle"
  /\ queue["download"] # <<>> /\ Head(queue["download"]) # Sentinel
  /\ LET i == Head(queue["download"]) IN
       /\ At(w, "reserve", i)
       /\ progress' = Transition(i, "download_waiting", "download_running")
  /\ queue' = [queue EXCEPT !["download"] = Tail(@)]
  /\ UNCHANGED <<control, failedTasks, files>>

\* _prepare_download_destination: a temporary file unless a cache is configured
Reserve(w) ==
  /\ Live /\ pc[w] = "reserve"
  /\ At(w, "fetch", item[w])
  /\ tempBundle' = tempBundle \cup ({item[w]} \ CachedBundle)
  /\ UNCHANGED <<control, queue, books, staging, published>>

\* Mutant: the transition to extract_waiting is forgotten.
Mut_FetchedUntracked(w) ==
  /\ Live /\ pc[w] = "fetch"
  /\ At(w, "put_extract", item[w])
  /\ UNCHANGED <<control, queue, books, files>>

\* _download_with_reservation succeeded; the artifact waits for a queue slot
Fetched(w) ==
  /\ Live /\ pc[w] = "fetch"
  /\ At(w, "put_extract", item[w])
  /\ progress' = Transition(item[w], "download_running", "extract_waiting")
  /\ UNCHANGED <<control, queue, failedTasks, files>>

PutExtract(w) ==
  /\ Live /\ pc[w] = "put_extract"
  /\ Len(queue["extract"]) < ExtractCap
  /\ queue' = [queue EXCEPT !["extract"] = Append(@, item[w])]
  /\ At(w, "idle", NoItem)
  /\ UNCHANGED <<control, books, files>>

\* The Exception handler: unlink, then book the failure.
DownloadFail(w) ==
  /\ Live /\ pc[w] \in {"reserve", "fetch"}
  /\ item[w] \notin tempBundle \cap Undeletable
  /\ tempBundle' = Unlinked(item[w])
  /\ failedTasks' = Append(failedTasks, item[w])
  /\ progress' = Finish(item[w], "failed")
  /\ At(w, "idle", NoItem)
  /\ UNCHANGED <<control, queue, staging, published>>

\* Mutant: the failing unlink is swallowed and the failure never booked.
Mut_DownloadDieSilent(w) ==
  /\ Live /\ pc[w] = "fetch"
  /\ item[w] \in tempBundle \cap Undeletable
  /\ At(w, "idle", NoItem)
  /\ UNCHANGED <<control, queue, books, files>>

\* The unlink of the handler raises before the failure is booked: the worker
\* task ends with that exception.
DownloadDie(w) ==
  /\ Live /\ pc[w] = "fetch"
  /\ item[w] \in tempBundle \cap Undeletable
  /\ At(w, "dead", item[w])
  /\ UNCHANGED <<control, queue, books, files>>
-----------------------------------------------------------------------------
(* Extract workers, fixed (_extract_stage) and adaptive                    *)
(* (_adaptive_extract_stage), around _extract_one_artifact.                *)

Claim(w) ==
  /\ Live /\ pc[w] = "idle"
  /\ \E k \in FirstAdmissible :
       LET i == queue["extract"][k] IN
       /\ i # Sentinel
       /\ queue' = [queue EXCEPT !["extract"] = RemoveAt(@, k)]
       /\ At(w, "claimed", i)
       /\ progress' = Transition(i, "extract_waiting", "extract_running")
  /\ UNCHANGED <<control, failedTasks, files>>

\* Mutant: the bundle is removed before it is extracted.
Mut_StartExtractUnlinks(w) ==
  /\ Live /\ pc[w] = "claimed"
  /\ At(w, "extract", item[w])
  /\ staging' = staging \cup ({item[w]} \ SharedOutput)
  /\ tempBundle' = Unlinked(item[w])
  /\ UNCHANGED <<control, queue, books, published>>

\* The stat of the bundle is over; the try block begins and creates the
\* artifact's own staging directory.
StartExtract(w) ==
  /\ Live /\ pc[w] = "claimed"
  /\ At(w, "extract", item[w])
  /\ staging' = staging \cup ({item[w]} \ SharedOutput)
  /\ UNCHANGED <<control, queue, books, tempBundle, published>>

Extracted(w) ==
  /\ Live /\ pc[w] = "extract"
  /\ At(w, "put_upload", item[w])
  /\ tempBundle' = Unlinked(item[w])
  /\ progress' = Transition(item[w], "extract_running", "upload_waiting")
  /\ UNCHANGED <<control, queue, failedTasks, staging, published>>

PutUpload(w) ==
  /\ Live /\ pc[w] = "put_upload"
  /\ Len(queue["upload"]) < UploadCap
  /\ queue' = [queue EXCEPT !["upload"] = Append(@, item[w])]
  /\ At(w, "idle", NoItem)
  /\ UNCHANGED <<control, books, files>>

\* The Exception handler books the failure, then awaits the cleanup.
ExtractFail(w) ==
  /\ Live /\ pc[w] = "extract"
  /\ At(w, "cleanup", item[w])
  /\ progress' = Finish(item[w], "failed")
  /\ failedTasks' = Append(failedTasks, item[w])
  /\ UNCHANGED <<control, queue, files>>

\* Mutant: the failure is booked a second time after the cleanup.
Mut_ExtractCleanupRebooks(w) ==
  /\ Live /\ pc[w] = "cleanup"
  /\ tempBundle' = Unlinked(item[w])
  /\ staging' = Cleared(item[w])
  /\ failedTasks' = Append(failedTasks, item[w])
  /\ At(w, "idle", NoItem)
  /\ UNCHANGED <<control, queue, progress, published>>

ExtractCleanup(w) ==
  /\ Live /\ pc[w] = "cleanup"
  /\ tempBundle' = Unlinked(item[w])
  /\ staging' = Cleared(item[w])
  /\ At(w, "idle", NoItem)
  /\ UNCHANGED <<control, queue, books, published>>
-----------------------------------------------------------------------------
(* Upload workers, and the ways any worker leaves its loop.                *)

UploadGet(w) ==
  /\ Live /\ pc[w] = "idle"
  /\ queue["upload"] # <<>> /\ Head(queue["upload"]) # Sentinel
  /\ LET i == Head(queue["upload"]) IN
       /\ At(w, "upload", i)
       /\ progress' = Transition(i, "upload_waiting", "upload_running")
  /\ queue' = [queue EXCEPT !["upload"] = Tail(@)]
  /\ UNCHANGED <<control, failedTasks, files>>

\* Mutant: no cleanup after a successful upload.
Mut_UploadedKeepsStaging(w) ==
  /\ Live /\ pc[w] = "upload"
  /\ published' = published \cup {item[w]}
  /\ progress' = Finish(item[w], "succeeded")
  /\ At(w, "idle", NoItem)
  /\ UNCHANGED <<control, queue, failedTasks, tempBundle, staging>>

Uploaded(w) ==
  /\ Live /\ pc[w] = "upload"
  /\ published' = published \cup {item[w]}
  /\ progress' = Finish(item[w], "succeeded")
  /\ staging' = Cleared(item[w])
  /\ At(w, "idle", NoItem)
  /\ UNCHANGED <<control, queue, failedTasks, tempBundle>>

\* Mutant: an upload error is logged and nothing else.
Mut_UploadFailUnbooked(w) ==
  /\ Live /\ pc[w] = "upload"
  /\ staging' = Cleared(item[w])
  /\ At(w, "idle", NoItem)
  /\ UNCHANGED <<control, queue, books, tempBundle, published>>

UploadFail(w) ==
  /\ Live /\ pc[w] = "upload"
  /\ failedTasks' = Append(failedTasks, item[w])
  /\ progress' = Finish(item[w], "failed")
  /\ staging' = Cleared(item[w])
  /\ At(w, "idle", NoItem)
  /\ UNCHANGED <<control, queue, tempBundle, published>>

TakeSentinel(s, w) ==
  /\ Live /\ pc[w] = "idle"
  /\ queue[s] # <<>> /\ Head(queue[s]) = Sentinel
  /\ queue' = [queue EXCEPT ![s] = Tail(@)]
  /\ At(w, "exited", NoItem)
  /\ UNCHANGED <<control, books, files>>

\* claim() returns None once the scheduler is closed and drained.
ClaimNone(w) ==
  /\ Live /\ pc[w] = "idle"
  /\ extractQueue = "closed" /\ queue["extract"] = <<>>
  /\ At(w, "exited", NoItem)
  /\ UNCHANGED <<control, queue, books, files>>
-----------------------------------------------------------------------------
(* run_pipeline itself.                                                    *)

DownloadsJoined ==
  /\ main = "downloads" /\ Drained("download")
  /\ main' = "extracts"
  /\ UNCHANGED <<sentinels, extractQueue, queue, pc, item, books, files>>

\* One put of _put_sentinels into the queue of stage s with its bound cap
PutSentinel(s, cap) ==
  /\ sentinels < Cardinality(StageWorkers(s))
  /\ Len(queue[s]) < cap
  /\ queue' = [queue EXCEPT ![s] = Append(@, Sentinel)]
  /\ sentinels' = sentinels + 1
  /\ UNCHANGED <<main, extractQueue, pc, item, books, files>>

PutExtractSentinel ==
  main = "extracts" /\ ~Adaptive /\ PutSentinel("extract", ExtractCap)

PutUploadSentinel == main = "uploads" /\ PutSentinel("upload", UploadCap)

\* _await_extract_stage_completion
ExtractsJoined ==
  /\ main = "extracts"
  /\ Adaptive \/ sentinels = Cardinality(Extractors)
  /\ Drained("extract")
  /\ main' = "uploads" /\ sentinels' = 0 /\ extractQueue' = IF Adaptive THEN "closed" ELSE "plain"
  /\ UNCHANGED <<queue, pc, item, books, files>>

UploadsJoined ==
  /\ main = "uploads" /\ sentinels = Cardinality(Uploaders)
  /\ Drained("upload")
  /\ main' = "gather"
  /\ UNCHANGED <<sentinels, extractQueue, queue, pc, item, books, files>>

Complete ==
  /\ main = "gather" /\ \A w \in Workers : pc[w] = "exited"
  /\ main' = "completed"
  /\ UNCHANGED <<sentinels, extractQueue, queue, pc, item, books, files>>

\* The BaseException handler is entered: the caller cancelled run_pipeline,
\* or the worker monitor re-raised what ended a worker.
Stop ==
  /\ main \in {"downloads", "extracts", "uploads", "gather"}
  /\ main' = "stopping"
  /\ UNCHANGED <<sentinels, extractQueue, queue, pc, item, books, files>>

Cancelled == Stop

WorkerFailure == (\E w \in Workers : pc[w] = "dead") /\ Stop

\* task.cancel() for every task: a worker that waits for its queue has nothing to
\* clean and is gone with it, the others unwind one by one (CancelWorker).
CancelAll == pc' = [w \in Workers |-> IF pc[w] = "idle" THEN "cancelled" ELSE pc[w]]

\* The samplers are gathered first; only then is every worker cancelled.
CancelTasks ==
  /\ main = "stopping" /\ main' = "cancelling"
  /\ CancelAll
  /\ UNCHANGED <<sentinels, extractQueue, queue, item, books, files>>

\* A second cancellation meets run_pipeline in that handler, which is left at
\* once.  Before the workers are cancelled they go on without it; while it waits
\* for them, its gather cancels them a second time.
CancelledAgain ==
  /\ \/ main = "stopping" /\ main' = "leaving"
     \/ main = "cancelling" /\ main' = "abandoning"
  /\ UNCHANGED <<sentinels, extractQueue, queue, pc, item, books, files>>

\* asyncio.run, ending, cancels the tasks run_pipeline has left.
LoopCancels ==
  /\ main = "leaving" /\ main' = "abandoning"
  /\ CancelAll
  /\ UNCHANGED <<sentinels, extractQueue, queue, item, books, files>>

(* What a worker's files can look like once CancelledError has unwound it. *)
(*  - at "reserve" the mkstemp thread may still create the file, and no    *)
(*    handler knows its path;                                              *)
(*  - at "claimed" the stat is awaited outside the try block, so nothing   *)
(*    of the artifact is cleaned;                                          *)
(*  - an unlink is awaited: cancelled before its thread starts, it never   *)
(*    happens.  "fetch" includes that of the Exception handler, "extract"  *)
(*    that after the extraction, which is not tried again;                 *)
(*  - at "extract" the executor job cannot be cancelled and may recreate   *)
(*    the staging directory it writes to;                                  *)
(*  - at "cleanup" the unlink is awaited inside the Exception handler: the *)
(*    rest of that cleanup is skipped;                                     *)
(*  - cancelled twice, the unlink of the CancelledError handler is cut too.*)
BundleAfterCancel(w) ==
  CASE pc[w] = "reserve" -> {tempBundle, tempBundle \cup ({item[w]} \ CachedBundle)}
    [] pc[w] = "claimed" -> {tempBundle}
    [] pc[w] \in {"fetch", "extract", "cleanup"} -> {tempBundle, Unlinked(item[w])}
    [] pc[w] = "put_extract" /\ main = "abandoning" -> {tempBundle, Unlinked(item[w])}
    [] OTHER -> {Unlinked(item[w])}

StagingAfterCancel(w) ==
  CASE pc[w] = "extract" -> {staging, Cleared(item[w])}
    [] pc[w] = "cleanup" /\ item[w] \notin CachedBundle -> {staging}
    [] OTHER -> {Cleared(item[w])}

CancelWorker(w) ==
  /\ main \in {"cancelling", "abandoning"}
  /\ pc[w] \in Working
  /\ pc' = [pc EXCEPT ![w] = "cancelled"]
  /\ tempBundle' \in BundleAfterCancel(w)
  /\ staging' \in StagingAfterCancel(w)
  /\ UNCHANGED <<control, queue, item, books, published>>

\* Mutant: only the upload queue is drained for cleanup.
Mut_DrainUploadOnly ==
  /\ main = "cancelling" /\ AllGone
  /\ tempBundle' = tempBundle \ (ToSet(queue["upload"]) \ Undeletable)
  /\ staging' = staging \ (ToSet(queue["upload"]) \ Unremovable)
  /\ queue' = [queue EXCEPT !["upload"] = <<>>]
  /\ main' = "aborted"
  /\ UNCHANGED <<sentinels, extractQueue, pc, item, books, published>>

\* _cleanup_aborted_extract_stage and _cleanup_queued_artifacts, then raise
DrainQueues ==
  /\ main = "cancelling" /\ AllGone
  /\ LET queued == ToSet(queue["extract"]) \cup ToSet(queue["upload"]) IN
       /\ tempBundle' = tempBundle \ (queued \ Undeletable)
       /\ staging' = staging \ (queued \ Unremovable)
  /\ queue' = [queue EXCEPT !["extract"] = <<>>, !["upload"] = <<>>]
  /\ main' = "aborted"
  /\ UNCHANGED <<sentinels, extractQueue, pc, item, books, published>>

\* A second cancellation in that drain, at the unlink of the k-th bundle of the
\* extract queue, whose backlog a scheduler has already given up as a whole.
\* (Artifacts of the upload queue have no bundle: nothing is awaited for them.)
DrainCut ==
  /\ main = "cancelling" /\ AllGone
  /\ \E k \in DOMAIN queue["extract"] :
       /\ queue["extract"][k] \in Items \ CachedBundle
       /\ \E j \in {k - 1, k} :
            tempBundle' = tempBundle \ (ToSet(SubSeq(queue["extract"], 1, j)) \ Undeletable)
       /\ queue' = [queue EXCEPT !["extract"] =
                      IF Adaptive THEN <<>> ELSE SubSeq(@, k + 1, Len(@))]
  /\ main' = "abandoned"
  /\ UNCHANGED <<sentinels, extractQueue, pc, item, books, staging, published>>

\* The run ends without a drain.
Abandoned ==
  /\ main = "abandoning" /\ AllGone
  /\ main' = "abandoned"
  /\ UNCHANGED <<sentinels, extractQueue, queue, pc, item, books, files>>

Ended == main \in {"completed", "aborted", "abandoned"}

Finished == Ended /\ UNCHANGED vars
-----------------------------------------------------------------------------
DownloadStep(w) ==
  \/ DownloadGet(w) \/ Reserve(w) \/ Fetched(w) \/ PutExtract(w)
  \/ DownloadFail(w) \/ DownloadDie(w) \/ TakeSentinel("download", w)

ExtractStep(w) ==
  \/ Claim(w) \/ StartExtract(w) \/ Extracted(w) \/ PutUpload(w)
  \/ ExtractFail(w) \/ ExtractCleanup(w) \/ ClaimNone(w)
  \/ TakeSentinel("extract", w)

UploadStep(w) ==
  UploadGet(w) \/ Uploaded(w) \/ UploadFail(w) \/ TakeSentinel("upload", w)

RunStep ==
  \/ DownloadsJoined \/ PutExtractSentinel \/ ExtractsJoined
  \/ PutUploadSentinel \/ UploadsJoined \/ Complete
  \/ WorkerFailure \/ CancelTasks \/ DrainQueues
  \/ LoopCancels \/ Abandoned

Next ==
  \/ \E w \in Downloaders : DownloadStep(w)
  \/ \E w \in Extractors : ExtractStep(w)
  \/ \E w \in Uploaders : UploadStep(w)
  \/ \E w \in Workers : CancelWorker(w)
  \/ RunStep \/ Cancelled \/ CancelledAgain \/ DrainCut \/ Finished

Spec == Init /\ [][Next]_vars

\* The event loop runs every ready task, asyncio.run cancels what is left, and no
\* download, extraction or upload hangs for ever (HTTP, rclone and ffmpeg have
\* timeouts; the disk gate and OpenDAL have none: README, section 5).
Fairness ==
  /\ \A w \in Downloaders : WF_vars(DownloadStep(w))
  /\ \A w \in Extractors : WF_vars(ExtractStep(w))
  /\ \A w \in Uploaders : WF_vars(UploadStep(w))
  /\ \A w \in Workers : WF_vars(CancelWorker(w))
  /\ WF_vars(RunStep)

FairSpec == Spec /\ Fairness
-----------------------------------------------------------------------------
(* Properties.                                                             *)

\* The values every variable of the run may take.
TypeOK ==
  /\ main \in {"downloads", "extracts", "uploads", "gather", "stopping",
               "cancelling", "leaving", "abandoning",
               "completed", "aborted", "abandoned"}
  /\ sentinels \in Nat /\ extractQueue \in {"plain", "open", "closed"}
  /\ queue \in [Stages -> Seq(Items \cup {Sentinel})]
  /\ pc \in [Workers -> Pcs]
  /\ item \in [Workers -> Items \cup {NoItem}]
  /\ \A w \in Workers : pc[w] \in Working => item[w] \in Items
  /\ progress \in [Items -> StageStates \cup Outcomes]
  /\ failedTasks \in Seq(Items)
  /\ tempBundle \subseteq Items \ CachedBundle
  /\ staging \subseteq Items \ SharedOutput
  /\ published \subseteq Items

\* The progress state an item must have while a worker holds it at p.
PhaseOf(p) ==
  CASE p \in {"reserve", "fetch"} -> "download_running"
    [] p = "put_extract" -> "extract_waiting"
    [] p \in {"claimed", "extract"} -> "extract_running"
    [] p = "put_upload" -> "upload_waiting"
    [] p = "upload" -> "upload_running"
    [] OTHER -> "failed"

WaitingState(s) == CASE s = "download" -> "download_waiting"
                     [] s = "extract" -> "extract_waiting"
                     [] s = "upload" -> "upload_waiting"

\* The progress counters never lie: the state booked for an item is the one of
\* the worker or the queue that has it, so no transition() call is ever ignored
\* because its expected state is wrong.
ProgressTracksWork ==
  /\ \A w \in Workers : pc[w] \in Working => progress[item[w]] = PhaseOf(pc[w])
  /\ \A s \in Stages : \A k \in DOMAIN queue[s] :
       queue[s][k] # Sentinel => progress[queue[s][k]] = WaitingState(s)

Slots(s, i) == {s} \X {k \in DOMAIN queue[s] : queue[s][k] = i}
Hands(i) == {"worker"} \X {w \in Workers : item[w] = i}

Places(i) ==
  Slots("download", i) \cup Slots("extract", i) \cup Slots("upload", i) \cup Hands(i)

\* Until queues are drained for an abort, an unresolved item is in exactly one
\* place: no handoff between stages loses or duplicates a bundle.
NothingDropped ==
  main \notin {"aborted", "abandoned"} =>
    \A i \in Items : progress[i] \notin Outcomes => Cardinality(Places(i)) = 1

\* failed_tasks holds exactly the failed items, each once: a duplicate would make
\* validate_pending_queue reject the pending queue do_download writes from it.
FailedTasksExact ==
  /\ IsInjective(failedTasks)
  /\ ToSet(failedTasks) = {i \in Items : progress[i] = "failed"}

\* A run that returns has nothing queued and has tried to remove everything: the
\* only temporary bundles and staging directories left are those the OS refused to
\* remove, which _cleanup_artifact logs and forgets.
CleanCompletion ==
  main = "completed" =>
    /\ \A s \in Stages : Drained(s)
    /\ staging \subseteq Unremovable /\ tempBundle \subseteq Undeletable

\* What a run that raises may leave behind, besides what the OS refuses to remove:
\* files of an item a worker was cut with, while it was reserving, fetching,
\* extracting or cleaning up after a failure; and, only if a second cancellation
\* kept run_pipeline from its drain, files of items still waiting for the next
\* stage.  Nothing published or uploading keeps a temporary file.
AbortLeftovers ==
  LET cutIn(states) == {item[w] : w \in {v \in Workers :
                          pc[v] = "cancelled" /\ item[v] # NoItem
                          /\ progress[item[v]] \in states}}
      undrained(state) == {i \in Items : main = "abandoned" /\ progress[i] = state}
  IN main \in {"aborted", "abandoned"} =>
       /\ tempBundle \ Undeletable \subseteq
            cutIn({"download_running", "extract_running", "failed"})
              \cup undrained("extract_waiting")
       /\ staging \ Unremovable \subseteq
            cutIn({"extract_running", "failed"}) \cup undrained("upload_waiting")

\* Invariants I3 and I4 of docs/EXTRACTION_WORKER_ROADMAP.md: a bundle is removed
\* only after its download failed or its extraction ended, a staging directory
\* only after its upload or failure, or because the run is being cancelled.
RemovalOrder ==
  [][main \notin {"cancelling", "abandoning"} =>
       /\ \A i \in tempBundle \ tempBundle' : progress'[i] \in {"upload_waiting", "failed"}
       /\ \A i \in staging \ staging' : progress'[i] \in Outcomes]_vars

\* The promise of run_pipeline to its caller.
Batch == INSTANCE BatchRun WITH
  failures <- ToSet(failedTasks),
  result <- CASE main = "completed" -> "returned"
              [] main = "aborted" -> "raised"
              [] main \in {"leaving", "abandoning", "abandoned"} -> "abandoned"
              [] OTHER -> "running"

ImplementsBatchRun == Batch!Spec

\* The run ends: bounded queues, sentinels and the scheduler never leave
\* everybody waiting for everybody.
RunEnds == <>Ended

\* tests/extraction_scheduler_test.py: "no temporary files survive a cancelled
\* run".  The code breaks it (AbortLeftovers says how far).
NoFilesSurviveCancel ==
  main = "aborted" => tempBundle \subseteq Undeletable /\ staging \subseteq Unremovable
=============================================================================
