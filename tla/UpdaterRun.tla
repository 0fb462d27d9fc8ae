----------------------------- MODULE UpdaterRun -----------------------------
(***************************************************************************)
(* cli/runner.py, cli/pending.py, cli/lifecycle.py and net/plan.py: what   *)
(* one run after another does with the pending queue, the asset metadata   *)
(* and its provenance markers.                                             *)
(*                                                                         *)
(* The runs of one state directory exclude each other (SingleWriter of     *)
(* StateStore), and a commit of queue and metadata is one step (Atomicity  *)
(* of StateStoreProofs).  run_pipeline is the bag of its outcomes: each    *)
(* item is published or fails (ImplementsBatchRun of Pipeline).            *)
(*                                                                         *)
(* A bundle's checksum is a number.  An item carries the checksum its URL  *)
(* was built for; publishing it puts that content into storage.  Every     *)
(* bundle is one of the run's mode: each mode with a bundle pipeline has a *)
(* state directory of its own.                                             *)
(***************************************************************************)
EXTENDS Naturals, FiniteSets

CONSTANTS
  Bundles,
  RawCached,       \* bundles with a configured raw cache file
  MaxVersion,      \* checksums are 1..MaxVersion
  MayRevert,       \* the server may go back to an older checksum
  MayReselect,     \* what runs select may change between them
  MaxChanges       \* bound on the changes of one behaviour

ASSUME UpdaterAssumption ==
  /\ Bundles # {} /\ RawCached \subseteq Bundles
  /\ MaxVersion \in Nat \ {0} /\ MaxChanges \in Nat
  /\ MayRevert \in BOOLEAN /\ MayReselect \in BOOLEAN

None == 0
Versions == 1..MaxVersion
Contents == Versions \cup {None}
Items == [name : Bundles, version : Versions]
Names(items) == {i.name : i \in items}

VARIABLES
  server,      \* bundle -> the checksum of the server's manifest
  selection,   \* bundles the include and exclude lists select
  scope,       \* bundles the regional music selection allows; all, without one
  queue,       \* the pending queue; no file is the empty queue
  metadata,    \* the metadata and version caches are present
  sums, marks, \* bundle -> cached checksum, processed_checksum marker
  published,   \* bundle -> content in storage
  derived,     \* bundle -> content the post-processors last worked on
  run,         \* what the current run does, "idle" without one
  seen,        \* the manifest the run fetched
  candidates,  \* names of plan.candidates
  todo, failed,\* items of the download list not finished, or failed
  forced,      \* force_full_download
  delivered,   \* history: names published by the current or last run
  interrupted, \* history: the last run was stopped
  changes

world == <<server, selection, scope, changes>>
state == <<queue, metadata, sums, marks>>
storage == <<published, derived>>
decided == <<seen, candidates, forced>>
history == <<delivered, interrupted>>
local == <<run, decided, todo, failed, history>>
vars == <<world, state, storage, local>>

Init ==
  /\ server = [b \in Bundles |-> 1] /\ selection = Bundles /\ scope = Bundles
  /\ changes = 0
  /\ queue = {} /\ metadata = FALSE
  /\ sums = [b \in Bundles |-> None] /\ marks = [b \in Bundles |-> None]
  /\ published = [b \in Bundles |-> None] /\ derived = [b \in Bundles |-> None]
  /\ run = "idle" /\ seen = server /\ candidates = {}
  /\ todo = {} /\ failed = {} /\ forced = FALSE /\ delivered = {}
  /\ interrupted = FALSE
-----------------------------------------------------------------------------
(* Planning.                                                               *)

\* select_bundles_for_download
Selected == selection \cap scope

\* _select_changed_bundles: a changed checksum, a marker that is not of the present
\* checksum, or a raw cache file that is gone; everything in a full plan.
Candidates(force, missing) ==
  IF force \/ ~metadata
  THEN Selected
  ELSE {b \in Selected : \/ server[b] # sums[b]
                         \/ marks[b] # server[b]
                         \/ b \in missing}

\* Mutant: a pending item keeps the URL of its first attempt.
Mut_MergeStale(pending, new) ==
  pending \cup {i \in new : i.name \notin Names(pending)}

\* Mutant: pending items and candidates are just concatenated.
Mut_MergeNoDedupe(pending, new) == pending \cup new

\* _merge_pending_and_new_download_lists: a pending item takes the candidate's URL
Merge(pending, new) ==
  {i \in pending : i.name \notin Names(new)} \cup new

\* _load_pending_download_lists: a forced run starts over; otherwise the items that
\* the present scope still allows
Pending(force) == IF force THEN {} ELSE {i \in queue : i.name \in scope}

\* get_download_list, _load_pending_download_lists and the merge, under the state lock
Plan ==
  /\ run = "idle"
  /\ \E force \in BOOLEAN, missing \in SUBSET RawCached :
       /\ forced' = force
       /\ candidates' = Candidates(force, missing)
       /\ todo' = Merge(Pending(force),
                        {[name |-> b, version |-> server[b]] : b \in candidates'})
  /\ run' = "planned" /\ seen' = server /\ failed' = {} /\ delivered' = {}
  /\ interrupted' = FALSE
  /\ UNCHANGED <<world, state, storage>>

\* create_journal and replay_journal with the download list, the manifest and the
\* markers carried over; with nothing to do also the commit that clears the queue.
CommitPlan ==
  /\ run = "planned"
  /\ queue' = todo /\ metadata' = TRUE /\ sums' = seen
  /\ run' = IF todo = {} THEN "postprocess" ELSE "pipeline"
  /\ UNCHANGED <<world, marks, storage, decided, todo, failed, history>>
-----------------------------------------------------------------------------
(* do_download and what follows it.                                        *)

Publish(i) ==
  /\ run = "pipeline" /\ i \in todo
  /\ published' = [published EXCEPT ![i.name] = i.version]
  /\ todo' = todo \ {i}
  /\ delivered' = delivered \cup {i.name}
  /\ UNCHANGED <<world, state, derived, run, decided, failed, interrupted>>

Fail(i) ==
  /\ run = "pipeline" /\ i \in todo
  /\ todo' = todo \ {i} /\ failed' = failed \cup {i}
  /\ UNCHANGED <<world, state, storage, run, decided, history>>

\* Mutant: an update without failures leaves the markers alone.
Mut_SucceedUnmarked ==
  /\ run = "pipeline" /\ todo = {} /\ failed = {}
  /\ queue' = {}
  /\ run' = "postprocess"
  /\ UNCHANGED <<world, metadata, sums, marks, storage, decided, todo, failed, history>>

\* _commit_successful_selection: markers for plan.candidates, and an empty queue
Succeed ==
  /\ run = "pipeline" /\ todo = {} /\ failed = {}
  /\ marks' = [b \in Bundles |-> IF b \in candidates THEN seen[b] ELSE marks[b]]
  /\ queue' = {}
  /\ run' = "postprocess"
  /\ UNCHANGED <<world, metadata, sums, storage, decided, todo, failed, history>>

\* Mutant: a partial failure clears the queue.
Mut_PartialFailureClears ==
  /\ run = "pipeline" /\ todo = {} /\ failed # {}
  /\ queue' = {}
  /\ run' = "idle"
  /\ UNCHANGED <<world, metadata, sums, marks, storage, decided, todo, failed, history>>

\* The failed items replace the queue; no marker is committed and no
\* post-processor runs.
PartialFailure ==
  /\ run = "pipeline" /\ todo = {} /\ failed # {}
  /\ queue' = failed
  /\ run' = "idle"
  /\ UNCHANGED <<world, metadata, sums, marks, storage, decided, todo, failed, history>>

Postprocess ==
  /\ run = "postprocess"
  /\ derived' = published
  /\ run' = "idle"
  /\ UNCHANGED <<world, state, published, decided, todo, failed, history>>

\* An exception, a cancellation or a kill ends the run; the queue is kept.
Stop ==
  /\ run # "idle"
  /\ run' = "idle" /\ interrupted' = TRUE
  /\ UNCHANGED <<world, state, storage, decided, todo, failed, delivered>>
-----------------------------------------------------------------------------
(* The world.                                                              *)

ServerChanges(b, v) ==
  /\ changes < MaxChanges /\ v # server[b]
  /\ MayRevert \/ v > server[b]
  /\ server' = [server EXCEPT ![b] = v]
  /\ changes' = changes + 1
  /\ UNCHANGED <<selection, scope, state, storage, local>>

\* The include and exclude lists change; a run that selects nothing by them raises.
Reselect ==
  /\ changes < MaxChanges /\ MayReselect /\ run = "idle"
  /\ selection' \in (SUBSET Bundles) \ {{}, selection}
  /\ changes' = changes + 1
  /\ UNCHANGED <<server, scope, state, storage, local>>

\* The master tables or the configuration give another set of songs, maybe none.
Rescope ==
  /\ changes < MaxChanges /\ MayReselect /\ run = "idle"
  /\ scope' \in (SUBSET Bundles) \ {scope}
  /\ changes' = changes + 1
  /\ UNCHANGED <<server, selection, state, storage, local>>

RunStep ==
  \/ Plan \/ CommitPlan \/ Succeed \/ PartialFailure \/ Postprocess
  \/ \E i \in todo : Publish(i)

Next ==
  \/ RunStep \/ Stop \/ \E i \in todo : Fail(i)
  \/ \E b \in Bundles, v \in Versions : ServerChanges(b, v)
  \/ Reselect \/ Rescope

Spec == Init /\ [][Next]_vars

\* The updater is started again and again, and a run that is not stopped goes on.
FairSpec == Spec /\ WF_vars(RunStep)
-----------------------------------------------------------------------------
(* Properties.                                                             *)

\* Types of the variables.
TypeOK ==
  /\ server \in [Bundles -> Versions] /\ selection \subseteq Bundles /\ selection # {}
  /\ scope \subseteq Bundles
  /\ queue \subseteq Items /\ metadata \in BOOLEAN
  /\ sums \in [Bundles -> Contents] /\ marks \in [Bundles -> Contents]
  /\ published \in [Bundles -> Contents] /\ derived \in [Bundles -> Contents]
  /\ run \in {"idle", "planned", "pipeline", "postprocess"}
  /\ seen \in [Bundles -> Versions] /\ candidates \subseteq Bundles
  /\ todo \subseteq Items /\ failed \subseteq Items
  /\ forced \in BOOLEAN /\ interrupted \in BOOLEAN /\ delivered \subseteq Bundles
  /\ changes \in 0..MaxChanges

\* What the next run would skip is really there: a bundle whose marker and cached
\* checksum agree and that is not pending is in storage with that checksum, whatever
\* failed, was retried, was stopped or changed on the server before.
MarkerTruthful ==
  \A b \in Bundles :
    /\ marks[b] # None /\ marks[b] = sums[b] /\ b \notin Names(queue)
    => published[b] = marks[b]

\* load_pending_queue refuses a queue that names a bundle twice, and then every later
\* run stops there: no merge, retry or partial failure writes one.
QueueLoadable == \A i, j \in queue : i.name = j.name => i = j

\* "Interrupted runs cannot silently lose pending work": a bundle leaves the queue
\* only after this run published it, when a forced plan starts over, or when the
\* regional music selection no longer allows it.  And "a cached pending queue cannot
\* reintroduce music outside the current scope": no run publishes such a bundle.
PendingKept ==
  [][/\ \A i \in queue : \/ i.name \in Names(queue') \cup delivered'
                         \/ run = "planned" /\ (forced \/ i.name \notin scope)
     /\ delivered' \subseteq delivered \cup scope]_vars

\* When the world is quiet and nothing fails any more, every selected bundle gets
\* into storage and through the post-processors, with a marker that makes later runs
\* skip it.
Converges ==
  <>[](~interrupted /\ failed = {}) =>
    <>[](\A b \in Selected :
           /\ published[b] = server[b] /\ derived[b] = server[b]
           /\ marks[b] = server[b])
=============================================================================
