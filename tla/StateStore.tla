----------------------------- MODULE StateStore -----------------------------
(***************************************************************************)
(* updater/state.py: the pending queue, the asset metadata and the game    *)
(* version, three files changed together under a journal.                  *)
(*                                                                         *)
(* A directory is a function from file to content.  rename, link and       *)
(* unlink change the directory every process sees; only fsync of the       *)
(* directory makes the change durable.  `images` holds the directories a   *)
(* power loss may leave: those since the last fsync, as the operations of  *)
(* one directory reach the disk in order.  Temporary files are written and *)
(* fsynced before the rename or link that publishes them, so a published   *)
(* file is complete; a leftover temporary file is never read.              *)
(*                                                                         *)
(* Contents are the serial number of the update that wrote them; an absent *)
(* file is 0.  Processes are runs of the updater: each takes the state     *)
(* lock, recovers, and then uses the store as cli/runner.py and            *)
(* cli/lifecycle.py do.  A run can stop at any step, by an exception, an   *)
(* fsync error or a kill.                                                  *)
(***************************************************************************)
EXTENDS Naturals, FiniteSets

CONSTANTS Runs,        \* processes that may run the updater on one state dir
          NoRun,       \* nobody
          MaxSerial    \* bound on the updates of one behaviour

ASSUME StateStoreAssumption == Runs # {} /\ NoRun \notin Runs /\ MaxSerial \in Nat

Absent == 0
Serials == 0..MaxSerial
Files == {"queue", "asset_metadata", "game_version", "journal"}

VARIABLES
  dir,       \* file -> content, as every process sees it
  images,    \* the directories a power loss may leave
  lock,      \* the run that holds the flock, or NoRun
  pc,        \* run -> the step of state.py it is at
  txn,       \* run -> serial of the update it is writing
  kind,      \* run -> what it is doing: "replay", "empty" or "queue"
  serial,    \* last serial used
  acked,     \* logical state of the last call that returned
  attempts   \* logical states made visible since then

history == <<acked, attempts>>
vars == <<dir, images, lock, pc, txn, kind, serial, history>>

\* The state a run would work with: the journal is authoritative.
Logical(d) ==
  IF d["journal"] # Absent
  THEN [queue |-> d["journal"], generation |-> d["journal"]]
  ELSE [queue |-> d["queue"], generation |-> d["asset_metadata"]]

Init ==
  /\ dir = [f \in Files |-> Absent] /\ images = {dir}
  /\ lock = NoRun
  /\ pc = [r \in Runs |-> "down"]
  /\ txn = [r \in Runs |-> Absent] /\ kind = [r \in Runs |-> "replay"]
  /\ serial = 0
  /\ acked = Logical(dir) /\ attempts = {}
-----------------------------------------------------------------------------
Goto(r, p) == pc' = [pc EXCEPT ![r] = p]

\* os.replace, os.link or unlink: visible at once, durable after a sync
Publish(f, content) ==
  /\ dir' = [dir EXCEPT ![f] = content]
  /\ images' = images \cup {dir'}
  /\ attempts' = attempts \cup ({Logical(dir')} \ {Logical(dir)})
  /\ UNCHANGED acked

\* Mutant: the parent directory is not fsynced.
Mut_SyncNothing(r, p) ==
  /\ Goto(r, p)
  /\ UNCHANGED <<dir, images, lock, txn, kind, serial, history>>

\* _fsync_parent
Sync(r, p) ==
  /\ images' = {dir}
  /\ Goto(r, p)
  /\ UNCHANGED <<dir, lock, txn, kind, serial, history>>

\* Mutant: the call returns without the fsync.
Mut_ReturnUnsynced(r) ==
  /\ Goto(r, "ready")
  /\ acked' = Logical(dir) /\ attempts' = {}
  /\ UNCHANGED <<dir, images, lock, txn, kind, serial>>

\* The call returns to the runner.
SyncAndReturn(r) ==
  /\ images' = {dir}
  /\ Goto(r, "ready")
  /\ acked' = Logical(dir) /\ attempts' = {}
  /\ UNCHANGED <<dir, lock, txn, kind, serial>>
-----------------------------------------------------------------------------
\* Mutant: the lock is not exclusive.
Mut_AcquireShared(r) ==
  /\ pc[r] = "down"
  /\ lock' = r /\ Goto(r, "recover")
  /\ UNCHANGED <<dir, images, txn, kind, serial, history>>

\* StateLock.acquire; a second run fails and exits
Acquire(r) ==
  /\ pc[r] = "down" /\ lock = NoRun
  /\ lock' = r /\ Goto(r, "recover")
  /\ UNCHANGED <<dir, images, txn, kind, serial, history>>

\* Mutant: a journal left by an earlier run is ignored at startup.
Mut_RecoverSkips(r) ==
  /\ pc[r] = "recover"
  /\ Goto(r, "ready")
  /\ UNCHANGED <<dir, images, lock, txn, kind, serial, history>>

\* replay_journal at startup: _load_replay_envelope
Recover(r) ==
  /\ pc[r] = "recover"
  /\ IF dir["journal"] = Absent
     THEN Goto(r, "ready") /\ UNCHANGED <<txn, kind>>
     ELSE /\ Goto(r, "put_queue")
          /\ txn' = [txn EXCEPT ![r] = dir["journal"]]
          /\ kind' = [kind EXCEPT ![r] = "replay"]
  /\ UNCHANGED <<dir, images, lock, serial, history>>

\* Mutant: the three files are written without a journal.
Mut_BeginUnjournaled(r) ==
  /\ pc[r] = "ready" /\ serial < MaxSerial
  /\ serial' = serial + 1
  /\ txn' = [txn EXCEPT ![r] = serial + 1]
  /\ \E k \in {"replay", "empty", "queue"} :
       /\ kind' = [kind EXCEPT ![r] = k]
       /\ Goto(r, IF k = "queue" THEN "put_alone" ELSE "put_queue")
  /\ UNCHANGED <<dir, images, lock, history>>

\* The runner starts an update: create_journal and replay_journal,
\* commit_empty_transaction, or a queue file written or removed on its own.
Begin(r) ==
  /\ pc[r] = "ready" /\ serial < MaxSerial
  /\ serial' = serial + 1
  /\ txn' = [txn EXCEPT ![r] = serial + 1]
  /\ \E k \in {"replay", "empty", "queue"} :
       /\ kind' = [kind EXCEPT ![r] = k]
       /\ Goto(r, IF k = "queue" THEN "put_alone" ELSE "link")
  /\ UNCHANGED <<dir, images, lock, history>>

\* create_journal: the no-replace publication
LinkJournal(r) ==
  /\ pc[r] = "link" /\ dir["journal"] = Absent
  /\ Publish("journal", txn[r])
  /\ Goto(r, "sync_journal")
  /\ UNCHANGED <<lock, txn, kind, serial>>

SyncJournal(r) == pc[r] = "sync_journal" /\ Sync(r, "put_queue")

\* atomic_write_json of the three targets, in this order
Put(r, f, p) ==
  /\ Publish(f, txn[r])
  /\ Goto(r, p)
  /\ UNCHANGED <<lock, txn, kind, serial>>

PutQueue(r) == pc[r] = "put_queue" /\ Put(r, "queue", "sync_queue")
SyncQueue(r) == pc[r] = "sync_queue" /\ Sync(r, "put_metadata")
PutMetadata(r) == pc[r] = "put_metadata" /\ Put(r, "asset_metadata", "sync_metadata")
SyncMetadata(r) == pc[r] = "sync_metadata" /\ Sync(r, "put_version")
PutVersion(r) == pc[r] = "put_version" /\ Put(r, "game_version", "sync_version")

SyncVersion(r) ==
  pc[r] = "sync_version" /\ Sync(r, IF kind[r] = "empty" THEN "unlink" ELSE "verify")

\* replay_journal reads back what it wrote
Verify(r) ==
  /\ pc[r] = "verify"
  /\ \A f \in Files \ {"journal"} : dir[f] = txn[r]
  /\ Goto(r, "unlink")
  /\ UNCHANGED <<dir, images, lock, txn, kind, serial, history>>

\* durable_unlink of the journal
UnlinkJournal(r) ==
  /\ pc[r] = "unlink"
  /\ Publish("journal", Absent)
  /\ Goto(r, "sync_return")
  /\ UNCHANGED <<lock, txn, kind, serial>>

\* The merged or failed queue written on its own, or durable_unlink of an empty one
PutQueueAlone(r) ==
  /\ pc[r] = "put_alone"
  /\ \E content \in {txn[r], Absent} : Publish("queue", content)
  /\ Goto(r, "sync_return")
  /\ UNCHANGED <<lock, txn, kind, serial>>

Return(r) == pc[r] = "sync_return" /\ SyncAndReturn(r)

\* StateLock.release in the finally clause of the run
Release(r) ==
  /\ pc[r] = "ready" /\ lock = r
  /\ lock' = NoRun /\ Goto(r, "down")
  /\ UNCHANGED <<dir, images, txn, kind, serial, history>>

\* An exception ends the run, or the process is killed: the kernel drops the
\* lock, and the directory stays as it is.
Stop(r) ==
  /\ pc[r] # "down"
  /\ lock' = (IF lock = r THEN NoRun ELSE lock) /\ Goto(r, "down")
  /\ UNCHANGED <<dir, images, txn, kind, serial, history>>

PowerLoss ==
  /\ dir' \in images /\ images' = {dir'}
  /\ lock' = NoRun
  /\ pc' = [r \in Runs |-> "down"]
  /\ UNCHANGED <<txn, kind, serial, history>>

StoreStep(r) ==
  \/ Recover(r) \/ LinkJournal(r) \/ SyncJournal(r)
  \/ PutQueue(r) \/ SyncQueue(r) \/ PutMetadata(r) \/ SyncMetadata(r)
  \/ PutVersion(r) \/ SyncVersion(r) \/ Verify(r) \/ UnlinkJournal(r)
  \/ PutQueueAlone(r) \/ Return(r)

Next ==
  \/ \E r \in Runs : Acquire(r) \/ StoreStep(r) \/ Begin(r) \/ Release(r) \/ Stop(r)
  \/ PowerLoss

Spec == Init /\ [][Next]_vars

\* For the recovery property: the machine stops failing, a run is started, and
\* it takes its steps; Stop and PowerLoss happen finitely often at most.
Fairness ==
  /\ \A r \in Runs : WF_vars(StoreStep(r))
  /\ SF_vars(\E r \in Runs : Acquire(r))
  /\ \A r \in Runs : WF_vars(Release(r))
FairSpec == Spec /\ Fairness
-----------------------------------------------------------------------------
(* Properties.                                                             *)

Pcs == {"down", "recover", "ready", "link", "sync_journal", "put_queue", "sync_queue",
        "put_metadata", "sync_metadata", "put_version", "sync_version", "verify",
        "unlink", "put_alone", "sync_return"}

State == [queue : Serials, generation : Serials]

\* Types of the variables.
TypeOK ==
  /\ dir \in [Files -> Serials]
  /\ images \subseteq [Files -> Serials] /\ dir \in images
  /\ lock \in Runs \cup {NoRun}
  /\ pc \in [Runs -> Pcs]
  /\ txn \in [Runs -> Serials]
  /\ kind \in [Runs -> {"replay", "empty", "queue"}]
  /\ serial \in Serials
  /\ acked \in State /\ attempts \subseteq State

\* Nothing acknowledged is lost and nothing is invented: whatever a crash leaves
\* means the last acknowledged state, or one that was being written since.
CrashConsistent == \A d \in images : Logical(d) \in attempts \cup {acked}

\* No torn state: whatever a crash leaves, either a journal is there to replay, or
\* metadata and game version are of the same update.  It holds even if the
\* operations since the last fsync reach the disk in any order, each of them or
\* not, so the files are looked up in different images.
NoTornState ==
  \A j, m, v \in images :
    j["journal"] = Absent => m["asset_metadata"] = v["game_version"]

\* Only the holder of the lock touches the state, so no update interleaves with
\* another run's.
SingleWriter == \A r \in Runs : pc[r] # "down" => lock = r

\* replay_journal never fails its own verification, and create_journal never
\* meets a journal: recovery came first.
NeverBlocked ==
  \A r \in Runs :
    /\ pc[r] = "verify" => \A f \in Files \ {"journal"} : dir[f] = txn[r]
    /\ pc[r] = "link" => dir["journal"] = Absent

\* What the update run r is at may turn the logical state into.
Target(r) ==
  CASE pc[r] \in {"down", "recover", "ready", "sync_return"} -> {}
    [] pc[r] = "put_alone" ->
         {[queue |-> q, generation |-> Logical(dir).generation] : q \in {txn[r], Absent}}
    [] OTHER -> {[queue |-> txn[r], generation |-> txn[r]]}

Request == UNION {Target(r) : r \in Runs}

\* The store is atomic: it implements AtomicStore.
Store == INSTANCE AtomicStore WITH
  value <- Logical(dir), Values <- State,
  request <- Request,
  Initial <- [queue |-> Absent, generation |-> Absent]

ImplementsAtomicStore == Store!Spec

\* Recovery is idempotent and converges: a journal that is never interrupted for
\* ever is eventually replayed and removed.
JournalReplayed ==
  (<>[][\A r \in Runs : (Stop(r) => Release(r)) /\ ~PowerLoss]_vars) =>
    (dir["journal"] # Absent ~> dir["journal"] = Absent)
=============================================================================
