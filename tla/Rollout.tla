------------------------------ MODULE Rollout ------------------------------
(***************************************************************************)
(* live2d/rollout.py: candidate generations of the associated Live2D       *)
(* index, and the three files that make one of them current: index.json,   *)
(* current.json and the rollout state with its upload receipts.            *)
(*                                                                         *)
(* One process at a time works on the namespace; it may be killed at any   *)
(* step.  Every write replaces a file by rename and then fsyncs the        *)
(* parent, so a write that raises has or has not taken effect.  A document *)
(* that fails its validator is never written; what the model keeps of a    *)
(* pointer is the candidate it names, as its checksums are those of the    *)
(* candidate or the pointer is refused.  Damage(id) is any change on disk  *)
(* that makes _verify_candidate fail.                                      *)
(***************************************************************************)
EXTENDS Naturals, FiniteSets

CONSTANTS
  Ids,          \* candidate ids
  Indexes,      \* canonical indexes
  Publishable,  \* those _validate_publishable_index accepts
  Storages,     \* receipt keys of the remote storages
  None

ASSUME RolloutAssumption ==
  /\ Publishable \subseteq Indexes
  /\ None \notin Ids /\ None \notin Indexes

Files == {"index", "state", "current"}

\* RolloutState: a state that is not enabled, or has no current pointer, keeps
\* no receipts.
States == {s \in [enabled : BOOLEAN, current : Ids \cup {None},
                  receipts : SUBSET Storages] :
             /\ ~s.enabled => s.current = None
             /\ s.current = None => s.receipts = {}}

Contents == [index : Indexes \cup {None}, current : Ids \cup {None},
             state : States \cup {None}]

VARIABLES
  candidate,  \* id -> the index of the complete candidate directory, or None
  intact,     \* the candidates _verify_candidate accepts
  files,      \* what the three files hold; None for an absent file
  op,         \* the call in progress: kind, id, index, step, before
  outcome,    \* how the last call ended
  uploaded,   \* what each storage received last
  receipt,    \* an upload the caller has still to record: id and storages
  acceptable, \* history: candidates a reader may be given now
  torn        \* history: a rollback of the files was left incomplete

history == <<acceptable, torn>>
vars == <<candidate, intact, files, op, outcome, uploaded, receipt, history>>

Idle == [kind |-> "idle", id |-> None, index |-> None, step |-> "none", before |-> None]

Init ==
  /\ candidate = [i \in Ids |-> None] /\ intact = {}
  /\ files = [f \in Files |-> None]
  /\ op = Idle /\ outcome = "none"
  /\ uploaded = [s \in Storages |-> None] /\ receipt = None
  /\ acceptable = {None} /\ torn = FALSE
-----------------------------------------------------------------------------
\* _verify_candidate: the index parses, its outputs are valid and every
\* checksum and key of candidate.json is recomputed
Verified(i) == candidate[i] # None /\ i \in intact

\* _read_current returns instead of raising
Readable ==
  \/ files.current = None
  \/ /\ Verified(files.current)
     /\ files.index \in {None, candidate[files.current]}

\* What load_current_pointer gives a reader
Served == IF Readable THEN files.current ELSE "refused"

Snapshot == files

Finish(result, accepted) ==
  /\ op' = Idle /\ outcome' = result /\ acceptable' = accepted
  /\ torn' = (result = "incomplete" \/ (torn /\ ~(result = "ok" /\ op.step \in Files)))

\* A call that raises, or returns, before it has touched a file
Return(result) ==
  /\ outcome' = result
  /\ UNCHANGED <<candidate, intact, files, op, uploaded, receipt, history>>

Begin(kind, i, x, step) ==
  /\ op' = [kind |-> kind, id |-> i, index |-> x, step |-> step,
            before |-> Snapshot]
  /\ outcome' = "running"
  /\ UNCHANGED <<candidate, intact, files, uploaded, receipt, torn>>
-----------------------------------------------------------------------------
(* publish_candidate.                                                      *)

PublishCandidate(i, x) ==
  /\ op = Idle
  /\ IF x \in Publishable /\ Readable
     THEN Begin("publish", i, x, "stage") /\ UNCHANGED acceptable
     ELSE Return("failed")

\* The candidate exists: it must verify and hold the same index.
StageExisting ==
  /\ op.step = "stage" /\ candidate[op.id] # None
  /\ IF Verified(op.id) /\ candidate[op.id] = op.index
     THEN IF files.current = op.id
          THEN Finish("ok", acceptable)
          ELSE /\ op' = [op EXCEPT !.step = "index"]
               /\ acceptable' = acceptable \cup {op.id}
               /\ UNCHANGED <<outcome, torn>>
     ELSE Finish("failed", acceptable)
  /\ UNCHANGED <<candidate, intact, files, uploaded, receipt>>

\* A temporary directory is filled, verified and renamed; `synced` is whether
\* the fsync of the parent succeeds, and a staging that fails before the rename
\* leaves nothing.
StageNew(renamed, synced) ==
  /\ op.step = "stage" /\ candidate[op.id] = None
  /\ synced => renamed
  /\ IF renamed
     THEN candidate' = [candidate EXCEPT ![op.id] = op.index] /\ intact' = intact \cup {op.id}
     ELSE UNCHANGED <<candidate, intact>>
  /\ IF synced
     THEN /\ op' = [op EXCEPT !.step = "index"]
          /\ acceptable' = acceptable \cup {op.id}
          /\ UNCHANGED <<outcome, torn>>
     ELSE Finish("failed", acceptable)
  /\ UNCHANGED <<files, uploaded, receipt>>

\* rollback_live2d_associated
Rollback(i) ==
  /\ op = Idle
  /\ IF Verified(i) /\ candidate[i] \in Publishable /\ Readable
     THEN IF files.current = i THEN Return("ok")
          ELSE /\ Begin("rollback", i, candidate[i], "index")
               /\ acceptable' = acceptable \cup {i}
     ELSE Return("failed")

\* disable_live2d_associated; the current candidate is not read
Disable ==
  /\ op = Idle
  /\ Begin("disable", None, None, "state")
  /\ acceptable' = acceptable \cup {None}
-----------------------------------------------------------------------------
(* The writes of _write_current_transaction and of disable: current.json   *)
(* last, so that a reader sees one generation.                             *)

NextFile(kind, f) ==
  CASE f = "index" -> IF kind = "disable" THEN "current" ELSE "state"
    [] f = "state" -> IF kind = "disable" THEN "index" ELSE "current"
    [] f = "current" -> "none"

\* Mutant: the receipts of the previous generation are carried over.
Mut_NewState ==
  [enabled |-> op.kind # "disable", current |-> op.id,
   receipts |-> IF files.state = None \/ op.id = None THEN {} ELSE files.state.receipts]

\* A new generation has no receipts.
NewState == [enabled |-> op.kind # "disable", current |-> op.id, receipts |-> {}]

NewContent(f) ==
  CASE f = "index" -> op.index [] f = "state" -> NewState [] f = "current" -> op.id

Write ==
  /\ op.step \in Files
  /\ files' = [files EXCEPT ![op.step] = NewContent(op.step)]
  /\ IF NextFile(op.kind, op.step) = "none"
     THEN Finish("ok", {op.id})
     ELSE op' = [op EXCEPT !.step = NextFile(op.kind, op.step)] /\ UNCHANGED <<outcome, history>>
  /\ UNCHANGED <<candidate, intact, uploaded, receipt>>

Restoring(f) ==
  CASE f = "index" -> "restore index"
    [] f = "state" -> "restore state"
    [] f = "current" -> "restore current"

\* A write raises before or after its effect; the restore begins.
WriteFails(done) ==
  /\ op.step \in Files
  /\ files' = IF done THEN [files EXCEPT ![op.step] = NewContent(op.step)] ELSE files
  /\ op' = [op EXCEPT !.step = Restoring("index")]
  /\ UNCHANGED <<candidate, intact, outcome, uploaded, receipt, history>>

\* Mutant: the rollout state is not among the files put back.
Mut_AfterRestore(f) == IF f = "index" THEN "current" ELSE "none"

\* Mutant: current.json is not put back.
Mut_AfterRestoreState(f) == IF f = "index" THEN "state" ELSE "none"

AfterRestore(f) == IF f = "index" THEN "state" ELSE IF f = "state" THEN "current" ELSE "none"

\* One _restore_file: `done` is whether it took effect, `raised` whether it
\* raised.  publish and rollback try every file, disable stops at the first
\* that raises.
Restore(f, done, raised) ==
  /\ op.step = Restoring(f)
  /\ done \/ raised
  /\ files' = IF done THEN [files EXCEPT ![f] = op.before[f]] ELSE files
  /\ LET incomplete == raised \/ outcome = "restoring"
         last == AfterRestore(f) = "none" \/ (raised /\ op.kind = "disable")
     IN IF last
        THEN Finish(IF incomplete THEN "incomplete" ELSE "failed",
                    IF incomplete THEN acceptable ELSE {op.before.current})
        ELSE /\ op' = [op EXCEPT !.step = Restoring(AfterRestore(f))]
             /\ outcome' = IF incomplete THEN "restoring" ELSE outcome
             /\ UNCHANGED history
  /\ UNCHANGED <<candidate, intact, uploaded, receipt>>
-----------------------------------------------------------------------------
(* Upload receipts.                                                        *)

\* A caller uploads the current candidate to some storages, all of them or it
\* records nothing.
Upload(stores) ==
  /\ op = Idle /\ files.current # None /\ Readable
  /\ uploaded' = [s \in Storages |-> IF s \in stores THEN files.current ELSE uploaded[s]]
  /\ receipt' = [id |-> files.current, storages |-> stores]
  /\ outcome' = "none"
  /\ UNCHANGED <<candidate, intact, files, op, history>>

\* The checks of record_uploaded_storages
Recordable(i) ==
  /\ files.current # None /\ Readable /\ files.current = i
  /\ files.state # None /\ files.state.current # None => files.state.current = i

StoredReceipts == IF files.state = None THEN {} ELSE files.state.receipts

\* record_uploaded_storages; the write may raise after its effect
Record(synced) ==
  /\ op = Idle /\ receipt # None
  /\ receipt' = None
  /\ IF Recordable(receipt.id)
     THEN /\ files' = [files EXCEPT !.state =
                        [enabled |-> TRUE, current |-> files.current,
                         receipts |-> StoredReceipts \cup receipt.storages]]
          /\ outcome' = IF synced THEN "ok" ELSE "unsynced"
     ELSE files' = files /\ outcome' = "failed"
  /\ UNCHANGED <<candidate, intact, op, uploaded, history>>
-----------------------------------------------------------------------------
\* The process is killed; what it held in memory is gone.
Crash ==
  /\ op # Idle \/ receipt # None
  /\ op' = Idle /\ receipt' = None /\ outcome' = "none"
  /\ torn' = (torn \/ op.step \in {Restoring(f) : f \in Files})
  /\ UNCHANGED <<candidate, intact, files, uploaded, acceptable>>

Damage(i) ==
  /\ i \in intact /\ op = Idle
  /\ intact' = intact \ {i}
  /\ outcome' = "none"
  /\ UNCHANGED <<candidate, files, op, uploaded, receipt, history>>

Call ==
  \/ \E i \in Ids, x \in Indexes : PublishCandidate(i, x)
  \/ \E i \in Ids : Rollback(i)
  \/ Disable

Step ==
  \/ StageExisting
  \/ \E renamed, synced \in BOOLEAN : StageNew(renamed, synced)
  \/ Write
  \/ \E done \in BOOLEAN : WriteFails(done)
  \/ \E f \in Files, done, raised \in BOOLEAN : Restore(f, done, raised)

Receipts ==
  \/ \E stores \in (SUBSET Storages) \ {{}} : Upload(stores)
  \/ \E synced \in BOOLEAN : Record(synced)

Next == Call \/ Step \/ Receipts \/ Crash \/ \E i \in Ids : Damage(i)

Spec == Init /\ [][Next]_vars
-----------------------------------------------------------------------------
TypeOK ==
  /\ candidate \in [Ids -> Indexes \cup {None}]
  /\ intact \subseteq {i \in Ids : candidate[i] # None}
  /\ files \in Contents
  /\ op.kind \in {"idle", "publish", "rollback", "disable"}
  /\ op.before \in Contents \cup {None}
  /\ outcome \in {"none", "running", "restoring", "ok", "failed", "incomplete", "unsynced"}
  /\ uploaded \in [Storages -> Ids \cup {None}]
  /\ receipt \in [id : Ids, storages : SUBSET Storages] \cup {None}
  /\ acceptable \subseteq Ids \cup {None}

\* publish_candidate: "Validate, stage, and atomically make an associated
\* candidate current".  Whatever step a call is at, and wherever it was killed
\* or a write failed, a reader that is not refused is given the generation of
\* the last call that succeeded or one that a later, interrupted call was
\* making current; and its index is a publishable one.
ServedIsCommitted ==
  /\ Served \in acceptable \cup {"refused"}
  /\ Readable /\ Served # None => candidate[Served] \in Publishable

\* A call that reports a failure without an incomplete rollback has left the
\* three files as it found them.
FailureRestores ==
  [][op # Idle /\ outcome' = "failed" => files' = op.before]_vars

\* A receipt names a storage whose last upload was the candidate the state
\* calls current, so an upload it lets a run skip was done.  Not after a
\* rollback of the files was left incomplete: the state may then be that of
\* another candidate, and a later rollback can bring its receipts back.
ReceiptsTruthful ==
  ~torn /\ files.state # None =>
    \A s \in files.state.receipts : uploaded[s] = files.state.current
=============================================================================
