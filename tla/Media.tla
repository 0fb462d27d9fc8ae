------------------------------- MODULE Media --------------------------------
(***************************************************************************)
(* What one artifact does outside the extraction pool: its audio jobs,     *)
(* then its video jobs, then the upload of what they made (bundle.py,      *)
(* media/audio.py, media/video.py, storage/).  Every step runs a thread, a *)
(* pool worker or an external process under a shared semaphore, and every  *)
(* process is awaited by external_process.py: a timeout or a cancellation  *)
(* terminates it, kills it after a grace period, reaps it and removes its  *)
(* staging directory.  That directory lies in the artifact's own, which is *)
(* a temporary one or a persistent workspace.                              *)
(*                                                                         *)
(* A unit <<j, s>> is one such step s of job j.  All artifacts are started *)
(* by one asyncio.run: when its main task ends, every task still there is  *)
(* cancelled and awaited.                                                  *)
(***************************************************************************)
EXTENDS Naturals, Sequences, FiniteSets

CONSTANTS
  Artifacts,
  Groups,      \* artifact -> its groups of jobs, one gathered after the other
  Audio,       \* the jobs of audio groups; the others are videos
  Music,       \* audio jobs below a directory "music": encoded to FLAC too
  Backend,     \* HCA_DECODE_BACKEND: "auto", "python" or "vgmstream"
  Storage,     \* the backend of the storage: "rclone" or "opendal"
  Workspace,   \* artifact -> what its end does to its directory (see Removed)
  Undeletable, \* units whose staging directory rmtree leaves, without an error
  Slots        \* concurrency of "file", "decode", "encode", "demux", "video", "put"

VARIABLES
  stage,     \* artifact -> "extract", "upload", and how it ended
  group,     \* artifact -> the group it gathers
  told,      \* artifacts whose worker was cancelled
  job,       \* state of process_extracted_audio_file, _process_video_job
  at,        \* state of the coroutine that runs the unit
  left,      \* unit -> ways to do it that are left, the one in use first
  child,     \* state of the unit's thread, pool worker or process
  dir,       \* units whose staging directory exists
  encoder,   \* VideoRuntime._encoder
  loop       \* "running", "teardown", "closed": the event loop

vars == <<stage, group, told, job, at, left, child, dir, encoder, loop>>

JobsOf(a) == UNION {Groups[a][i] : i \in DOMAIN Groups[a]}
Jobs == UNION {JobsOf(a) : a \in Artifacts}
Owner(j) == CHOOSE a \in Artifacts : j \in JobsOf(a)

\* A job is one file of one artifact; an artifact without any gathers nothing,
\* once.
ASSUME MediaAssumption ==
  /\ Backend \in {"auto", "python", "vgmstream"}
  /\ Storage \in {"rclone", "opendal"}
  /\ Workspace \in [Artifacts -> {"removed", "stuck", "kept"}]
  /\ {"file", "decode", "encode", "demux", "video", "put"} \subseteq DOMAIN Slots
  /\ \A k \in DOMAIN Slots : Slots[k] \in Nat \ {0}
  /\ \A a \in Artifacts : Groups[a] \in Seq(SUBSET Jobs) /\ Groups[a] # << >>
  /\ \A a, b \in Artifacts : a # b => JobsOf(a) \cap JobsOf(b) = {}

Encodings(j) == IF j \in Music THEN {"mp3", "flac"} ELSE {"mp3"}
Steps(j) == {"put"} \cup IF j \in Audio THEN {"decode"} \cup Encodings(j)
                                        ELSE {"demux", "mp4"}
Units == UNION {{<<j, s>> : s \in Steps(j)} : j \in Jobs}
UnitsOf(a) == {u \in Units : Owner(u[1]) = a}

Reaping == {"after timeout", "after cancel", "cancelled again"}
UnitEnded == {"ok", "bad", "timeout", "cancelled", "dropped"}
JobEnded == {"done", "timeout", "cancelled"}
ArtifactEnded == {"done", "failed", "cancelled"}

Begun(j) == {u \in Units : u[1] = j /\ u[2] # "put" /\ at[u] # "idle"}
Outputs(j) == {u \in Begun(j) : at[u] = "ok" /\ u[2] # "demux"}

\* What get_encoder finds, once for the process
Encoders == {"hardware", "software"}

Init ==
  /\ stage = [a \in Artifacts |-> "extract"]
  /\ group = [a \in Artifacts |-> 1]
  /\ told = {}
  /\ job = [j \in Jobs |-> "new"]
  /\ at = [u \in Units |-> "idle"]
  /\ left = [u \in Units |-> << >>]
  /\ child = [u \in Units |-> "none"]
  /\ dir = {}
  /\ encoder \in Encoders
  /\ loop = "running"
-----------------------------------------------------------------------------
(* One unit: a slot, its attempts, and the child that does the work.       *)

\* _run_hca_to_wav tries two decoders in the order of the backend.
Decoders == CASE Backend = "auto"      -> <<"thread", "process">>
              [] Backend = "python"    -> <<"thread">>
              [] Backend = "vgmstream" -> <<"process", "thread">>

\* OpenDAL writes in the coroutine itself, like a thread that a cancellation
\* leaves alone.
Uploads == IF Storage = "rclone" THEN <<"process">> ELSE <<"thread">>

\* A video is encoded again in software when the hardware encoder fails.
Attempts(u) ==
  CASE u[2] = "decode" -> Decoders
    [] u[2] = "demux"  -> <<"pool">>
    [] u[2] = "put"    -> Uploads
    [] u[2] = "mp4" /\ encoder = "hardware" -> <<"process", "process">>
    [] OTHER           -> <<"process">>

Semaphore(u) == CASE u[2] \in {"mp3", "flac"} -> "encode"
                  [] u[2] = "mp4"             -> "video"
                  [] OTHER                    -> u[2]

Holds(u) == at[u] \in {"busy"} \cup Reaping

\* The semaphores of the media jobs are shared by all artifacts; each upload
\* has its own.
Rivals(u) == {v \in Units : /\ Semaphore(v) = Semaphore(u)
                            /\ u[2] = "put" => Owner(v[1]) = Owner(u[1])}
SlotFree(u) == Cardinality({v \in Rivals(u) : Holds(v)}) < Slots[Semaphore(u)]

Way(u) == Head(left[u])

WorkspaceOf(u) == Workspace[Owner(u[1])]
Ended(u) == stage[Owner(u[1])] \in ArtifactEnded

\* No directory can be made where the artifact's is gone.
Gone(u) == Ended(u) /\ WorkspaceOf(u) = "removed"

\* shutil.rmtree(ignore_errors=True), for the staging directories of U
Cleaned(U) == dir \ (U \ Undeletable)

\* mkdtemp, then create_subprocess_exec, run_in_executor or to_thread
Launch(u, ways) ==
  LET staged == Head(ways) # "thread" /\ u[2] # "put"
  IN /\ staged => ~Gone(u)
     /\ at' = [at EXCEPT ![u] = "busy"]
     /\ left' = [left EXCEPT ![u] = ways]
     /\ child' = [child EXCEPT ![u] = "alive"]
     /\ dir' = IF staged THEN dir \cup {u} ELSE Cleaned({u})

\* The command is missing, or there is no directory any more: a removal that
\* failed may have taken the subdirectory.
CannotLaunch(u, ways) ==
  Head(ways) = "process" \/ (Ended(u) /\ WorkspaceOf(u) # "kept")

EndUnit(u, how) ==
  /\ at' = [at EXCEPT ![u] = how]
  /\ left' = [left EXCEPT ![u] = << >>]
  /\ child' = [child EXCEPT ![u] = "none"]
  /\ dir' = Cleaned({u})

\* The next attempt, the one after it, or none: a decoder that cannot be
\* started counts as failed, any other failing start ends the unit.
Try(u, ways) ==
  \/ Launch(u, ways)
  \/ CannotLaunch(u, ways) /\ IF u[2] = "decode" /\ Len(ways) > 1
                              THEN Launch(u, Tail(ways))
                              ELSE EndUnit(u, "bad")

\* async with semaphore
Enter(u) ==
  /\ at[u] = "slot"
  /\ SlotFree(u)
  /\ Try(u, Attempts(u))
  /\ UNCHANGED <<stage, group, told, job, encoder, loop>>

\* The child ends by itself, or of a signal: its return code is then known.
Exit(u) ==
  /\ child[u] \in {"alive", "killed"}
  /\ \E result \in {"zero", "nonzero"} : child' = [child EXCEPT ![u] = result]
  /\ UNCHANGED <<stage, group, told, job, at, left, dir, encoder, loop>>

\* The coroutine resumes with the result: the output is moved into place.  A
\* decoded file counts only once the file it was made from is removed.
Succeed(u) ==
  /\ at[u] = "busy" /\ child[u] = "zero"
  /\ \E how \in {"ok"} \cup (IF u[2] = "decode" THEN {"bad"} ELSE {}) : EndUnit(u, how)
  /\ UNCHANGED <<stage, group, told, job, encoder, loop>>

\* A failed child, or an output that is missing or unsafe.  The decoder falls
\* back after both, a transcode after the first.
Fail(u) ==
  /\ at[u] = "busy"
  /\ child[u] = "nonzero" \/ (child[u] = "zero" /\ u[2] # "put")
  /\ IF Len(left[u]) > 1 /\ (child[u] = "nonzero" \/ u[2] = "decode")
     THEN /\ Try(u, Tail(left[u]))
          /\ encoder' = IF u[2] = "mp4" THEN "software" ELSE encoder
     ELSE /\ EndUnit(u, "bad")
          /\ UNCHANGED encoder
  /\ UNCHANGED <<stage, group, told, job, loop>>

\* Mutant: the timeout is raised before the process is terminated.
Mut_TimeOut(u) ==
  /\ at[u] = "busy"
  /\ Way(u) = "process"
  /\ at' = [at EXCEPT ![u] = "timeout"]
  /\ dir' = Cleaned({u})
  /\ UNCHANGED <<stage, group, told, job, left, child, encoder, loop>>

\* wait_for_process: asyncio.timeout expires, perhaps just after the exit.
TimeOut(u) ==
  /\ at[u] = "busy"
  /\ Way(u) = "process"
  /\ at' = [at EXCEPT ![u] = "after timeout"]
  /\ UNCHANGED <<stage, group, told, job, left, child, dir, encoder, loop>>

\* Mutant: the process is waited for and never killed.
Mut_Grace(u) ==
  /\ at[u] \in Reaping /\ child[u] = "alive"
  /\ UNCHANGED vars

\* terminate_process, in a task of its own: SIGTERM may be ignored, and the
\* grace period ends with SIGKILL.
Grace(u) ==
  /\ at[u] \in Reaping /\ child[u] = "alive"
  /\ child' = [child EXCEPT ![u] = "killed"]
  /\ UNCHANGED <<stage, group, told, job, at, left, dir, encoder, loop>>

\* What a transcode leaves behind when ensure_process_terminated raises: it
\* has no handler of its own, and cleanup_process_output is not reached.
Kept(u) == u[2] = "mp4"

\* Mutant: the output is removed after a cancellation only.
Mut_Reaped(u) ==
  /\ at[u] \in Reaping /\ child[u] \in {"zero", "nonzero"}
  /\ IF at[u] = "after timeout"
     THEN at' = [at EXCEPT ![u] = "timeout"] /\ UNCHANGED <<left, child, dir>>
     ELSE EndUnit(u, "cancelled")
  /\ UNCHANGED <<stage, group, told, job, encoder, loop>>

\* The child is reaped: ensure_process_terminated returns or, if a
\* cancellation came in the meantime, raises.
Reaped(u) ==
  /\ at[u] \in Reaping /\ child[u] \in {"zero", "nonzero"}
  /\ \/ at[u] = "after timeout" /\ EndUnit(u, "timeout")
     \/ at[u] = "after cancel" /\ EndUnit(u, "cancelled")
     \/ at[u] = "cancelled again" /\ ~Kept(u) /\ EndUnit(u, "dropped")
     \/ /\ at[u] = "cancelled again" /\ Kept(u)
        /\ at' = [at EXCEPT ![u] = "dropped"]
        /\ UNCHANGED <<left, child, dir>>
  /\ UNCHANGED <<stage, group, told, job, encoder, loop>>
-----------------------------------------------------------------------------
(* Cancellation of units and jobs.                                         *)

\* A process is terminated first; a thread or a pool worker goes on alone.
CancelledUnit(u) ==
  CASE at[u] = "busy" /\ Way(u) = "process" -> "after cancel"
    [] at[u] = "busy" /\ Way(u) # "process" -> "cancelled"
    [] at[u] = "slot"                       -> "cancelled"
    [] at[u] \in Reaping                    -> "cancelled again"
    [] OTHER                                -> at[u]

\* Its task was created; it goes on when the artifact has ended.
Created(j) == j \in Groups[Owner(j)][group[Owner(j)]]

CancelledJob(j) ==
  CASE job[j] = "new" /\ Created(j) -> "cancelled"
    [] job[j] = "run"             -> "told"
    [] OTHER                      -> job[j]

CancelUnits(U) ==
  /\ at' = [u \in Units |-> IF u \in U THEN CancelledUnit(u) ELSE at[u]]
  /\ dir' = Cleaned({u \in U : at[u] = "busy" /\ Way(u) # "process"})
-----------------------------------------------------------------------------
(* One job: process_extracted_audio_file or _process_video_job.            *)

Current(a) == IF stage[a] = "extract" THEN Groups[a][group[a]] ELSE {}

\* Mutant: the first job that returns ends the gather.
Mut_Gathered(a) == stage[a] = "extract" /\ \E j \in Current(a) : job[j] = "done"

\* Every job of the group has returned.
Gathered(a) == stage[a] = "extract" /\ \A j \in Current(a) : job[j] = "done"

Open == {"run", "told"}

FileSlotFree(j) ==
  j \in Audio => Cardinality({k \in Audio : job[k] \in Open}) < Slots["file"]

\* An audio file is decoded unless it is a WAV, a movie is demuxed unless it
\* already is an elementary stream.
FirstUnits(j) ==
  IF j \in Audio THEN {{<<j, "decode">>}, {<<j, s>> : s \in Encodings(j)}}
  ELSE {{<<j, "demux">>}, {<<j, "mp4">>}}

Begin(j) ==
  /\ job[j] = "new" /\ Created(j) /\ FileSlotFree(j)
  /\ \E U \in FirstUnits(j) :
       /\ job' = [job EXCEPT ![j] = "run"]
       /\ at' = [u \in Units |-> IF u \in U THEN "slot" ELSE at[u]]
  /\ UNCHANGED <<stage, group, told, left, child, dir, encoder, loop>>

\* The file is missing or empty.
SkipFile(j) ==
  /\ job[j] = "new" /\ Created(j) /\ FileSlotFree(j)
  /\ job' = [job EXCEPT ![j] = "done"]
  /\ UNCHANGED <<stage, group, told, at, left, child, dir, encoder, loop>>

\* The units that follow a decoded file or a demuxed movie
NextUnits(j) ==
  CASE Begun(j) = {<<j, "decode">>} /\ at[<<j, "decode">>] = "ok"
         -> {<<j, s>> : s \in Encodings(j)}
    [] Begun(j) = {<<j, "demux">>} /\ at[<<j, "demux">>] = "ok" -> {<<j, "mp4">>}
    [] OTHER -> {}

UnitsEnded(j) == \A u \in Begun(j) : at[u] \in UnitEnded

Continue(j) ==
  /\ job[j] = "run" /\ UnitsEnded(j) /\ NextUnits(j) # {}
  /\ at' = [u \in Units |-> IF u \in NextUnits(j) THEN "slot" ELSE at[u]]
  /\ UNCHANGED <<stage, group, told, job, left, child, dir, encoder, loop>>

\* A decoder that times out fails the job.  A failed encoder, even one that
\* timed out, only loses its output.
Return(j) ==
  /\ job[j] = "run" /\ UnitsEnded(j) /\ NextUnits(j) = {}
  /\ job' = [job EXCEPT ![j] =
       IF \E u \in Begun(j) : u[2] = "decode" /\ at[u] = "timeout"
       THEN "timeout" ELSE "done"]
  /\ UNCHANGED <<stage, group, told, at, left, child, dir, encoder, loop>>

RaiseCancelled(j) ==
  /\ job[j] = "told" /\ UnitsEnded(j)
  /\ job' = [job EXCEPT ![j] = "cancelled"]
  /\ UNCHANGED <<stage, group, told, at, left, child, dir, encoder, loop>>
-----------------------------------------------------------------------------
(* One artifact: extract_asset_bundle, then the upload.                    *)

\* What _cleanup_artifact takes away: a temporary directory whole, whoever
\* still uses it; any part of it, when the removal fails, which is only logged;
\* nothing of ASSET_LOCAL_EXTRACTED_DIR or of an aggregate workspace.
Removed(a) ==
  CASE Workspace[a] = "removed" -> {UnitsOf(a)}
    [] Workspace[a] = "stuck"   -> SUBSET (dir \cap UnitsOf(a))
    [] Workspace[a] = "kept"    -> {{}}

EndArtifact(a, how) ==
  /\ stage' = [stage EXCEPT ![a] = how]
  /\ \E D \in Removed(a) : dir' = dir \ D
  /\ UNCHANGED <<group, told, job, at, left, child, encoder, loop>>

\* gather returns, and the next group starts
NextGroup(a) ==
  /\ Gathered(a) /\ a \notin told
  /\ group[a] < Len(Groups[a])
  /\ group' = [group EXCEPT ![a] = @ + 1]
  /\ UNCHANGED <<stage, told, job, at, left, child, dir, encoder, loop>>

\* The first job that raises ends the gather, not its siblings.
GatherRaises(a) ==
  \E j \in Current(a) :
    \/ job[j] = "timeout" /\ EndArtifact(a, "failed")
    \/ job[j] = "cancelled" /\ EndArtifact(a, "cancelled")

\* The cancellation came when the gather had nothing left to cancel.
CancelledLate(a) ==
  /\ a \in told /\ Gathered(a)
  /\ EndArtifact(a, "cancelled")

\* _cleanup_extracted_files and _validate_artifact_outputs, then the upload of
\* every output
StartUpload(a) ==
  /\ Gathered(a) /\ a \notin told /\ group[a] = Len(Groups[a])
  /\ stage' = [stage EXCEPT ![a] = "upload"]
  /\ at' = [u \in Units |-> IF u \in UnitsOf(a) /\ u[2] = "put" /\ Outputs(u[1]) # {}
                            THEN "slot" ELSE at[u]]
  /\ UNCHANGED <<group, told, job, left, child, dir, encoder, loop>>

\* A file cannot be removed, or an output is outside the directory.
CleanupFails(a) ==
  /\ Gathered(a) /\ a \notin told /\ group[a] = Len(Groups[a])
  /\ EndArtifact(a, "failed")

Puts(a) == {u \in UnitsOf(a) : u[2] = "put" /\ at[u] # "idle"}

\* gather with return_exceptions: every upload has ended.
EndUpload(a) ==
  /\ stage[a] = "upload"
  /\ \A u \in Puts(a) : at[u] \in UnitEnded
  /\ EndArtifact(a, IF a \in told THEN "cancelled"
                    ELSE IF \E u \in Puts(a) : at[u] # "ok" THEN "failed" ELSE "done")
-----------------------------------------------------------------------------
(* The run: its cancellation, and the end of asyncio.run.                  *)

\* run_pipeline cancels its workers, and each passes it on to what it gathers.
CancelRun ==
  /\ loop = "running" /\ told = {}
  /\ told' = {a \in Artifacts : stage[a] \notin ArtifactEnded}
  /\ told' # {}
  /\ LET J == UNION {Current(a) : a \in told'}
         U == (UNION {Begun(j) : j \in J}) \cup (UNION {Puts(a) : a \in told'})
     IN /\ job' = [j \in Jobs |-> IF j \in J THEN CancelledJob(j) ELSE job[j]]
        /\ CancelUnits(U)
  /\ UNCHANGED <<stage, group, left, child, encoder, loop>>

\* The main task has ended, or a second interrupt ends it: asyncio.run cancels
\* every task that is left, those that terminate a process included, and such a
\* process is not killed any more.
Teardown ==
  /\ loop = "running"
  /\ told # {} \/ \A a \in Artifacts : stage[a] \in ArtifactEnded
  /\ told' = told \cup {a \in Artifacts : stage[a] \notin ArtifactEnded}
  /\ loop' = "teardown"
  /\ job' = [j \in Jobs |-> CancelledJob(j)]
  /\ at' = [u \in Units |-> IF at[u] \in Reaping THEN "dropped" ELSE CancelledUnit(u)]
  /\ dir' = Cleaned({u \in Units : \/ at[u] = "busy" /\ Way(u) # "process"
                                   \/ at[u] \in Reaping /\ ~Kept(u)})
  /\ UNCHANGED <<stage, group, left, child, encoder>>

Close ==
  /\ loop = "teardown"
  /\ \A a \in Artifacts : stage[a] \in ArtifactEnded
  /\ \A j \in Jobs : job[j] \in JobEnded \cup {"new"}
  /\ \A u \in Units : at[u] \in UnitEnded \cup {"idle"}
  /\ loop' = "closed"
  /\ UNCHANGED <<stage, group, told, job, at, left, child, dir, encoder>>
-----------------------------------------------------------------------------
UnitStep(u) ==
  Enter(u) \/ Succeed(u) \/ Fail(u) \/ TimeOut(u) \/ Grace(u) \/ Reaped(u)

JobStep(j) ==
  Begin(j) \/ SkipFile(j) \/ Continue(j) \/ Return(j) \/ RaiseCancelled(j)

ArtifactStep(a) ==
  \/ NextGroup(a) \/ GatherRaises(a) \/ CancelledLate(a)
  \/ StartUpload(a) \/ CleanupFails(a) \/ EndUpload(a)

Next ==
  \/ \E u \in Units : UnitStep(u) \/ Exit(u)
  \/ \E j \in Jobs : JobStep(j)
  \/ \E a \in Artifacts : ArtifactStep(a)
  \/ CancelRun \/ Teardown \/ Close

Spec == Init /\ [][Next]_vars

\* Threads and pool workers end, and so does a killed process; any other
\* process may hang for ever.
Ends(u) == Exit(u) /\ (child[u] = "alive" => Way(u) # "process")

FairSpec ==
  /\ Spec
  /\ \A u \in Units : WF_vars(UnitStep(u)) /\ WF_vars(Ends(u))
  /\ \A j \in Jobs : WF_vars(JobStep(j))
  /\ \A a \in Artifacts : WF_vars(ArtifactStep(a))
  /\ WF_vars(Teardown) /\ WF_vars(Close)
-----------------------------------------------------------------------------
(* Properties.                                                             *)

\* Type invariant.
TypeOK ==
  /\ \A a \in Artifacts : stage[a] \in {"extract", "upload"} \cup ArtifactEnded
  /\ \A a \in Artifacts : group[a] \in DOMAIN Groups[a]
  /\ told \subseteq Artifacts
  /\ job \in [Jobs -> {"new"} \cup Open \cup JobEnded]
  /\ at \in [Units -> {"idle", "slot", "busy"} \cup Reaping \cup UnitEnded]
  /\ child \in [Units -> {"none", "alive", "killed", "zero", "nonzero"}]
  /\ dir \subseteq Units
  /\ encoder \in Encoders
  /\ loop \in {"running", "teardown", "closed"}

Live(u) == child[u] \in {"alive", "killed"}
Processes == {u \in Units : Live(u) /\ Way(u) = "process"}

\* However jobs fail, time out and are cancelled, there are never more
\* external processes of a kind than its semaphore allows: a slot is given
\* back only when the process that used it is reaped.
ChildrenBounded ==
  \A u \in Units : u[2] # "put" =>
    Cardinality({v \in Processes : v \in Rivals(u)}) <= Slots[Semaphore(u)]

\* An artifact is reported done only when nothing works on it any more and
\* every output of every job is whole and uploaded.
DoneIsComplete ==
  \A a \in Artifacts : stage[a] = "done" =>
    \A u \in UnitsOf(a) :
      /\ ~Live(u) /\ u \notin dir \ Undeletable
      /\ at[u] \in {"idle", "ok", "bad", "timeout"}
      /\ (u[2] # "put" /\ at[u] = "ok" /\ u[2] # "demux") => at[<<u[1], "put">>] = "ok"

\* Staging directories are removed with the unit that made them, whatever it
\* failed of, except when the OS refuses or when a transcode is cancelled again
\* while its process is being terminated; and those outlive the run only in a
\* workspace that the artifact does not remove, or could not.
StagingRemoved ==
  /\ \A u \in dir \ Undeletable :
       at[u] \in UnitEnded => at[u] = "dropped" /\ u[2] = "mp4"
  /\ loop = "closed" => \A u \in dir : WorkspaceOf(u) # "removed"

\* The run ends, whatever hangs: processes that ignore SIGTERM included.
RunEnds == <>(loop = "closed")

\* external_process.py: "Run one termination/reap sequence, even if the waiter
\* is cancelled repeatedly."  No process is left when the run is over.
NoChildOutlivesRun == loop = "closed" => Processes = {}
=============================================================================
