---------------------------- MODULE Postprocess ----------------------------
(***************************************************************************)
(* Specialized post-processing after a run's bundles have all succeeded:   *)
(* recovery of the Live2D model tree from the raw bundle cache, the legacy *)
(* Live2D restore with its incremental state, the associated projection    *)
(* with its audit index, and the charts.  The server's bundles, the master *)
(* tables and the music list change at any time; uploads, restores and     *)
(* downloads fail; the process crashes; one run follows another.           *)
(*                                                                         *)
(* A bundle's content is its version (never reused: a content hash), which *)
(* its paths are part of; the raw cache holds the version of the metadata  *)
(* the run fetched.  A restored bundle is at the path its metadata selects *)
(* (older outputs at another path are not kept track of).                  *)
(***************************************************************************)
EXTENDS Live2DAssociation

CONSTANTS
  Scores,            \* music scores, rendered to charts
  LegacyStorages, Storages, ChartStorages,   \* upload targets of each type
  Clips,             \* [motion bundle -> [version -> clip names per part]]
  Moc,               \* [model bundle -> [version -> moc3 content]]
  Layouts, Archives, \* metadata paths and master data the world may have
  Configs,           \* [enabled, forced, temporary, online] configurations
  MaxVersion,        \* bound on a bundle's version
  MaxChanges,        \* bound on changes of the world
  MaxFaults          \* bound on failures and crashes

VARIABLES
  world,     \* bundle versions, their paths, master data, known musics
  conf,      \* processors, forced mode, temporary workspace, online tables
  changes, faults,
  work,      \* extracted workspace: models, motions, charts, backup trees
  mstate, cstate,    \* live2d_motion_state.json and chart_state.json
  legacy, assoc, charts,   \* remote storages of each type
  audit,     \* the latest local association index
  pc, stage, \* where the run is; the processor it is in
  meta,      \* the metadata this run works from
  todo,      \* motions or scores still to do (in charts: rendered)
  targets,   \* storages still to serve
  uploads,   \* what is left to upload to the first of them
  index,     \* the validated association index
  failed     \* an associated storage has failed

\* What a restored motion bundle may be: the version, the path and the
\* parameter names it was restored with.
MocContents == UNION {{Moc[b][v] : v \in 0..MaxVersion} : b \in ModelBundles}
RestoredMotions ==
  [ver : Nat, at : {MotionPath(s, l) : s \in MotionBundles, l \in Layouts},
   params : [ModelBundles -> MocContents \cup {None}]]

\* A name, as Live2DAssociation takes it apart.
AssetNames == [v2 : BOOLEAN, num : Nat \cup {None}, words : Seq(STRING)]

\* None is neither a version nor a motion; bundles, storages and tables are
\* finite, names and paths are made of words.
ASSUME PostprocessAssumption ==
  /\ {MaxVersion, MaxChanges, MaxFaults} \subseteq Nat
  /\ None \notin Nat \cup RestoredMotions
  /\ \A S \in {ModelBundles, MotionBundles, LegacyStorages, Storages, ChartStorages} :
       IsFiniteSet(S)
  /\ \A b \in ModelBundles : IsFiniteSet(Docs[b])
  /\ NameOf \in [Live2DBundles -> AssetNames]
  /\ Layouts \subseteq [Live2DBundles -> Seq(Seq(STRING))]
  /\ \A a \in Archives :
       /\ {"costume2ds", "character2ds"} \subseteq DOMAIN a
       /\ IsFiniteSet(a.costume2ds) /\ IsFiniteSet(a.character2ds)
       /\ \A row \in a.character2ds : row.asset \in AssetNames \cup {None}

run == <<pc, stage, meta, todo, targets, uploads, index, failed>>
remote == <<legacy, assoc, charts>>
local == <<work, mstate, cstate, audit>>
env == <<world, conf, changes, faults>>
vars == <<env, local, remote, run>>

AllBundles == Live2DBundles \cup Scores
Live2DModes == {"live2d", "live2d-associated"}

EmptyWork == [models  |-> [b \in ModelBundles |-> None],
              motions |-> [s \in MotionBundles |-> None],
              charts  |-> [c \in Scores |-> None],
              backups |-> 0]

Init ==
  /\ world \in [ver : {[b \in AllBundles |-> 0]}, layout : Layouts,
                archive : Archives, musics : SUBSET Scores]
  /\ conf \in Configs
  /\ changes = 0 /\ faults = 0
  /\ work = EmptyWork
  /\ mstate = None /\ cstate = None /\ audit = None
  /\ legacy = [t \in LegacyStorages |->
                 [models |-> {}, motions |-> EmptyWork.motions, list |-> {}]]
  /\ assoc = [t \in Storages |->
                [files |-> {}, list |-> {},
                 content |-> [s \in Live2DBundles |-> None]]]
  /\ charts = [t \in ChartStorages |-> EmptyWork.charts]
  /\ pc = "idle" /\ stage = "idle" /\ meta = world
  /\ todo = {} /\ targets = <<>> /\ uploads = <<>>
  /\ index = None /\ failed = FALSE

----------------------------------------------------------------------------
(* The flow of a run. *)

Order == <<"live2d", "live2d-associated", "charts">>
StageAfter(s) ==
  LET later == {i \in DOMAIN Order : /\ Order[i] \in conf.enabled
                                     /\ \A j \in DOMAIN Order : Order[j] = s => i > j}
  IN IF later = {} THEN "idle" ELSE Order[CHOOSE i \in later : \A j \in later : i <= j]

Clear == /\ todo' = {} /\ targets' = <<>> /\ uploads' = <<>>
         /\ index' = None /\ failed' = FALSE

\* The processor s has returned: the next enabled one starts.
Return(s) ==
  /\ pc' = StageAfter(s) /\ stage' = StageAfter(s)
  /\ Clear /\ UNCHANGED meta

\* An exception leaves the run.
Abort == pc' = "idle" /\ stage' = "idle" /\ Clear /\ UNCHANGED meta

\* Optional processing is skipped with a warning; a forced mode raises.
SkipOrRaise(s) == IF conf.forced THEN Abort ELSE Return(s)

Fault == faults < MaxFaults /\ faults' = faults + 1 /\ UNCHANGED <<world, conf, changes>>

StartRun ==
  /\ pc = "idle"
  /\ meta' = world
  /\ work' = IF conf.temporary THEN EmptyWork ELSE work
  /\ stage' = "start"
  /\ pc' = IF conf.enabled \cap Live2DModes # {} THEN "recover" ELSE "charts"
  /\ Clear
  /\ UNCHANGED <<env, remote, mstate, cstate, audit>>

----------------------------------------------------------------------------
(* recover_live2d_model_outputs: the model tree is rebuilt from the cache  *)
(* in a staging directory and promoted by two renames.                     *)

MoveAside ==
  /\ pc = "recover"
  /\ work' = IF \E b \in ModelBundles : work.models[b] # None
             THEN [work EXCEPT !.models = EmptyWork.models, !.backups = @ + 1]
             ELSE work
  /\ pc' = IF work' = work THEN "promote-new" ELSE "promote"
  /\ UNCHANGED <<env, remote, mstate, cstate, audit,
                 stage, meta, todo, targets, uploads, index, failed>>

Promote ==
  /\ pc \in {"promote", "promote-new"}
  /\ work' = [work EXCEPT !.models = [b \in ModelBundles |-> meta.ver[b]]]
  /\ pc' = IF pc = "promote" THEN "clean" ELSE "recovered"
  /\ UNCHANGED <<env, remote, mstate, cstate, audit,
                 stage, meta, todo, targets, uploads, index, failed>>

CleanBackup ==
  /\ pc = "clean"
  /\ work' = [work EXCEPT !.backups = @ - 1]
  /\ pc' = "recovered"
  /\ UNCHANGED <<env, remote, mstate, cstate, audit,
                 stage, meta, todo, targets, uploads, index, failed>>

Recovered ==
  /\ pc = "recovered"
  /\ IF stage = "start" THEN Return("none")
     ELSE /\ pc' = "motions"
          /\ UNCHANGED <<stage, meta, todo, targets, uploads, index, failed>>
  /\ UNCHANGED <<env, local, remote>>

\* A cached bundle is missing, cannot be extracted, or a rename fails: the
\* old tree is kept or put back.
RecoverFail ==
  /\ pc = "recover" /\ Fault
  /\ IF stage = "start" THEN SkipOrRaise("none") ELSE SkipOrRaise(stage)
  /\ UNCHANGED <<local, remote>>

----------------------------------------------------------------------------
(* _process_live2d *)

Fingerprint(models) ==
  [b \in ModelBundles |->
     IF models[b] = None THEN None ELSE Moc[b][models[b]]]
CachedMotions == [s \in MotionBundles |-> meta.ver[s]]
PendingMotions ==
  IF mstate = None \/ mstate.fp # Fingerprint(work.models) THEN MotionBundles
  ELSE {s \in MotionBundles : mstate.motions[s] # meta.ver[s]}

LegacyStart ==
  /\ pc = "live2d"
  /\ IF \A b \in ModelBundles : work.models[b] = None
     THEN SkipOrRaise("live2d")
     ELSE IF PendingMotions = {} THEN Return("live2d")
     ELSE /\ pc' = "restore" /\ todo' = PendingMotions
          /\ UNCHANGED <<stage, meta, targets, uploads, index, failed>>
  /\ UNCHANGED <<env, local, remote>>

\* What restoring s makes of the version and paths of the given metadata.
RestoredAs(s, of, fingerprint) ==
  [ver |-> of.ver[s], at |-> MotionPath(s, of.layout), params |-> fingerprint]

\* restore_live2d_motions: one bundle restored with the parameter names of
\* every model present; existing outputs are overwritten.
RestoreOne(s) ==
  /\ pc = "restore" /\ s \in todo
  /\ work' = [work EXCEPT !.motions[s] = RestoredAs(s, meta, Fingerprint(work.models))]
  /\ todo' = todo \ {s}
  /\ UNCHANGED <<env, remote, mstate, cstate, audit,
                 pc, stage, meta, targets, uploads, index, failed>>

\* Mutant: The state is written when the restore is done, before the uploads.
Mut_SaveBeforeUpload ==
  /\ pc = "restore" /\ todo = {}
  /\ pc' = IF stage = "live2d" THEN "legacy-upload" ELSE "build"
  /\ targets' = IF stage = "live2d" THEN SetToSeq(LegacyStorages) ELSE <<>>
  /\ mstate' = IF stage = "live2d"
               THEN [fp |-> Fingerprint(work.models), motions |-> CachedMotions]
               ELSE mstate
  /\ UNCHANGED <<env, remote, work, cstate, audit,
                 stage, meta, todo, uploads, index, failed>>

Restored ==
  /\ pc = "restore" /\ todo = {}
  /\ pc' = IF stage = "live2d" THEN "legacy-upload" ELSE "build"
  /\ targets' = IF stage = "live2d" THEN SetToSeq(LegacyStorages) ELSE <<>>
  /\ UNCHANGED <<env, local, remote, stage, meta, todo, uploads, index, failed>>

RestoreFail ==
  /\ pc = "restore" /\ todo # {} /\ Fault
  /\ IF stage = "live2d" THEN Abort ELSE SkipOrRaise(stage)
  /\ UNCHANGED <<local, remote>>

\* What a storage holds once the given models and motions were copied over.
LegacyCopied(t, models, motions) ==
  [legacy EXCEPT
     ![t].models = @ \cup {b \in models : work.models[b] # None},
     ![t].motions = [s \in MotionBundles |->
        IF s \in motions /\ work.motions[s] # None THEN work.motions[s] ELSE @[s]]]

LegacyUpload ==
  /\ pc = "legacy-upload" /\ targets # <<>>
  /\ legacy' = LegacyCopied(Head(targets), ModelBundles, MotionBundles)
  /\ pc' = "legacy-list"
  /\ UNCHANGED <<env, local, assoc, charts,
                 stage, meta, todo, targets, uploads, index, failed>>

LegacyUploadFail ==
  /\ pc = "legacy-upload" /\ targets # <<>> /\ Fault
  /\ \E models \in SUBSET ModelBundles, motions \in SUBSET MotionBundles :
       legacy' = LegacyCopied(Head(targets), models, motions)
  /\ Abort /\ UNCHANGED <<local, assoc, charts>>

\* The remote models are listed and the list of them published.
LegacyPublish ==
  /\ pc = "legacy-list"
  /\ legacy' = [legacy EXCEPT ![Head(targets)].list = legacy[Head(targets)].models]
  /\ targets' = Tail(targets) /\ pc' = "legacy-upload"
  /\ UNCHANGED <<env, local, assoc, charts, stage, meta, todo, uploads, index, failed>>

LegacyPublishFail ==
  /\ pc = "legacy-list" /\ Fault /\ Abort /\ UNCHANGED <<local, remote>>

\* The restored names merged over the previous ones are all those cached.
LegacySave ==
  /\ pc = "legacy-upload" /\ targets = <<>>
  /\ mstate' = [fp |-> Fingerprint(work.models), motions |-> CachedMotions]
  /\ Return("live2d")
  /\ UNCHANGED <<env, remote, work, cstate, audit>>

----------------------------------------------------------------------------
(* _process_live2d_associated, with automatic discovery *)

\* prepare_online_master_data: one snapshot of the archive for this run, in a
\* temporary directory; a local directory is read when the index is built.
PrepareMasterData ==
  /\ pc = "live2d-associated"
  /\ IF conf.online /\ ~Located(world.archive) THEN SkipOrRaise(stage)
     ELSE /\ meta' = IF conf.online THEN [meta EXCEPT !.archive = world.archive]
                     ELSE meta
          /\ pc' = "discover"
          /\ UNCHANGED <<stage, todo, targets, uploads, index, failed>>
  /\ UNCHANGED <<env, local, remote>>

\* Models are recovered again only when a selected root has no model3 file.
AssocStart ==
  /\ pc = "discover"
  /\ IF ~Discoverable(meta.layout) THEN SkipOrRaise(stage)
     ELSE /\ pc' = IF \E b \in ModelBundles : work.models[b] = None
                   THEN "recover" ELSE "motions"
          /\ UNCHANGED <<stage, meta, todo, targets, uploads, index, failed>>
  /\ UNCHANGED <<env, local, remote>>

\* The online master data cannot be downloaded or unpacked.
MasterDataFail ==
  /\ pc = "live2d-associated" /\ conf.online /\ Fault /\ SkipOrRaise(stage)
  /\ UNCHANGED <<local, remote>>

\* The motion sets an earlier restore left need no restoring.
ToMaterialize ==
  IF \A s \in MotionBundles :
       /\ work.motions[s] # None
       /\ work.motions[s].at = MotionPath(s, meta.layout)
  THEN {} ELSE MotionBundles

EnsureMotions ==
  /\ pc = "motions"
  /\ pc' = "restore" /\ todo' = ToMaterialize
  /\ UNCHANGED <<env, local, remote, stage, meta, targets, uploads, index, failed>>

KnownClips == [s \in MotionBundles |-> Clips[s][work.motions[s].ver]]
MasterData == IF conf.online THEN meta.archive ELSE world.archive
NewIndex == BuildAssociationIndex(meta.layout, MasterData, KnownClips, meta.ver)

\* The sets' directories are distinct, and the model's directories hold none.
DirectoriesDistinct(idx) ==
  /\ \A s, t \in MotionBundles : s # t => idx.sets[s].path # idx.sets[t].path
  /\ \A r \in idx.outputs : work.models[r.bundle.name] # None

\* Every clip and every model3 file the index names is there.
ReferencesExist(idx) ==
  /\ \A s \in MotionBundles :
       /\ work.motions[s].at = idx.sets[s].path
       /\ \A p \in {"motion", "facial"} : idx.sets[s].clips[p] \subseteq KnownClips[s][p]
  /\ \A r \in idx.outputs : r.doc \in Docs[r.bundle.name]

\* validate_live2d_outputs
OutputsValid(idx) == DirectoriesDistinct(idx) /\ ReferencesExist(idx)

\* Mutant: The model list goes up first.
Mut_ListFirst(idx) ==
  <<[bundle |-> None, part |-> "list", at |-> <<>>]>> \o SetToSeq(ViewerAssetDirectories(idx))

\* Every directory first, the model list last: it is the commit marker.
UploadOrder(idx) ==
  SetToSeq(ViewerAssetDirectories(idx)) \o <<[bundle |-> None, part |-> "list", at |-> <<>>]>>

AssocBuild ==
  /\ pc = "build"
  /\ IF Loadable(MasterData) /\ Publishable(NewIndex) /\ OutputsValid(NewIndex)
     THEN /\ index' = NewIndex /\ pc' = "assoc-upload"
          /\ targets' = SetToSeq(Storages) /\ uploads' = UploadOrder(NewIndex)
          /\ failed' = FALSE /\ UNCHANGED <<stage, meta, todo>>
     ELSE SkipOrRaise(stage)
  /\ UNCHANGED <<env, local, remote>>

ContentOf(dir) == IF dir.part = "model" THEN work.models[dir.bundle]
                  ELSE work.motions[dir.bundle].ver

\* Storage t once the directory, or the files of it in part, were copied.
Copied(t, dir, part) ==
  IF dir.part = "list"
  THEN [assoc EXCEPT ![t].list = IF part = {} THEN @ ELSE ViewerCatalog(index)]
  ELSE [assoc EXCEPT
          ![t].files = @ \cup part,
          ![t].content[dir.bundle] =
             IF part = DirectoryFiles(index, dir) THEN ContentOf(dir) ELSE @]

FilesOf(dir) == IF dir.part = "list" THEN {"model_list.json"}
                ELSE DirectoryFiles(index, dir)

NextTarget ==
  /\ targets' = Tail(targets)
  /\ uploads' = IF Len(targets) > 1 THEN UploadOrder(index) ELSE <<>>

AssocUpload ==
  /\ pc = "assoc-upload" /\ targets # <<>>
  /\ assoc' = Copied(Head(targets), Head(uploads), FilesOf(Head(uploads)))
  /\ IF Len(uploads) > 1 THEN uploads' = Tail(uploads) /\ UNCHANGED targets
     ELSE NextTarget
  /\ UNCHANGED <<env, local, legacy, charts, pc, stage, meta, todo, index, failed>>

\* The error is kept and the next storage tried.
AssocUploadFail ==
  /\ pc = "assoc-upload" /\ targets # <<>> /\ Fault
  /\ \E part \in SUBSET FilesOf(Head(uploads)) :
       assoc' = Copied(Head(targets), Head(uploads), part)
  /\ NextTarget /\ failed' = TRUE
  /\ UNCHANGED <<local, legacy, charts, pc, stage, meta, todo, index>>

\* publish_latest_associated_index, after every storage has succeeded.
AssocFinish ==
  /\ pc = "assoc-upload" /\ targets = <<>>
  /\ IF failed THEN Abort /\ UNCHANGED audit
     ELSE audit' = index /\ Return(stage)
  /\ UNCHANGED <<env, remote, work, mstate, cstate>>

----------------------------------------------------------------------------
(* _process_charts *)

PendingScores ==
  {c \in Scores : cstate = None \/ cstate[c] # meta.ver[c]}

ChartsStart ==
  /\ pc = "charts"
  /\ IF PendingScores = {} THEN Return("charts")
     ELSE /\ pc' = "render" /\ todo' = PendingScores
          /\ UNCHANGED <<stage, meta, targets, uploads, index, failed>>
  /\ UNCHANGED <<env, local, remote>>

\* No local scores, and no normal storage to copy them from.
ChartSourceFail ==
  /\ pc = "charts" /\ Fault /\ SkipOrRaise("charts")
  /\ UNCHANGED <<local, remote>>

RenderedCharts(scores) ==
  [work EXCEPT !.charts =
     [c \in Scores |-> IF c \in scores THEN meta.ver[c] ELSE @[c]]]

\* Mutant: Scores without a music entry are recorded as if rendered.
Mut_RenderRecordsAll ==
  /\ pc = "render"
  /\ todo' = todo
  /\ work' = RenderedCharts(todo \cap world.musics)
  /\ targets' = SetToSeq(ChartStorages) /\ pc' = "charts-upload"
  /\ UNCHANGED <<env, remote, mstate, cstate, audit, stage, meta, uploads, index, failed>>

\* Scores of songs musics.json does not know are skipped.
Render ==
  /\ pc = "render"
  /\ todo' = todo \cap world.musics
  /\ work' = RenderedCharts(todo')
  /\ targets' = SetToSeq(ChartStorages) /\ pc' = "charts-upload"
  /\ UNCHANGED <<env, remote, mstate, cstate, audit, stage, meta, uploads, index, failed>>

RenderFail ==
  /\ pc = "render" /\ Fault
  /\ \E part \in SUBSET (todo \cap world.musics) : work' = RenderedCharts(part)
  /\ Abort /\ UNCHANGED <<remote, mstate, cstate, audit>>

ChartsCopied(t, scores) ==
  [charts EXCEPT ![t] = [c \in Scores |->
     IF c \in scores /\ work.charts[c] # None THEN work.charts[c] ELSE @[c]]]

ChartsUpload ==
  /\ pc = "charts-upload" /\ targets # <<>>
  /\ charts' = ChartsCopied(Head(targets), Scores)
  /\ targets' = Tail(targets)
  /\ UNCHANGED <<env, local, legacy, assoc, pc, stage, meta, todo, uploads, index, failed>>

ChartsUploadFail ==
  /\ pc = "charts-upload" /\ targets # <<>> /\ Fault
  /\ \E part \in SUBSET Scores : charts' = ChartsCopied(Head(targets), part)
  /\ Abort /\ UNCHANGED <<local, legacy, assoc>>

ChartsSave ==
  /\ pc = "charts-upload" /\ targets = <<>>
  /\ cstate' = [c \in Scores |-> IF c \in todo THEN meta.ver[c]
                                 ELSE IF cstate = None THEN None ELSE cstate[c]]
  /\ Return("charts")
  /\ UNCHANGED <<env, remote, work, mstate, audit>>

----------------------------------------------------------------------------
(* The environment. *)

\* The process dies; what it held in memory is gone.
Crash ==
  /\ pc # "idle" /\ Fault /\ Abort /\ UNCHANGED <<local, remote>>

\* A state file is lost or found corrupt: the next run rebuilds everything.
LoseState ==
  /\ pc = "idle" /\ Fault
  /\ \/ mstate # None /\ mstate' = None /\ UNCHANGED cstate
     \/ cstate # None /\ cstate' = None /\ UNCHANGED mstate
  /\ UNCHANGED <<work, audit, remote, run>>

Change ==
  /\ changes < MaxChanges /\ changes' = changes + 1
  /\ \/ \E b \in AllBundles : /\ world.ver[b] < MaxVersion
                              /\ world' = [world EXCEPT !.ver[b] = @ + 1]
     \/ \E l \in Layouts :
          LET moved == {b \in Live2DBundles : l[b] # world.layout[b]}
          IN /\ moved # {} /\ \A b \in moved : world.ver[b] < MaxVersion
             /\ world' = [world EXCEPT !.layout = l,
                  !.ver = [b \in AllBundles |->
                             IF b \in moved THEN @[b] + 1 ELSE @[b]]]
     \/ \E a \in Archives : a # world.archive /\ world' = [world EXCEPT !.archive = a]
     \/ \E c \in Scores \ world.musics : world' = [world EXCEPT !.musics = @ \cup {c}]
  /\ UNCHANGED <<conf, faults, local, remote, run>>

RunStep ==
  \/ StartRun \/ MoveAside \/ Promote \/ CleanBackup \/ Recovered
  \/ LegacyStart \/ (\E s \in MotionBundles : RestoreOne(s)) \/ Restored
  \/ LegacyUpload \/ LegacyPublish \/ LegacySave
  \/ PrepareMasterData \/ AssocStart \/ EnsureMotions \/ AssocBuild \/ AssocUpload \/ AssocFinish
  \/ ChartsStart \/ Render \/ ChartsUpload \/ ChartsSave

Disturbance ==
  \/ RecoverFail \/ RestoreFail \/ LegacyUploadFail \/ LegacyPublishFail
  \/ MasterDataFail \/ AssocUploadFail
  \/ ChartSourceFail \/ RenderFail \/ ChartsUploadFail
  \/ Crash \/ LoseState \/ Change

Next == RunStep \/ Disturbance
Spec == Init /\ [][Next]_vars

\* The updater is scheduled again and again, and a run goes on by itself.
FairSpec == Spec /\ WF_vars(RunStep)

----------------------------------------------------------------------------
(* Properties. *)

\* The run's bookkeeping and the stores have the shape the code gives them.
TypeOK ==
  /\ world.ver \in [AllBundles -> 0..MaxVersion] /\ world.musics \subseteq Scores
  /\ conf \in Configs /\ changes \in 0..MaxChanges /\ faults \in 0..MaxFaults
  /\ work.models \in [ModelBundles -> (0..MaxVersion) \cup {None}]
  /\ work.backups \in Nat /\ failed \in BOOLEAN
  /\ todo \subseteq MotionBundles \cup Scores

\* No moc3 takes an earlier content again after another one.
MocsNeverReturn ==
  \A b \in ModelBundles : \A u, v, w \in 0..MaxVersion :
    u <= v /\ v <= w /\ Moc[b][u] = Moc[b][w] => Moc[b][v] = Moc[b][u]

\* Whenever a run now would find nothing pending and skip, every storage of
\* that type already holds the current outputs: a state file is written
\* only after every upload (dispatch.py:155, 996), whatever crashed between.
\* Of the motions this is so only if no moc3 content comes back: a run that
\* dies after its uploads leaves the state of the content before.
SkipIsSound ==
  /\ (/\ MocsNeverReturn /\ mstate # None
      /\ mstate.fp = Fingerprint([b \in ModelBundles |-> world.ver[b]])
      /\ \A s \in MotionBundles : mstate.motions[s] = world.ver[s])
     => \A t \in LegacyStorages, s \in MotionBundles :
          legacy[t].motions[s] = RestoredAs(s, world, mstate.fp)
  /\ \A c \in Scores :
       cstate # None /\ cstate[c] = world.ver[c]
         => \A t \in ChartStorages : charts[t][c] = world.ver[c]

\* Every file a published list names is on that storage, also after an
\* upload stopped half way: the list is the commit marker (dispatch.py:190).
ListedAssetsPresent ==
  \A t \in Storages : \A e \in assoc[t].list :
    NamedFiles(e) \subseteq assoc[t].files

Unprotected(name) == {"back", "still"} \cap Range(name.words) = {}
NoProtectedAssets ==
  \A a \in Archives : \A row \in a.character2ds :
    row.asset # None => Unprotected(row.asset)

\* The public list never lends one character's motions to another: a motion
\* set with a character number is attached to that character's models only,
\* and back/still variants to none that the tables do not name after one.
CatalogSound ==
  \A t \in Storages : \A e \in assoc[t].list : \A m \in e.sets :
    /\ NameOf[m.set].num # None /\ e.char # None => e.char = NameOf[m.set].num
    /\ NoProtectedAssets => Unprotected(NameOf[m.set])
    /\ e.char # None

\* The index a run with fresh outputs would build from the world now.
CurrentIndex ==
  BuildAssociationIndex(world.layout, world.archive,
    [s \in MotionBundles |-> Clips[s][world.ver[s]]], world.ver)

\* When nothing changes any more, every storage of an enabled type ends with
\* the current outputs and, where the index may be published, its list.
Converged ==
  /\ "live2d" \in conf.enabled =>
       \A t \in LegacyStorages :
         /\ legacy[t].list = ModelBundles
         /\ \A s \in MotionBundles : legacy[t].motions[s].ver = world.ver[s]
  /\ "charts" \in conf.enabled =>
       \A t \in ChartStorages, c \in world.musics : charts[t][c] = world.ver[c]
  /\ (/\ "live2d-associated" \in conf.enabled /\ Discoverable(world.layout)
      /\ Loadable(world.archive) /\ (conf.online => Located(world.archive))
      /\ Publishable(CurrentIndex)) =>
       /\ audit = CurrentIndex
       /\ \A t \in Storages :
            /\ assoc[t].list = ViewerCatalog(CurrentIndex)
            /\ \A b \in Live2DBundles : assoc[t].content[b] = world.ver[b]
Converges == <>[]Converged

\* A changed motion bundle reaches the storages before the audit index
\* vouches for it: docs/STREAMING_LIVE_GLB_ROADMAP.md:736 "a changed shared
\* motion Bundle invalidates that motion set".
PublishedMotionsCurrent ==
  audit # None =>
    \A t \in Storages, s \in MotionBundles :
      assoc[t].content[s] >= audit.sets[s].bundle.checksum
=============================================================================
