-------------------------- MODULE PostprocessProofs --------------------------
(***************************************************************************)
(* What Postprocess guarantees for any bundles, storages, tables and       *)
(* contents, however often the world changes, uploads fail and the process *)
(* dies: a run that skips has nothing to do, a published list names files  *)
(* that are there, and it lends no character's motions to another.         *)
(***************************************************************************)
EXTENDS Postprocess, FiniteSetTheorems, TLAPS

Versions == 0..MaxVersion
Worlds == [ver : [AllBundles -> Versions], layout : Layouts,
           archive : Archives, musics : SUBSET Scores]

\* Functions and records are their values; what some of them hold is free.
OnMotions(f) == f = [s \in MotionBundles |-> f[s]]
OnModels(f) == f = [b \in ModelBundles |-> f[b]]
MotionShape(r) == r = [ver |-> r.ver, at |-> r.at, params |-> r.params]
LegacyShaped(L) ==
  /\ L = [t \in LegacyStorages |->
            [models |-> L[t].models, motions |-> L[t].motions, list |-> L[t].list]]
  /\ \A t \in LegacyStorages : OnMotions(L[t].motions)
AssocShaped(A) ==
  A = [t \in Storages |->
         [files |-> A[t].files, list |-> A[t].list, content |-> A[t].content]]

Shaped ==
  /\ work = [models |-> work.models, motions |-> work.motions,
             charts |-> work.charts, backups |-> work.backups]
  /\ OnMotions(work.motions)
  /\ LegacyShaped(legacy) /\ AssocShaped(assoc)
  /\ mstate # None => mstate = [fp |-> mstate.fp, motions |-> mstate.motions]

\* Where a run is; models are there whenever a step takes names from them.
Recovering == {"recover", "promote", "promote-new", "clean", "recovered"}
Associating == {"live2d-associated", "discover", "motions", "build", "assoc-upload"}
Publishing == {"legacy-upload", "legacy-list"}
Pcs == {"idle", "live2d", "restore", "charts", "render", "charts-upload"}
         \cup Recovering \cup Associating \cup Publishing

Present == \A b \in ModelBundles : work.models[b] # None

Staged ==
  /\ pc \in Pcs
  /\ pc \in Recovering => stage \in {"start", "live2d-associated"}
  /\ pc \in Associating => stage = "live2d-associated"
  /\ pc \in Publishing \cup {"live2d"} => stage = "live2d"
  /\ pc = "restore" => stage \in Live2DModes
  /\ pc \in Publishing \cup {"clean", "recovered", "motions", "restore"} => Present

Typed ==
  /\ world \in Worlds /\ meta \in Worlds
  /\ conf \in Configs /\ changes \in 0..MaxChanges /\ faults \in 0..MaxFaults
  /\ work.models \in [ModelBundles -> Versions \cup {None}]
  /\ work.charts \in [Scores -> Versions \cup {None}]
  /\ work.backups \in Nat
  /\ pc \in {"promote", "clean"} => work.backups # 0
  /\ charts \in [ChartStorages -> [Scores -> Versions \cup {None}]]
  /\ cstate # None => cstate \in [Scores -> Versions \cup {None}]
  /\ todo \subseteq MotionBundles \cup Scores /\ failed \in BOOLEAN

\* The storages a run has still to serve.
Queued ==
  /\ pc \in Publishing => targets \in Seq(LegacyStorages)
  /\ pc = "legacy-list" => targets # <<>>
  /\ pc = "charts-upload" => targets \in Seq(ChartStorages)
  /\ pc = "assoc-upload" => targets \in Seq(Storages)

\* What the run works from is the world's state or an older one, and the same
\* version of a bundle has the same paths.
Behind ==
  /\ \A b \in AllBundles : meta.ver[b] <= world.ver[b]
  /\ \A b \in Live2DBundles :
       meta.ver[b] = world.ver[b] => meta.layout[b] = world.layout[b]
  /\ \A b \in ModelBundles : work.models[b] # None => work.models[b] <= meta.ver[b]
  /\ Present \/ \A b \in ModelBundles : work.models[b] = None

\* Content x of b's moc3 was there when, or before, content y was.
Since(b, x, y) ==
  \E u, v \in Versions : u <= v /\ Moc[b][u] = x /\ Moc[b][v] = y
NoLater(p, q) == \A b \in ModelBundles : Since(b, p[b], q[b])
NowPrint == Fingerprint(meta.ver)
WorkPrint == Fingerprint(work.models)

\* A restored motion lies between the saved state and what the run works from.
Recent(print) ==
  /\ OnModels(print) /\ NoLater(print, NowPrint)
  /\ Present => NoLater(print, WorkPrint)

Between(r, s) ==
  /\ MotionShape(r) /\ r.ver \in Versions /\ r.ver <= meta.ver[s]
  /\ r.ver = meta.ver[s] => r.at = MotionPath(s, meta.layout)
  /\ Recent(r.params)
  /\ mstate # None => mstate.motions[s] <= r.ver /\ NoLater(mstate.fp, r.params)

MotionsKept ==
  /\ \A s \in MotionBundles : work.motions[s] # None => Between(work.motions[s], s)
  /\ \A t \in LegacyStorages, s \in MotionBundles :
       /\ legacy[t].motions[s] # None => Between(legacy[t].motions[s], s)
       /\ mstate # None => legacy[t].motions[s] # None
  /\ mstate # None =>
       /\ Recent(mstate.fp) /\ mstate.motions \in [MotionBundles -> Versions]
       /\ \A s \in MotionBundles : mstate.motions[s] <= meta.ver[s]

\* What this run makes of s; which storages it has still to serve.
Fresh(s) == RestoredAs(s, meta, WorkPrint)
Unserved == Range(IF pc = "legacy-list" THEN Tail(targets) ELSE targets)

LegacyDone ==
  /\ pc = "restore" /\ stage = "live2d" =>
       /\ todo \subseteq PendingMotions
       /\ \A s \in PendingMotions \ todo : work.motions[s] = Fresh(s)
  /\ pc \in Publishing =>
       \A s \in PendingMotions :
         /\ work.motions[s] = Fresh(s)
         /\ \A t \in LegacyStorages \ Unserved : legacy[t].motions[s] = Fresh(s)

\* A chart lies between the saved state and what the run works from.
ChartBetween(v, c) ==
  v # None => /\ v <= meta.ver[c]
              /\ cstate # None /\ cstate[c] # None => cstate[c] <= v

ChartsKept ==
  /\ \A c \in Scores :
       /\ ChartBetween(work.charts[c], c)
       /\ \A t \in ChartStorages : ChartBetween(charts[t][c], c)
       /\ cstate # None /\ cstate[c] # None =>
            cstate[c] <= meta.ver[c] /\ \A t \in ChartStorages : charts[t][c] # None
  /\ pc \in {"render", "charts-upload"} => todo \subseteq Scores
  /\ pc = "charts-upload" =>
       \A c \in todo :
         /\ work.charts[c] = meta.ver[c]
         /\ \A t \in ChartStorages \ Range(targets) : charts[t][c] = meta.ver[c]

\* The list is the last of the uploads; every directory is to come or there.
ListMark == [bundle |-> None, part |-> "list", at |-> <<>>]
Uploading ==
  pc = "assoc-upload" /\ targets # <<>> =>
    /\ uploads \in Seq(ViewerAssetDirectories(index) \cup {ListMark}) /\ uploads # <<>>
    /\ \A i \in 1 .. Len(uploads) : uploads[i] = ListMark <=> i = Len(uploads)
    /\ \A d \in ViewerAssetDirectories(index) :
         \/ d \in Range(uploads)
         \/ DirectoryFiles(index, d) \subseteq assoc[Head(targets)].files

\* What is so of an index made from what the run knows: its directories can be
\* counted, hold every file its list names, and the list is sound.
Covered(idx) ==
  \A e \in ViewerCatalog(idx) : \A f \in NamedFiles(e) :
    \E d \in ViewerAssetDirectories(idx) : f \in DirectoryFiles(idx, d)
SoundEntry(e) ==
  \A m \in e.sets :
    /\ NameOf[m.set].num # None /\ e.char # None => e.char = NameOf[m.set].num
    /\ NoProtectedAssets => Unprotected(NameOf[m.set])
    /\ e.char # None
GoodIndex(idx) ==
  /\ IsFiniteSet(ViewerAssetDirectories(idx)) /\ Covered(idx)
  /\ \A e \in ViewerCatalog(idx) : SoundEntry(e)
IndexBuilt == pc = "assoc-upload" => GoodIndex(index)

-----------------------------------------------------------------------------
(* Pure facts. *)

\* The sequence made of a finite set has its elements and no others.
LEMMA SeqOfSet ==
  ASSUME NEW S, IsFiniteSet(S)
  PROVE  /\ SetToSeq(S) \in Seq(S)
         /\ Range(SetToSeq(S)) = S
<1> DEFINE n == Cardinality(S)
           f == SetToSeq(S)
<1>1. n \in Nat /\ ExistsBijection(1..n, S)
  BY FS_CardinalityType
<1>2. PICK g : g \in Bijection(1..n, S)
  BY <1>1 DEF ExistsBijection
<1>3. g \in [1..n -> S] /\ IsInjective(g)
  BY <1>2 DEF Bijection, Injection, IsInjective
<1>4. f \in [1..n -> S] /\ IsInjective(f)
  BY <1>3 DEF SetToSeq
<1>5. f \in Injection(1..n, S)
  BY <1>4 DEF Injection
<1>6. Cardinality(1..n) = n
  BY <1>1, FS_Interval
<1>7. f \in Surjection(1..n, S)
  BY <1>5, <1>6, FS_Injection
<1>8. Range(f) = S
  BY <1>4, <1>7 DEF Surjection, Range
<1>9. f \in Seq(S)
  BY <1>1, <1>4
<1> QED BY <1>8, <1>9

\* The path chosen for a bundle depends on its own paths only.
LEMMA PathIsLocal ==
  ASSUME NEW s, NEW l, NEW k, l[s] = k[s]
  PROVE  MotionPath(s, l) = MotionPath(s, k)
<1>1. RootAliases(s, l) = RootAliases(s, k)
  BY DEF RootAliases
<1>2. Versioned(s, l) = Versioned(s, k)
  BY <1>1 DEF Versioned
<1> QED BY <1>1, <1>2 DEF MotionPath

\* The order of contents, if none comes back.
LEMMA SinceOrder ==
  ASSUME MocsNeverReturn, NEW b \in ModelBundles, NEW x, NEW y, NEW z,
         Since(b, x, y), Since(b, y, z)
  PROVE  Since(b, x, z) /\ (x = z => x = y)
<1>1. PICK u1, v1 \in Versions : u1 <= v1 /\ Moc[b][u1] = x /\ Moc[b][v1] = y
  BY DEF Since
<1>2. PICK u2, v2 \in Versions : u2 <= v2 /\ Moc[b][u2] = y /\ Moc[b][v2] = z
  BY DEF Since
<1>3. \A u, v, w \in Versions :
        u <= v /\ v <= w /\ Moc[b][u] = Moc[b][w] => Moc[b][v] = Moc[b][u]
  BY DEF MocsNeverReturn, Versions
<1>4. \A u \in Versions : u \in Int
  BY DEF Versions
<1>5. CASE u1 <= v2
  <2>1. Since(b, x, z)
    BY <1>1, <1>2, <1>5 DEF Since
  <2>2. ASSUME x = z PROVE x = y
    <3>1. CASE v1 <= v2
      BY <1>1, <1>2, <1>3, <2>2, <3>1
    <3>2. CASE v2 < v1
      <4>1. u2 <= v2 /\ v2 <= v1 /\ Moc[b][u2] = Moc[b][v1]
        BY <1>1, <1>2, <1>4, <3>2
      <4>2. Moc[b][v2] = Moc[b][u2]
        BY <1>3, <4>1
      <4> QED BY <4>2, <1>2, <2>2
    <3> QED BY <3>1, <3>2, <1>4
  <2> QED BY <2>1, <2>2
<1>6. CASE v2 < u1
  <2>1. u2 <= v2 /\ v2 <= v1 /\ Moc[b][u2] = Moc[b][v1] /\ u2 <= u1 /\ u1 <= v1
    BY <1>1, <1>2, <1>4, <1>6
  <2>2. Moc[b][v2] = y /\ Moc[b][u1] = y
    BY <1>1, <1>2, <1>3, <2>1
  <2> QED BY <1>1, <1>2, <2>2 DEF Since
<1> QED BY <1>4, <1>5, <1>6

\* If no content comes back, the order of contents is transitive,
LEMMA NoLaterTrans ==
  ASSUME MocsNeverReturn, NEW p, NEW q, NEW r, NoLater(p, q), NoLater(q, r)
  PROVE  NoLater(p, r)
BY SinceOrder DEF NoLater

\* and what lies between two equal ones equals them.
LEMMA NoLaterBoth ==
  ASSUME MocsNeverReturn, NEW p, NEW q, NEW r, OnModels(p), OnModels(q),
         NoLater(p, q), NoLater(q, r), p = r
  PROVE  p = q
<1>1. \A b \in ModelBundles : p[b] = q[b]
  BY SinceOrder DEF NoLater
<1> QED BY <1>1 DEF OnModels

\* Contents of older versions are older.
LEMMA OlderPrint ==
  ASSUME NEW f, NEW g, \A b \in ModelBundles : f[b] \in Versions /\ g[b] \in Versions /\ f[b] <= g[b]
  PROVE  NoLater(Fingerprint(f), Fingerprint(g)) /\ OnModels(Fingerprint(f))
<1>1. \A b \in ModelBundles : f[b] # None /\ g[b] # None
  BY PostprocessAssumption DEF Versions
<1> QED BY <1>1 DEF NoLater, Fingerprint, Since, OnModels

\* Between two processors nothing is in memory but what the run knows.
Leaves ==
  /\ pc' \in {"idle", "live2d", "live2d-associated", "charts"} /\ stage' = pc'
  /\ todo' = {} /\ targets' = <<>> /\ uploads' = <<>> /\ failed' = FALSE /\ index' = None
  /\ UNCHANGED meta

\* A processor that returns, or an exception, leaves nothing in memory.
LEMMA Leaving ==
  ASSUME NEW s, Return(s) \/ Abort \/ SkipOrRaise(s)
  PROVE  Leaves
<1> DEFINE later == {i \in DOMAIN Order : /\ Order[i] \in conf.enabled
                                     /\ \A j \in DOMAIN Order : Order[j] = s => i > j}
<1>1. StageAfter(s) \in {"idle", "live2d", "live2d-associated", "charts"}
  <2>1. CASE later = {}
    BY <2>1 DEF StageAfter
  <2>2. CASE later # {}
    <3>1. later \subseteq 1..3
      BY DEF Order
    <3>2. \E i \in later : \A j \in later : i <= j
      <4>1. CASE 1 \in later
        BY <3>1, <4>1
      <4>2. CASE 1 \notin later /\ 2 \in later
        BY <3>1, <4>2
      <4>3. CASE 1 \notin later /\ 2 \notin later
        BY <3>1, <4>3, <2>2
      <4> QED BY <4>1, <4>2, <4>3
    <3>3. PICK i \in later : StageAfter(s) = Order[i]
      <4> DEFINE k == CHOOSE i \in later : \A j \in later : i <= j
      <4>1. k \in later
        BY <3>2
      <4>2. StageAfter(s) = Order[k]
        BY <2>2 DEF StageAfter
      <4> QED BY <4>1, <4>2
    <3> QED BY <3>1, <3>3 DEF Order
  <2> QED BY <2>1, <2>2
<1> QED BY <1>1 DEF Return, Abort, SkipOrRaise, Leaves, Clear
-----------------------------------------------------------------------------
(* Shapes, places and types. *)

Basic == Shaped /\ Staged /\ Typed /\ Queued /\ Behind

\* The actions, by what they change of the files and storages.
Quiet ==
  \/ Recovered \/ RecoverFail \/ LegacyStart \/ Restored \/ RestoreFail \/ LegacyPublishFail
  \/ PrepareMasterData \/ AssocStart \/ MasterDataFail \/ EnsureMotions \/ AssocBuild \/ AssocFinish
  \/ ChartsStart \/ ChartSourceFail \/ Crash
Rebuilding ==
  StartRun \/ MoveAside \/ Promote \/ CleanBackup \/ (\E s \in MotionBundles : RestoreOne(s))
LegacySteps == LegacyUpload \/ LegacyUploadFail \/ LegacyPublish \/ LegacySave
AssocSteps == AssocUpload \/ AssocUploadFail
ChartSteps == Render \/ RenderFail \/ ChartsUpload \/ ChartsUploadFail \/ ChartsSave

\* The steps, in the groups above.
LEMMA Steps ==
  ASSUME [Next]_vars
  PROVE  \/ Quiet \/ Rebuilding \/ LegacySteps \/ AssocSteps \/ ChartSteps
         \/ LoseState \/ Change \/ UNCHANGED vars
BY DEF Next, RunStep, Disturbance, Quiet, Rebuilding, LegacySteps, AssocSteps, ChartSteps

\* A quiet step leaves every file and storage alone, and what it knows of the
\* bundles; it may read the master data again.
LEMMA QuietLeaves ==
  ASSUME Quiet
  PROVE  /\ work' = work /\ mstate' = mstate /\ cstate' = cstate
         /\ legacy' = legacy /\ assoc' = assoc /\ charts' = charts
         /\ world' = world /\ conf' = conf /\ changes' = changes
         /\ meta' = meta \/ meta' = [meta EXCEPT !.archive = world.archive]
         /\ faults' = faults \/ (faults < MaxFaults /\ faults' = faults + 1)
<1> USE DEF Fault, env, local, remote
<1>1. CASE Recovered \/ RecoverFail \/ LegacyStart \/ Restored \/ RestoreFail \/ LegacyPublishFail
  <2>1. meta' = meta
    BY <1>1, Leaving DEF Recovered, RecoverFail, LegacyStart, Restored, RestoreFail,
                         LegacyPublishFail, Leaves
  <2> QED BY <1>1, <2>1 DEF Recovered, RecoverFail, LegacyStart, Restored, RestoreFail,
                            LegacyPublishFail
<1>2. CASE AssocStart \/ MasterDataFail \/ EnsureMotions \/ AssocBuild \/ AssocFinish
  <2>1. meta' = meta
    BY <1>2, Leaving DEF AssocStart, MasterDataFail, EnsureMotions, AssocBuild, AssocFinish, Leaves
  <2> QED BY <1>2, <2>1 DEF AssocStart, MasterDataFail, EnsureMotions, AssocBuild, AssocFinish
<1>3. CASE ChartsStart \/ ChartSourceFail \/ Crash
  <2>1. meta' = meta
    BY <1>3, Leaving DEF ChartsStart, ChartSourceFail, Crash, Leaves
  <2> QED BY <1>3, <2>1 DEF ChartsStart, ChartSourceFail, Crash
<1>4. CASE PrepareMasterData
  BY <1>4, Leaving DEF PrepareMasterData, Leaves
<1> QED BY <1>1, <1>2, <1>3, <1>4 DEF Quiet

\* Where a quiet step leads: out of the processor, or on within it.
LEMMA QuietMoves ==
  ASSUME Quiet, Staged, Behind
  PROVE  \/ Leaves
         \/ /\ stage' = stage /\ failed' \in {failed, FALSE}
            /\ todo' \subseteq todo \cup MotionBundles \cup Scores
            /\ \/ pc = "recovered" /\ stage # "start" /\ pc' = "motions"
               \/ pc = "live2d" /\ Present /\ pc' = "restore" /\ todo' = PendingMotions
               \/ /\ pc = "restore" /\ stage = "live2d" /\ todo = {}
                  /\ pc' = "legacy-upload" /\ targets' = SetToSeq(LegacyStorages)
               \/ pc = "restore" /\ stage # "live2d" /\ pc' = "build"
               \/ pc = "live2d-associated" /\ pc' = "discover"
               \/ pc = "discover" /\ pc' = "recover"
               \/ pc = "discover" /\ Present /\ pc' = "motions"
               \/ pc = "motions" /\ pc' = "restore" /\ todo' \subseteq MotionBundles
               \/ /\ pc = "build" /\ pc' = "assoc-upload"
                  /\ Publishable(NewIndex) /\ index' = NewIndex
                  /\ targets' = SetToSeq(Storages) /\ uploads' = UploadOrder(NewIndex)
               \/ pc = "charts" /\ pc' = "render" /\ todo' = PendingScores
<1>1. CASE Recovered
  BY <1>1, Leaving DEF Recovered
<1>2. CASE LegacyStart
  BY <1>2, Leaving DEF LegacyStart, PendingMotions, Behind
<1>3. CASE Restored
  BY <1>3 DEF Restored
<1>4. CASE RecoverFail \/ RestoreFail \/ LegacyPublishFail \/ MasterDataFail \/ ChartSourceFail \/ Crash
  BY <1>4, Leaving DEF RecoverFail, RestoreFail, LegacyPublishFail, MasterDataFail,
                       ChartSourceFail, Crash
<1>5. CASE PrepareMasterData
  BY <1>5, Leaving DEF PrepareMasterData
<1>6. CASE AssocStart
  BY <1>6, Leaving DEF AssocStart, Present
<1>7. CASE EnsureMotions
  BY <1>7 DEF EnsureMotions, ToMaterialize
<1>8. CASE AssocBuild
  BY <1>8, Leaving DEF AssocBuild
<1>9. CASE AssocFinish
  BY <1>9, Leaving DEF AssocFinish
<1>10. CASE ChartsStart
  BY <1>10, Leaving DEF ChartsStart, PendingScores
<1> QED BY <1>1, <1>2, <1>3, <1>4, <1>5, <1>6, <1>7, <1>8, <1>9, <1>10 DEF Quiet

\* What the steps that rebuild the workspace change.
LEMMA RebuildingMoves ==
  ASSUME Rebuilding, Basic
  PROVE  /\ mstate' = mstate /\ cstate' = cstate /\ world' = world /\ conf' = conf
         /\ legacy' = legacy /\ assoc' = assoc /\ charts' = charts
         /\ changes' = changes /\ faults' = faults /\ failed' \in BOOLEAN
         /\ \/ /\ pc = "idle" /\ meta' = world /\ stage' = "start" /\ pc' \in {"recover", "charts"}
               /\ work' \in {EmptyWork, work} /\ todo' = {}
            \/ /\ meta' = meta /\ stage' = stage
               /\ \/ /\ pc = "recover" /\ pc' = "promote" /\ todo' = todo
                     /\ work' = [work EXCEPT !.models = EmptyWork.models, !.backups = @ + 1]
                  \/ /\ pc = "recover" /\ pc' = "promote-new" /\ work' = work /\ todo' = todo
                  \/ /\ \/ pc = "promote" /\ pc' = "clean"
                        \/ pc = "promote-new" /\ pc' = "recovered"
                     /\ work' = [work EXCEPT !.models = [b \in ModelBundles |-> meta.ver[b]]]
                     /\ todo' = todo
                  \/ /\ pc = "clean" /\ pc' = "recovered" /\ todo' = todo
                     /\ work' = [work EXCEPT !.backups = @ - 1]
                  \/ /\ pc = "restore" /\ pc' = "restore" /\ targets' = targets
                     /\ \E s \in MotionBundles \cap todo :
                          /\ work' = [work EXCEPT !.motions[s] =
                                        RestoredAs(s, meta, Fingerprint(work.models))]
                          /\ todo' = todo \ {s}
<1> USE DEF env, local, remote
<1>1. CASE StartRun
  BY <1>1 DEF StartRun, Clear
<1>2. CASE MoveAside
  <2>1. failed' \in BOOLEAN
    BY <1>2 DEF MoveAside, Basic, Typed
  <2> QED BY <1>2, <2>1 DEF MoveAside
<1>3. CASE Promote \/ CleanBackup
  BY <1>3 DEF Promote, CleanBackup, Basic, Typed
<1>4. CASE \E s \in MotionBundles : RestoreOne(s)
  BY <1>4 DEF RestoreOne, Basic, Typed
<1> QED BY <1>1, <1>2, <1>3, <1>4 DEF Rebuilding

\* The fields of the workspace after each of these steps.
LEMMA RebuildingFields ==
  ASSUME Rebuilding, Basic
  PROVE  /\ work' = [models |-> work'.models, motions |-> work'.motions,
                     charts |-> work'.charts, backups |-> work'.backups]
         /\ OnMotions(work'.motions)
         /\ work'.models \in {work.models, EmptyWork.models, [b \in ModelBundles |-> meta.ver[b]]}
         /\ work'.charts \in {work.charts, EmptyWork.charts}
         /\ work'.backups \in {work.backups, 0, work.backups + 1, work.backups - 1}
         /\ work'.motions \in {work.motions, EmptyWork.motions}
              \/ \E s \in MotionBundles \cap todo :
                   /\ pc = "restore" /\ meta' = meta /\ work'.models = work.models
                   /\ work'.motions = [work.motions EXCEPT ![s] = Fresh(s)]
         /\ pc = "idle" => \/ work' = work
                           \/ /\ work'.models = EmptyWork.models /\ work'.backups = 0
                              /\ work'.motions = EmptyWork.motions
                              /\ work'.charts = EmptyWork.charts
         /\ pc # "idle" =>
              /\ work'.charts = work.charts
              /\ pc # "restore" => work'.motions = work.motions
              /\ pc \in {"restore", "clean"} => work'.models = work.models
              /\ pc \in {"promote", "promote-new"} =>
                   work'.models = [b \in ModelBundles |-> meta.ver[b]]
              /\ pc = "recover" => work'.models \in {work.models, EmptyWork.models}
              /\ work'.backups = IF pc = "recover" /\ pc' = "promote" THEN work.backups + 1
                                 ELSE IF pc = "clean" THEN work.backups - 1 ELSE work.backups
<1>0. /\ work = [models |-> work.models, motions |-> work.motions,
                 charts |-> work.charts, backups |-> work.backups]
      /\ OnMotions(work.motions)
  BY DEF Basic, Shaped
<1>1. CASE pc = "idle"
  <2>1. work' \in {EmptyWork, work}
    BY <1>1, RebuildingMoves
  <2>2. OnMotions(EmptyWork.motions)
    BY DEF OnMotions, EmptyWork
  <2> QED BY <1>0, <1>1, <2>1, <2>2 DEF EmptyWork
<1>2. CASE pc # "idle" /\ pc # "restore"
  BY <1>0, <1>2, RebuildingMoves
<1>3. CASE pc = "restore"
  <2>1. PICK s \in MotionBundles \cap todo :
          /\ work' = [work EXCEPT !.motions[s] = Fresh(s)] /\ meta' = meta
    BY <1>3, RebuildingMoves DEF Fresh, WorkPrint
  <2>2. /\ work'.motions = [work.motions EXCEPT ![s] = Fresh(s)]
        /\ work'.models = work.models /\ work'.charts = work.charts
        /\ work'.backups = work.backups
        /\ work' = [models |-> work'.models, motions |-> work'.motions,
                     charts |-> work'.charts, backups |-> work'.backups]
    BY <1>0, <2>1
  <2>3. OnMotions(work'.motions)
    BY <1>0, <2>2 DEF OnMotions
  <2> QED BY <1>3, <2>1, <2>2, <2>3
<1> QED BY <1>1, <1>2, <1>3

\* An upload of the legacy outputs, in part or whole.
LEMMA LegacyMoves ==
  ASSUME LegacySteps, Basic
  PROVE  /\ work' = work /\ cstate' = cstate /\ world' = world /\ conf' = conf
         /\ assoc' = assoc /\ charts' = charts /\ meta' = meta /\ changes' = changes
         /\ faults' = faults \/ (faults < MaxFaults /\ faults' = faults + 1)
         /\ pc \in Publishing
         /\ \/ /\ targets # <<>> /\ pc = "legacy-upload" /\ mstate' = mstate
               /\ \E models \in SUBSET ModelBundles, motions \in SUBSET MotionBundles :
                    /\ legacy' = LegacyCopied(Head(targets), models, motions)
                    /\ \/ Leaves
                       \/ /\ stage' = stage /\ pc' = "legacy-list" /\ todo' = todo
                          /\ targets' = targets /\ failed' = failed
                          /\ models = ModelBundles /\ motions = MotionBundles
            \/ /\ pc = "legacy-list" /\ mstate' = mstate
               /\ legacy' = [legacy EXCEPT ![Head(targets)].list = legacy[Head(targets)].models]
               /\ stage' = stage /\ pc' = "legacy-upload" /\ todo' = todo
               /\ targets' = Tail(targets) /\ failed' = failed
            \/ /\ pc = "legacy-upload" /\ targets = <<>> /\ Leaves /\ legacy' = legacy
               /\ mstate' = [fp |-> WorkPrint, motions |-> CachedMotions]
<1> USE DEF env, local, remote, Fault, Publishing
<1>1. CASE LegacyUpload
  <2>1. /\ legacy' = LegacyCopied(Head(targets), ModelBundles, MotionBundles)
        /\ ModelBundles \in SUBSET ModelBundles /\ MotionBundles \in SUBSET MotionBundles
    BY <1>1 DEF LegacyUpload
  <2> QED BY <1>1, <2>1 DEF LegacyUpload
<1>2. CASE LegacyUploadFail
  BY <1>2, Leaving DEF LegacyUploadFail, Leaves
<1>3. CASE LegacyPublish
  BY <1>3 DEF LegacyPublish
<1>4. CASE LegacySave
  BY <1>4, Leaving DEF LegacySave, Leaves, WorkPrint
<1> QED BY <1>1, <1>2, <1>3, <1>4 DEF LegacySteps

\* An upload to an associated storage changes that storage and its queue, no more.
LEMMA AssocMoves ==
  ASSUME AssocSteps, Basic
  PROVE  /\ work' = work /\ cstate' = cstate /\ mstate' = mstate /\ world' = world /\ conf' = conf
         /\ legacy' = legacy /\ charts' = charts /\ meta' = meta /\ changes' = changes
         /\ faults' = faults \/ (faults < MaxFaults /\ faults' = faults + 1)
         /\ pc = "assoc-upload" /\ pc' = pc /\ stage' = stage /\ todo' = todo /\ index' = index
         /\ failed' \in BOOLEAN /\ targets # <<>>
         /\ \E part \in SUBSET FilesOf(Head(uploads)) :
              /\ assoc' = Copied(Head(targets), Head(uploads), part)
              /\ \/ NextTarget
                 \/ /\ part = FilesOf(Head(uploads)) /\ Len(uploads) > 1
                    /\ uploads' = Tail(uploads) /\ targets' = targets
<1> USE DEF env, local, remote, Fault
<1>1. CASE AssocUpload
  <2>1. /\ FilesOf(Head(uploads)) \in SUBSET FilesOf(Head(uploads))
        /\ assoc' = Copied(Head(targets), Head(uploads), FilesOf(Head(uploads)))
    BY <1>1 DEF AssocUpload
  <2> QED BY <1>1, <2>1 DEF AssocUpload, Basic, Typed
<1>2. CASE AssocUploadFail
  BY <1>2 DEF AssocUploadFail
<1> QED BY <1>1, <1>2 DEF AssocSteps

\* A step of the charts changes the rendered charts, their storages and their state.
LEMMA ChartMoves ==
  ASSUME ChartSteps, Basic
  PROVE  /\ mstate' = mstate /\ world' = world /\ conf' = conf
         /\ legacy' = legacy /\ assoc' = assoc /\ meta' = meta /\ changes' = changes
         /\ faults' = faults \/ (faults < MaxFaults /\ faults' = faults + 1)
         /\ \/ /\ pc = "render" /\ cstate' = cstate /\ charts' = charts
               /\ \E part \in SUBSET (todo \cap world.musics) :
                    /\ work' = RenderedCharts(part)
                    /\ \/ Leaves
                       \/ /\ pc' = "charts-upload" /\ stage' = stage /\ failed' = failed
                          /\ todo' = part /\ targets' = SetToSeq(ChartStorages)
            \/ /\ pc = "charts-upload" /\ targets # <<>> /\ cstate' = cstate /\ work' = work
               /\ \E part \in SUBSET Scores :
                    /\ charts' = ChartsCopied(Head(targets), part)
                    /\ \/ Leaves
                       \/ /\ part = Scores /\ pc' = pc /\ stage' = stage /\ failed' = failed
                          /\ todo' = todo /\ targets' = Tail(targets)
            \/ /\ pc = "charts-upload" /\ targets = <<>> /\ Leaves
               /\ charts' = charts /\ work' = work
               /\ cstate' = [c \in Scores |-> IF c \in todo THEN meta.ver[c]
                                 ELSE IF cstate = None THEN None ELSE cstate[c]]
<1> USE DEF env, local, remote, Fault
<1>1. CASE Render
  <2>1. todo' \in SUBSET (todo \cap world.musics) /\ work' = RenderedCharts(todo')
    BY <1>1 DEF Render
  <2> QED BY <1>1, <2>1 DEF Render
<1>2. CASE RenderFail
  BY <1>2, Leaving DEF RenderFail, Leaves
<1>3. CASE ChartsUpload
  <2>1. Scores \in SUBSET Scores /\ charts' = ChartsCopied(Head(targets), Scores)
    BY <1>3 DEF ChartsUpload
  <2> QED BY <1>3, <2>1 DEF ChartsUpload
<1>4. CASE ChartsUploadFail
  BY <1>4, Leaving DEF ChartsUploadFail, Leaves
<1>5. CASE ChartsSave
  BY <1>5, Leaving DEF ChartsSave, Leaves
<1> QED BY <1>1, <1>2, <1>3, <1>4, <1>5 DEF ChartSteps

\* Changing two fields of one storage.
LEMMA LegacyShape ==
  ASSUME Shaped, NEW u \in LegacyStorages, NEW models \in SUBSET ModelBundles, NEW motions,
         NEW L, L = LegacyCopied(u, models, motions)
  PROVE  /\ LegacyShaped(L)
         /\ \A t \in LegacyStorages, s \in MotionBundles :
              L[t].motions[s] = IF t = u /\ s \in motions /\ work.motions[s] # None
                                THEN work.motions[s] ELSE legacy[t].motions[s]
<1> DEFINE M == legacy[u].models \cup {b \in models : work.models[b] # None}
           K == [legacy EXCEPT ![u].models = M]
           m == [s \in MotionBundles |-> IF s \in motions /\ work.motions[s] # None
                                         THEN work.motions[s] ELSE legacy[u].motions[s]]
<1>1. /\ DOMAIN legacy = LegacyStorages
      /\ \A t \in LegacyStorages :
           /\ legacy[t] = [models |-> legacy[t].models, motions |-> legacy[t].motions,
                           list |-> legacy[t].list]
           /\ OnMotions(legacy[t].motions)
  BY DEF Shaped, LegacyShaped
<1>2. K[u] = [models |-> M, motions |-> legacy[u].motions, list |-> legacy[u].list]
  <2>1. K[u] = [legacy[u] EXCEPT !.models = M]
    BY <1>1
  <2> HIDE DEF M, K
  <2> QED BY <1>1, <2>1
<1>3. DOMAIN K = LegacyStorages /\ \A t \in LegacyStorages \ {u} : K[t] = legacy[t]
  BY <1>1
<1>4. L = [K EXCEPT ![u].motions = m]
  <2>1. K[u].motions = legacy[u].motions
    BY <1>2
  <2> QED BY <2>1 DEF LegacyCopied
<1> HIDE DEF K
<1>5. L[u] = [models |-> M, motions |-> m, list |-> legacy[u].list]
  <2>1. L[u] = [K[u] EXCEPT !.motions = m]
    BY <1>3, <1>4
  <2> HIDE DEF M, m
  <2> QED BY <1>2, <2>1
<1>6. DOMAIN L = LegacyStorages /\ \A t \in LegacyStorages \ {u} : L[t] = legacy[t]
  BY <1>1, <1>3, <1>4
<1>7. OnMotions(m)
  BY DEF OnMotions
<1>8. \A t \in LegacyStorages : /\ L[t] = [models |-> L[t].models, motions |-> L[t].motions,
                                           list |-> L[t].list]
                                /\ OnMotions(L[t].motions)
  <2> HIDE DEF M, m
  <2> QED BY <1>1, <1>5, <1>6, <1>7
<1>9. L = [t \in LegacyStorages |-> L[t]]
  BY <1>4, <1>6
<1>10. \A t \in LegacyStorages, s \in MotionBundles :
                  L[t].motions[s] = IF t = u /\ s \in motions /\ work.motions[s] # None
                                    THEN work.motions[s] ELSE legacy[t].motions[s]
  BY <1>5, <1>6
<1>11. L = [t \in LegacyStorages |-> [models |-> L[t].models, motions |-> L[t].motions,
                                      list |-> L[t].list]]
  BY <1>8, <1>9
<1> QED BY <1>8, <1>10, <1>11 DEF LegacyShaped

\* Publishing the list of one storage.
LEMMA ListShape ==
  ASSUME Shaped, NEW u \in LegacyStorages, NEW v,
         NEW L, L = [legacy EXCEPT ![u].list = v]
  PROVE  LegacyShaped(L) /\ \A t \in LegacyStorages : L[t].motions = legacy[t].motions
<1>1. /\ DOMAIN legacy = LegacyStorages
      /\ \A t \in LegacyStorages :
           /\ legacy[t] = [models |-> legacy[t].models, motions |-> legacy[t].motions,
                           list |-> legacy[t].list]
           /\ OnMotions(legacy[t].motions)
  BY DEF Shaped, LegacyShaped
<1>2. L[u] = [models |-> legacy[u].models, motions |-> legacy[u].motions, list |-> v]
  <2>1. L[u] = [legacy[u] EXCEPT !.list = v]
    BY <1>1
  <2> QED BY <1>1, <2>1
<1>3. DOMAIN L = LegacyStorages /\ \A t \in LegacyStorages \ {u} : L[t] = legacy[t]
  BY <1>1
<1>4. L = [t \in LegacyStorages |-> L[t]]
  BY <1>1
<1>5. \A t \in LegacyStorages : L[t] = [models |-> L[t].models, motions |-> L[t].motions,
                                        list |-> L[t].list]
  BY <1>1, <1>2, <1>3
<1>6. L = [t \in LegacyStorages |-> [models |-> L[t].models, motions |-> L[t].motions,
                                     list |-> L[t].list]]
  BY <1>4, <1>5
<1>7. \A t \in LegacyStorages : L[t].motions = legacy[t].motions
  BY <1>2, <1>3
<1> QED BY <1>1, <1>6, <1>7 DEF LegacyShaped

\* Copying a directory to an associated storage, in part or whole.
LEMMA AssocFields ==
  ASSUME Shaped, NEW u \in Storages, NEW dir, NEW part, assoc' = Copied(u, dir, part)
  PROVE  /\ AssocShaped(assoc')
         /\ \A t \in Storages \ {u} : assoc'[t] = assoc[t]
         /\ dir.part = "list" =>
              /\ assoc'[u].files = assoc[u].files
              /\ assoc'[u].list = IF part # {} THEN ViewerCatalog(index) ELSE assoc[u].list
         /\ dir.part # "list" =>
              /\ assoc'[u].files = assoc[u].files \cup part
              /\ assoc'[u].list = assoc[u].list
<1> DEFINE v == IF part = {} THEN assoc[u].list ELSE ViewerCatalog(index)
<1>1. /\ DOMAIN assoc = Storages
      /\ \A t \in Storages :
           assoc[t] = [files |-> assoc[t].files, list |-> assoc[t].list,
                       content |-> assoc[t].content]
  BY DEF Shaped, AssocShaped
<1>2. CASE dir.part = "list"
  <2>1. assoc' = [assoc EXCEPT ![u].list = v]
    BY <1>1, <1>2 DEF Copied
  <2> HIDE DEF v
  <2>2. assoc'[u] = [files |-> assoc[u].files, list |-> v, content |-> assoc[u].content]
    <3>1. assoc'[u] = [assoc[u] EXCEPT !.list = v]
      BY <1>1, <2>1
    <3> QED BY <1>1, <3>1
  <2>3. DOMAIN assoc' = Storages /\ assoc' = [t \in Storages |-> assoc'[t]]
        /\ \A t \in Storages \ {u} : assoc'[t] = assoc[t]
    BY <1>1, <2>1
  <2>4. \A t \in Storages : assoc'[t] = [files |-> assoc'[t].files, list |-> assoc'[t].list,
                                    content |-> assoc'[t].content]
    BY <1>1, <2>2, <2>3
  <2>5. assoc' = [t \in Storages |-> [files |-> assoc'[t].files, list |-> assoc'[t].list,
                                    content |-> assoc'[t].content]]
    BY <2>3, <2>4
  <2> QED BY <1>2, <2>2, <2>3, <2>5 DEF v, AssocShaped
<1>3. CASE dir.part # "list"
  <2> DEFINE B == [assoc EXCEPT ![u].files = assoc[u].files \cup part]
             w == IF part = DirectoryFiles(index, dir) THEN ContentOf(dir)
                  ELSE assoc[u].content[dir.bundle]
             c == [assoc[u].content EXCEPT ![dir.bundle] = w]
  <2>1. B[u] = [files |-> assoc[u].files \cup part, list |-> assoc[u].list,
                content |-> assoc[u].content]
    <3>1. B[u] = [assoc[u] EXCEPT !.files = assoc[u].files \cup part]
      BY <1>1
    <3> HIDE DEF B
    <3> QED BY <1>1, <3>1
  <2>2. DOMAIN B = Storages /\ \A t \in Storages \ {u} : B[t] = assoc[t]
    BY <1>1
  <2>3. assoc' = [B EXCEPT ![u].content = c]
    <3>1. B[u].content = assoc[u].content
      BY <2>1
    <3> QED BY <1>3, <3>1 DEF Copied
  <2> HIDE DEF B, c
  <2>4. assoc'[u] = [files |-> assoc[u].files \cup part, list |-> assoc[u].list, content |-> c]
    <3>1. assoc'[u] = [B[u] EXCEPT !.content = c]
      BY <2>2, <2>3
    <3> QED BY <2>1, <3>1
  <2>5. DOMAIN assoc' = Storages /\ assoc' = [t \in Storages |-> assoc'[t]]
        /\ \A t \in Storages \ {u} : assoc'[t] = assoc[t]
    BY <2>2, <2>3
  <2>6. \A t \in Storages : assoc'[t] = [files |-> assoc'[t].files, list |-> assoc'[t].list,
                                    content |-> assoc'[t].content]
    BY <1>1, <2>4, <2>5
  <2>7. assoc' = [t \in Storages |-> [files |-> assoc'[t].files, list |-> assoc'[t].list,
                                    content |-> assoc'[t].content]]
    BY <2>5, <2>6
  <2> QED BY <1>3, <2>4, <2>5, <2>7 DEF AssocShaped
<1> QED BY <1>2, <1>3


\* A state file that is lost, and a change of the world, as values.
LEMMA OutsideMoves ==
  ASSUME Basic
  PROVE  /\ LoseState => /\ pc = "idle"
                         /\ UNCHANGED <<work, audit, legacy, assoc, charts, world, conf, changes, run>>
                         /\ faults' \in {faults, faults + 1} /\ faults' <= MaxFaults
                         /\ mstate' \in {mstate, None} /\ cstate' \in {cstate, None}
         /\ Change => /\ UNCHANGED <<conf, faults, work, mstate, cstate, audit,
                                     legacy, assoc, charts, run>>
                      /\ changes' = changes + 1 /\ changes' <= MaxChanges
                      /\ world' \in Worlds
                      /\ \A b \in AllBundles : world.ver[b] <= world'.ver[b]
                      /\ \A b \in Live2DBundles :
                           world.ver[b] = world'.ver[b] => world.layout[b] = world'.layout[b]
<1> USE PostprocessAssumption DEF Basic, Typed
<1>1. ASSUME LoseState
      PROVE  /\ pc = "idle"
             /\ UNCHANGED <<work, audit, legacy, assoc, charts, world, conf, changes, run>>
             /\ faults' \in {faults, faults + 1} /\ faults' <= MaxFaults
             /\ mstate' \in {mstate, None} /\ cstate' \in {cstate, None}
  BY <1>1 DEF LoseState, Fault, remote
<1>2. ASSUME Change
      PROVE  /\ UNCHANGED <<conf, faults, work, mstate, cstate, audit, legacy, assoc, charts, run>>
             /\ changes' = changes + 1 /\ changes' <= MaxChanges
             /\ world' \in Worlds
             /\ \A b \in AllBundles : world.ver[b] <= world'.ver[b]
             /\ \A b \in Live2DBundles :
                  world.ver[b] = world'.ver[b] => world.layout[b] = world'.layout[b]
  <2>1. /\ UNCHANGED <<conf, faults, work, mstate, cstate, audit, legacy, assoc, charts, run>>
        /\ changes' = changes + 1 /\ changes' <= MaxChanges
    <3>1. UNCHANGED <<conf, faults, work, mstate, cstate, audit, legacy, assoc, charts, run>>
      BY <1>2 DEF Change, local, remote
    <3>2. changes < MaxChanges /\ changes' = changes + 1
      BY <1>2 DEF Change
    <3>3. changes \in Int /\ MaxChanges \in Int
      OBVIOUS
    <3> QED BY <3>1, <3>2, <3>3
  <2>2. world \in Worlds /\ \A b \in AllBundles : world.ver[b] \in Versions
    BY DEF Worlds
  <2>3. ASSUME NEW b \in AllBundles, world.ver[b] < MaxVersion,
               world' = [world EXCEPT !.ver[b] = @ + 1]
        PROVE  /\ world' \in Worlds
               /\ \A c \in AllBundles : world.ver[c] <= world'.ver[c]
               /\ \A c \in Live2DBundles :
                    world.ver[c] = world'.ver[c] => world.layout[c] = world'.layout[c]
    <3>1. world.ver[b] + 1 \in Versions
      BY <2>2, <2>3 DEF Versions
    <3>2. world' = [ver |-> [world.ver EXCEPT ![b] = world.ver[b] + 1], layout |-> world.layout,
                    archive |-> world.archive, musics |-> world.musics]
      BY <2>2, <2>3 DEF Worlds
    <3>3. \A c \in AllBundles : world.ver[c] <= world'.ver[c] /\ world.ver[c] \in Int
      BY <2>2, <3>2 DEF Worlds, Versions
    <3> QED BY <2>2, <3>1, <3>2, <3>3 DEF Worlds
  <2>4. ASSUME NEW l \in Layouts, NEW moved, moved = {b \in Live2DBundles : l[b] # world.layout[b]},
               \A b \in moved : world.ver[b] < MaxVersion,
               world' = [world EXCEPT !.layout = l,
                  !.ver = [b \in AllBundles |->
                             IF b \in moved THEN @[b] + 1 ELSE @[b]]]
        PROVE  /\ world' \in Worlds
               /\ \A c \in AllBundles : world.ver[c] <= world'.ver[c]
               /\ \A c \in Live2DBundles :
                    world.ver[c] = world'.ver[c] => world.layout[c] = world'.layout[c]
    <3> DEFINE v == [b \in AllBundles |-> IF b \in moved THEN world.ver[b] + 1 ELSE world.ver[b]]
    <3>1. v \in [AllBundles -> Versions] /\ \A c \in AllBundles : world.ver[c] <= v[c]
      BY <2>2, <2>4 DEF Versions
    <3>2. world' = [ver |-> v, layout |-> l, archive |-> world.archive, musics |-> world.musics]
      <4> HIDE <2>4
      <4>1. world' = [world EXCEPT !.layout = l,
                  !.ver = [b \in AllBundles |->
                             IF b \in moved THEN world.ver[b] + 1 ELSE world.ver[b]]]
        BY <2>2, <2>4 DEF Worlds
      <4>2. world' = [world EXCEPT !.layout = l, !.ver = v]
        BY <4>1
      <4> HIDE DEF v
      <4> QED BY <2>2, <4>2 DEF Worlds
    <3>3. \A c \in Live2DBundles : world.ver[c] = v[c] => world.layout[c] = l[c]
      <4> SUFFICES ASSUME NEW c \in Live2DBundles, world.layout[c] # l[c] PROVE world.ver[c] # v[c]
        OBVIOUS
      <4>1. c \in moved /\ c \in AllBundles
        BY <2>4 DEF AllBundles
      <4>2. v[c] = world.ver[c] + 1 /\ world.ver[c] \in Int
        BY <2>2, <4>1 DEF Versions
      <4> QED BY <4>2
    <3> HIDE DEF v
    <3> QED BY <2>2, <3>1, <3>2, <3>3 DEF Worlds
  <2>5. ASSUME world' \in Worlds, world'.ver = world.ver, world'.layout = world.layout
        PROVE  /\ \A c \in AllBundles : world.ver[c] <= world'.ver[c]
               /\ \A c \in Live2DBundles :
                    world.ver[c] = world'.ver[c] => world.layout[c] = world'.layout[c]
    BY <2>2, <2>5 DEF Versions
  <2>6. ASSUME NEW a \in Archives, world' = [world EXCEPT !.archive = a]
        PROVE  world' \in Worlds /\ world'.ver = world.ver /\ world'.layout = world.layout
    BY <2>2, <2>6 DEF Worlds
  <2>7. ASSUME NEW c \in Scores, world' = [world EXCEPT !.musics = @ \cup {c}]
        PROVE  world' \in Worlds /\ world'.ver = world.ver /\ world'.layout = world.layout
    BY <2>2, <2>7 DEF Worlds
  <2> QED BY <1>2, <2>1, <2>3, <2>4, <2>5, <2>6, <2>7 DEF Change
<1> QED BY <1>1, <1>2

\* Records and functions stay what they are made of.
LEMMA ShapedKept ==
  ASSUME Basic, [Next]_vars PROVE Shaped'
<1> USE DEF Basic
<1>1. CASE Quiet
  BY <1>1, QuietLeaves DEF Shaped
<1>2. CASE Rebuilding
  BY <1>2, RebuildingMoves, RebuildingFields DEF Shaped
<1>3. CASE LegacySteps
  <2>1. targets # <<>> => Head(targets) \in LegacyStorages
    BY <1>3, LegacyMoves DEF Queued
  <2>2. LegacyShaped(legacy')
    <3>1. CASE pc = "legacy-list"
      <4>1. targets # <<>> /\ legacy' = [legacy EXCEPT ![Head(targets)].list = legacy[Head(targets)].models]
        BY <1>3, <3>1, LegacyMoves DEF Queued
      <4> QED BY <2>1, <4>1, ListShape
    <3>2. CASE pc = "legacy-upload" /\ targets # <<>>
      <4>1. PICK models \in SUBSET ModelBundles, motions \in SUBSET MotionBundles :
              legacy' = LegacyCopied(Head(targets), models, motions)
        BY <1>3, <3>2, LegacyMoves
      <4> QED BY <2>1, <3>2, <4>1, LegacyShape
    <3>3. CASE pc = "legacy-upload" /\ targets = <<>>
      BY <1>3, <3>3, LegacyMoves DEF Shaped
    <3> QED BY <1>3, <3>1, <3>2, <3>3, LegacyMoves DEF Publishing
  <2>3. work' = work /\ assoc' = assoc
        /\ (mstate' = mstate \/ mstate' = [fp |-> WorkPrint, motions |-> CachedMotions])
    BY <1>3, LegacyMoves
  <2>4. mstate' # None => mstate' = [fp |-> mstate'.fp, motions |-> mstate'.motions]
    BY <2>3 DEF Shaped
  <2> QED BY <2>2, <2>3, <2>4 DEF Shaped
<1>4. CASE AssocSteps
  <2>1. PICK part \in SUBSET FilesOf(Head(uploads)) :
              assoc' = Copied(Head(targets), Head(uploads), part)
    BY <1>4, AssocMoves
  <2>2. Head(targets) \in Storages
    BY <1>4, AssocMoves DEF Queued
  <2>3. AssocShaped(assoc')
    BY <2>1, <2>2, AssocFields
  <2>4. work' = work /\ legacy' = legacy /\ mstate' = mstate
    BY <1>4, AssocMoves
  <2> QED BY <2>3, <2>4 DEF Shaped
<1>5. CASE ChartSteps
  <2>1. legacy' = legacy /\ assoc' = assoc /\ mstate' = mstate
    BY <1>5, ChartMoves
  <2>2. work' = work \/ \E part : work' = RenderedCharts(part)
    BY <1>5, ChartMoves
  <2>3. /\ work' = [models |-> work'.models, motions |-> work'.motions,
                    charts |-> work'.charts, backups |-> work'.backups]
        /\ OnMotions(work'.motions)
    BY <2>2 DEF Shaped, RenderedCharts
  <2> QED BY <2>1, <2>3 DEF Shaped
<1>6. CASE LoseState
  BY <1>6, OutsideMoves DEF Shaped
<1>7. CASE Change
  BY <1>7, OutsideMoves DEF Shaped
<1>8. CASE UNCHANGED vars
  BY <1>8 DEF vars, local, remote, Shaped
<1> QED BY <1>1, <1>2, <1>3, <1>4, <1>5, <1>6, <1>7, <1>8, Steps

\* A step leads from a place of the flow to one that may follow it.
LEMMA StagedKept ==
  ASSUME Basic, [Next]_vars PROVE Staged'
<1> USE DEF Basic, Recovering, Associating, Publishing
<1>0. \A b \in ModelBundles : meta.ver[b] # None
  BY PostprocessAssumption DEF Typed, Worlds, Versions, AllBundles, Live2DBundles
<1>1. CASE Quiet
  <2>1. Present' = Present
    BY <1>1, QuietLeaves DEF Present
  <2>2. CASE Leaves
    BY <2>2 DEF Leaves, Staged, Pcs
  <2>3. CASE ~Leaves
    BY <1>1, <2>1, <2>3, QuietMoves DEF Staged, Live2DModes, Pcs
  <2> QED BY <2>2, <2>3
<1>2. CASE Rebuilding
  <2>1. pc = "idle" => Staged'
    BY <1>2, RebuildingMoves DEF Staged, Pcs
  <2>2. pc \in {"recover"} => Staged'
    BY <1>2, RebuildingMoves DEF Staged, Pcs
  <2>3. pc \in {"promote", "promote-new"} => Present'
    BY <1>0, <1>2, RebuildingFields DEF Present
  <2>4. pc \in {"promote", "promote-new"} => Staged'
    BY <1>2, <2>3, RebuildingMoves DEF Staged, Pcs
  <2>5. pc \in {"clean", "restore"} => Present'
    BY <1>2, RebuildingFields DEF Present, Staged
  <2>6. pc \in {"clean", "restore"} => Staged'
    BY <1>2, <2>5, RebuildingMoves DEF Staged, Pcs
  <2> QED BY <1>2, <2>1, <2>2, <2>4, <2>6, RebuildingMoves
<1>3. CASE LegacySteps
  <2>1. Present' = Present
    BY <1>3, LegacyMoves DEF Present
  <2>2. Leaves \/ (stage' = stage /\ pc' \in Publishing)
    BY <1>3, LegacyMoves
  <2>3. pc \in Publishing
    BY <1>3, LegacyMoves
  <2>4. CASE Leaves
    BY <2>4 DEF Leaves, Staged, Pcs
  <2> QED BY <2>1, <2>2, <2>3, <2>4 DEF Staged, Pcs
<1>4. CASE AssocSteps
  BY <1>4, AssocMoves DEF Staged, Pcs
<1>5. CASE ChartSteps
  <2>1. Leaves \/ pc' = "charts-upload"
    BY <1>5, ChartMoves
  <2> QED BY <2>1 DEF Leaves, Staged, Pcs
<1>6. CASE LoseState
  BY <1>6, OutsideMoves DEF Staged, Present, run
<1>7. CASE Change
  BY <1>7, OutsideMoves DEF Staged, Present, run
<1>8. CASE UNCHANGED vars
  BY <1>8 DEF vars, local, run, Staged, Present
<1> QED BY <1>1, <1>2, <1>3, <1>4, <1>5, <1>6, <1>7, <1>8, Steps

\* What a run works from, the workspace and the counters keep their types.
LEMMA TypedKept ==
  ASSUME Basic, [Next]_vars PROVE Typed'
<1> USE DEF Basic
<1>0. /\ MaxFaults \in Nat /\ MaxChanges \in Nat /\ MaxVersion \in Nat
      /\ faults \in 0..MaxFaults /\ changes \in 0..MaxChanges
      /\ \A b \in ModelBundles \cup Scores : meta.ver[b] \in Versions
  BY PostprocessAssumption DEF Typed, Worlds, AllBundles, Live2DBundles
<1>1. CASE Quiet
  <2>1. meta' \in Worlds
    <3>1. CASE meta' = meta
      BY <3>1 DEF Typed
    <3>2. CASE meta' = [meta EXCEPT !.archive = world.archive]
      BY <3>2 DEF Typed, Worlds
    <3> QED BY <1>1, <3>1, <3>2, QuietLeaves
  <2>2. faults' \in 0..MaxFaults
    BY <1>0, <1>1, QuietLeaves
  <2>3. pc' \notin {"promote", "clean"} /\ failed' \in BOOLEAN
        /\ todo' \subseteq MotionBundles \cup Scores
    BY <1>1, QuietMoves DEF Leaves, Typed
  <2> QED BY <1>1, <2>1, <2>2, <2>3, QuietLeaves DEF Typed
<1>2. CASE Rebuilding
  <2>1. meta' \in Worlds /\ todo' \subseteq MotionBundles \cup Scores
    BY <1>2, RebuildingMoves DEF Typed
  <2>2. work'.models \in [ModelBundles -> Versions \cup {None}]
    <3>1. EmptyWork.models \in [ModelBundles -> Versions \cup {None}]
      BY DEF EmptyWork
    <3>2. [b \in ModelBundles |-> meta.ver[b]] \in [ModelBundles -> Versions \cup {None}]
      BY <1>0
    <3> QED BY <1>2, <3>1, <3>2, RebuildingFields DEF Typed
  <2>3. work'.charts \in [Scores -> Versions \cup {None}]
    <3>1. EmptyWork.charts \in [Scores -> Versions \cup {None}]
      BY DEF EmptyWork
    <3> QED BY <1>2, <3>1, RebuildingFields DEF Typed
  <2>4. work'.backups \in Nat /\ (pc' \in {"promote", "clean"} => work'.backups # 0)
    <3>1. work.backups \in Nat /\ (pc \in {"promote", "clean"} => work.backups # 0)
      BY DEF Typed
    <3>2. CASE pc = "idle"
      BY <1>2, <3>1, <3>2, RebuildingFields, RebuildingMoves
    <3>3. CASE pc = "recover"
      BY <1>2, <3>1, <3>3, RebuildingFields, RebuildingMoves
    <3>4. CASE pc \notin {"idle", "recover"}
      BY <1>2, <3>1, <3>4, RebuildingFields, RebuildingMoves
    <3> QED BY <3>2, <3>3, <3>4
  <2> QED BY <1>2, <2>1, <2>2, <2>3, <2>4, RebuildingMoves DEF Typed
<1>3. CASE LegacySteps
  <2>1. faults' \in 0..MaxFaults
    BY <1>0, <1>3, LegacyMoves
  <2>2. pc' \notin {"promote", "clean"} /\ failed' \in BOOLEAN
        /\ todo' \subseteq MotionBundles \cup Scores
    BY <1>3, LegacyMoves DEF Leaves, Typed
  <2> QED BY <1>3, <2>1, <2>2, LegacyMoves DEF Typed
<1>4. CASE AssocSteps
  <2>1. faults' \in 0..MaxFaults
    BY <1>0, <1>4, AssocMoves
  <2> QED BY <1>4, <2>1, AssocMoves DEF Typed
<1>5. CASE ChartSteps
  <2>1. faults' \in 0..MaxFaults
    BY <1>0, <1>5, ChartMoves
  <2>2. pc' \notin {"promote", "clean"} /\ failed' \in BOOLEAN
        /\ todo' \subseteq MotionBundles \cup Scores
    BY <1>5, ChartMoves DEF Leaves, Typed
  <2>3. /\ work'.models = work.models /\ work'.backups = work.backups
        /\ work'.charts \in [Scores -> Versions \cup {None}]
    <3>1. CASE work' = work
      BY <3>1 DEF Typed
    <3>2. ASSUME NEW part, work' = RenderedCharts(part)
          PROVE  /\ work'.models = work.models /\ work'.backups = work.backups
                 /\ work'.charts \in [Scores -> Versions \cup {None}]
      <4> DEFINE m == [c \in Scores |-> IF c \in part THEN meta.ver[c] ELSE work.charts[c]]
      <4>1. m \in [Scores -> Versions \cup {None}]
        BY <1>0 DEF Typed
      <4>2. work' = [work EXCEPT !.charts = m]
        BY <3>2 DEF RenderedCharts
      <4> HIDE DEF m
      <4>3. work'.models = work.models /\ work'.backups = work.backups /\ work'.charts = m
        BY <4>2 DEF Shaped
      <4> QED BY <4>1, <4>3
    <3> QED BY <1>5, <3>1, <3>2, ChartMoves
  <2>4. charts' \in [ChartStorages -> [Scores -> Versions \cup {None}]]
    <3>1. CASE charts' = charts
      BY <3>1 DEF Typed
    <3>2. ASSUME NEW part, charts' = ChartsCopied(Head(targets), part)
          PROVE  charts' \in [ChartStorages -> [Scores -> Versions \cup {None}]]
      BY <3>2 DEF ChartsCopied, Typed
    <3> QED BY <1>5, <3>1, <3>2, ChartMoves
  <2>5. cstate' # None => cstate' \in [Scores -> Versions \cup {None}]
    <3>1. CASE cstate' = cstate
      BY <3>1 DEF Typed
    <3>2. CASE cstate' = [c \in Scores |-> IF c \in todo THEN meta.ver[c]
                                 ELSE IF cstate = None THEN None ELSE cstate[c]]
      BY <1>0, <3>2 DEF Typed
    <3> QED BY <1>5, <3>1, <3>2, ChartMoves
  <2> QED BY <1>5, <2>1, <2>2, <2>3, <2>4, <2>5, ChartMoves DEF Typed
<1>6. CASE LoseState
  BY <1>0, <1>6, OutsideMoves DEF Typed, run
<1>7. CASE Change
  BY <1>0, <1>7, OutsideMoves DEF Typed, run
<1>8. CASE UNCHANGED vars
  BY <1>8 DEF vars, env, local, remote, run, Typed
<1> QED BY <1>1, <1>2, <1>3, <1>4, <1>5, <1>6, <1>7, <1>8, Steps

\* The queue of storages holds storages of the type being served.
LEMMA QueuedKept ==
  ASSUME Basic, [Next]_vars PROVE Queued'
<1> USE DEF Basic, Publishing
<1>0. /\ SetToSeq(LegacyStorages) \in Seq(LegacyStorages)
      /\ SetToSeq(Storages) \in Seq(Storages)
      /\ SetToSeq(ChartStorages) \in Seq(ChartStorages)
  BY PostprocessAssumption, SeqOfSet
<1>9. Leaves => Queued'
  BY DEF Leaves, Queued
<1>1. CASE Quiet
  <2>1. ~Leaves => \/ pc' \notin Publishing \cup {"charts-upload", "assoc-upload"}
                   \/ pc' = "legacy-upload" /\ targets' = SetToSeq(LegacyStorages)
                   \/ pc' = "assoc-upload" /\ targets' = SetToSeq(Storages)
    BY <1>1, QuietMoves
  <2> QED BY <1>0, <1>9, <2>1 DEF Queued
<1>2. CASE Rebuilding
  <2>1. pc' \notin Publishing \cup {"charts-upload", "assoc-upload"}
    BY <1>2, RebuildingMoves
  <2> QED BY <2>1 DEF Queued
<1>3. CASE LegacySteps
  <2>1. targets \in Seq(LegacyStorages) /\ (pc = "legacy-list" => targets # <<>>)
    BY <1>3, LegacyMoves DEF Queued
  <2>2. \/ Leaves
        \/ pc' = "legacy-list" /\ targets' = targets /\ targets # <<>>
        \/ pc = "legacy-list" /\ pc' = "legacy-upload" /\ targets' = Tail(targets)
    BY <1>3, LegacyMoves
  <2> QED BY <1>9, <2>1, <2>2 DEF Queued
<1>4. CASE AssocSteps
  <2>1. /\ pc' = "assoc-upload" /\ pc = "assoc-upload" /\ targets # <<>>
        /\ targets' = Tail(targets) \/ targets' = targets
    BY <1>4, AssocMoves DEF NextTarget
  <2>2. targets' \in Seq(Storages)
    BY <2>1 DEF Queued
  <2> QED BY <2>1, <2>2 DEF Queued
<1>5. CASE ChartSteps
  <2>1. \/ Leaves
        \/ pc' = "charts-upload" /\ targets' = SetToSeq(ChartStorages)
        \/ pc = "charts-upload" /\ pc' = pc /\ targets # <<>> /\ targets' = Tail(targets)
    BY <1>5, ChartMoves
  <2>2. pc = "charts-upload" => targets \in Seq(ChartStorages)
    BY DEF Queued
  <2>3. ~Leaves => pc' = "charts-upload" /\ targets' \in Seq(ChartStorages)
    <3>1. CASE targets' = SetToSeq(ChartStorages)
      BY <1>0, <2>1, <3>1
    <3>2. CASE pc = "charts-upload" /\ targets # <<>> /\ targets' = Tail(targets)
      BY <2>1, <2>2, <3>2
    <3> QED BY <2>1, <3>1, <3>2
  <2> QED BY <1>9, <2>3 DEF Queued
<1>6. CASE LoseState
  BY <1>6, OutsideMoves DEF Queued, run
<1>7. CASE Change
  BY <1>7, OutsideMoves DEF Queued, run
<1>8. CASE UNCHANGED vars
  BY <1>8 DEF vars, run, Queued
<1> QED BY <1>1, <1>2, <1>3, <1>4, <1>5, <1>6, <1>7, <1>8, Steps

\* The world never falls behind what a run works from.
LEMMA BehindKept ==
  ASSUME Basic, [Next]_vars PROVE Behind'
<1> USE DEF Basic
<1>0. /\ \A b \in AllBundles : meta.ver[b] \in Int /\ world.ver[b] \in Int
      /\ \A b \in ModelBundles : meta.ver[b] # None /\ b \in AllBundles
      /\ \A b \in ModelBundles : work.models[b] # None => work.models[b] \in Int
  BY PostprocessAssumption DEF Typed, Worlds, Versions, AllBundles, Live2DBundles
<1>1. CASE Quiet
  <2>1. meta'.ver = meta.ver /\ meta'.layout = meta.layout
    <3>1. CASE meta' = [meta EXCEPT !.archive = world.archive]
      BY <3>1 DEF Typed, Worlds
    <3> QED BY <1>1, <3>1, QuietLeaves
  <2> QED BY <1>1, <2>1, QuietLeaves DEF Behind, Present
<1>2. CASE Rebuilding
  <2>1. CASE pc = "idle"
    <3>1. meta' = world /\ world' = world
      BY <1>2, <2>1, RebuildingMoves
    <3>2. work'.models \in {work.models, EmptyWork.models}
      BY <1>2, <2>1, RebuildingFields
    <3>3. \A b \in ModelBundles : EmptyWork.models[b] = None
      BY DEF EmptyWork
    <3>4. \A b \in ModelBundles : work'.models[b] # None => work'.models[b] <= meta'.ver[b]
      BY <1>0, <3>1, <3>2, <3>3 DEF Behind
    <3>5. Present' \/ \A b \in ModelBundles : work'.models[b] = None
      BY <3>2, <3>3 DEF Behind, Present
    <3> QED BY <1>0, <3>1, <3>4, <3>5 DEF Behind
  <2>2. CASE pc # "idle"
    <3>1. meta' = meta /\ world' = world
      BY <1>2, <2>2, RebuildingMoves
    <3>2. CASE work'.models = work.models
      BY <3>1, <3>2 DEF Behind, Present
    <3>3. CASE work'.models = EmptyWork.models
      BY <3>1, <3>3 DEF Behind, Present, EmptyWork
    <3>4. CASE work'.models = [b \in ModelBundles |-> meta.ver[b]]
      BY <1>0, <3>1, <3>4 DEF Behind, Present
    <3> QED BY <1>2, <3>2, <3>3, <3>4, RebuildingFields
  <2> QED BY <2>1, <2>2
<1>3. CASE LegacySteps
  BY <1>3, LegacyMoves DEF Behind, Present
<1>4. CASE AssocSteps
  BY <1>4, AssocMoves DEF Behind, Present
<1>5. CASE ChartSteps
  <2>1. work'.models = work.models
    BY <1>5, ChartMoves DEF Shaped, RenderedCharts
  <2> QED BY <1>5, <2>1, ChartMoves DEF Behind, Present
<1>6. CASE LoseState
  BY <1>6, OutsideMoves DEF Behind, Present, run
<1>7. CASE Change
  <2>1. meta' = meta /\ work' = work
    BY <1>7, OutsideMoves DEF run
  <2>2. \A b \in AllBundles : world.ver[b] <= world'.ver[b] /\ world'.ver[b] \in Int
    BY <1>7, OutsideMoves DEF Worlds, Versions
  <2>3. \A b \in Live2DBundles :
          world.ver[b] = world'.ver[b] => world.layout[b] = world'.layout[b]
    BY <1>7, OutsideMoves
  <2>4. \A b \in AllBundles : meta.ver[b] <= world'.ver[b]
    BY <1>0, <2>2 DEF Behind
  <2>5. \A b \in Live2DBundles :
          meta.ver[b] = world'.ver[b] => meta.layout[b] = world'.layout[b]
    BY <1>0, <2>2, <2>3 DEF Behind, AllBundles
  <2> QED BY <2>1, <2>4, <2>5 DEF Behind, Present
<1>8. CASE UNCHANGED vars
  BY <1>8 DEF vars, env, local, run, Behind, Present
<1> QED BY <1>1, <1>2, <1>3, <1>4, <1>5, <1>6, <1>7, <1>8, Steps
-----------------------------------------------------------------------------
(* The legacy restore. *)

\* What a run makes of a motion bundle is there: it is not None.
LEMMA FreshIsThere ==
  ASSUME Basic, NEW s \in MotionBundles PROVE Fresh(s) # None
<1>1. meta.ver[s] \in Nat /\ meta.layout \in Layouts
  BY PostprocessAssumption DEF Basic, Typed, Worlds, Versions, AllBundles, Live2DBundles
<1>2. WorkPrint \in [ModelBundles -> MocContents \cup {None}]
  <2>1. ASSUME NEW b \in ModelBundles, work.models[b] # None
        PROVE  Moc[b][work.models[b]] \in MocContents
    <3>1. work.models[b] \in 0..MaxVersion
      BY <2>1 DEF Basic, Typed, Versions
    <3> QED BY <3>1 DEF MocContents
  <2> QED BY <2>1 DEF WorkPrint, Fingerprint
<1>3. Fresh(s) \in RestoredMotions
  BY <1>1, <1>2 DEF Fresh, RestoredAs, RestoredMotions
<1> QED BY <1>3, PostprocessAssumption

\* The motions that are to be restored stay so until the state is saved.
LEMMA PendingStays ==
  ASSUME mstate' = mstate, meta'.ver = meta.ver, meta'.layout = meta.layout,
         work'.models = work.models
  PROVE  /\ PendingMotions' = PendingMotions /\ WorkPrint' = WorkPrint
         /\ \A s \in MotionBundles : Fresh(s)' = Fresh(s)
<1>1. WorkPrint' = WorkPrint
  BY DEF WorkPrint, Fingerprint
<1>2. Fingerprint(work.models)' = Fingerprint(work.models)
  BY DEF Fingerprint
<1> QED BY <1>1, <1>2 DEF PendingMotions, Fresh, RestoredAs

\* Storages leave the queue at its head, once they were served.
LEMMA ServedAtHead ==
  ASSUME NEW S, NEW q \in Seq(S), q # <<>>
  PROVE  Range(q) = {Head(q)} \cup Range(Tail(q))
<1>1. /\ Len(q) \in Nat /\ Len(q) > 0 /\ DOMAIN q = 1..Len(q) /\ Head(q) = q[1]
      /\ DOMAIN Tail(q) = 1..(Len(q) - 1)
      /\ \A i \in 1..(Len(q) - 1) : Tail(q)[i] = q[i + 1]
  OBVIOUS
<1>2. ASSUME NEW i \in DOMAIN q PROVE q[i] \in {Head(q)} \cup Range(Tail(q))
  <2>1. CASE i = 1
    BY <1>1, <2>1
  <2>2. CASE i # 1
    <3>1. i - 1 \in 1..(Len(q) - 1)
      BY <1>1, <2>2
    <3>2. Tail(q)[i - 1] = q[i]
      BY <1>1, <3>1
    <3> QED BY <1>1, <3>1, <3>2 DEF Range
  <2> QED BY <2>1, <2>2
<1>3. ASSUME NEW i \in DOMAIN Tail(q) PROVE Tail(q)[i] \in Range(q)
  <2>1. i + 1 \in DOMAIN q /\ Tail(q)[i] = q[i + 1]
    BY <1>1
  <2> QED BY <2>1 DEF Range
<1>4. Head(q) \in Range(q)
  BY <1>1 DEF Range
<1> QED BY <1>2, <1>3, <1>4 DEF Range

\* A motion is restored before it is served, and served before the state says so.
LEMMA LegacyDoneKept ==
  ASSUME Basic, [Next]_vars, LegacyDone PROVE LegacyDone'
<1> USE DEF Basic
<1>a. Leaves => LegacyDone'
  BY DEF Leaves, LegacyDone, Publishing
<1>b. ASSUME pc' \notin Publishing, pc' # "restore" \/ stage' # "live2d" PROVE LegacyDone'
  BY <1>b DEF LegacyDone
<1>c. ASSUME pc' = pc, stage' = stage, todo' = todo, targets' = targets, mstate' = mstate,
             meta' = meta, work'.models = work.models, work'.motions = work.motions,
             legacy' = legacy
      PROVE  LegacyDone'
  <2>1. PendingMotions' = PendingMotions /\ \A s \in MotionBundles : Fresh(s)' = Fresh(s)
    BY <1>c, PendingStays
  <2>2. PendingMotions \subseteq MotionBundles
    BY DEF PendingMotions
  <2>3. Unserved' = Unserved
    BY <1>c DEF Unserved
  <2> QED BY <1>c, <2>1, <2>2, <2>3 DEF LegacyDone
<1>d. PendingMotions \subseteq MotionBundles
  BY DEF PendingMotions
<1>1. CASE Quiet
  <2>1. CASE Leaves
    BY <1>a, <2>1
  <2>2. CASE ~Leaves
    <3>1. CASE pc = "live2d"
      <4>1. todo' = PendingMotions /\ pc' = "restore"
        BY <1>1, <2>2, <3>1, QuietMoves
      <4>2. meta' = meta
        BY <1>1, <3>1 DEF Quiet, LegacyStart, Recovered, RecoverFail, Restored, RestoreFail,
          LegacyPublishFail, PrepareMasterData, AssocStart, MasterDataFail, EnsureMotions,
          AssocBuild, AssocFinish, ChartsStart, ChartSourceFail, Crash, Return, Abort, SkipOrRaise
      <4>3. PendingMotions' = PendingMotions
        BY <1>1, <4>2, QuietLeaves, PendingStays
      <4> QED BY <4>1, <4>3 DEF LegacyDone, Publishing
    <3>2. CASE pc = "restore" /\ stage = "live2d"
      <4>1. todo = {} /\ pc' = "legacy-upload" /\ targets' = SetToSeq(LegacyStorages)
        BY <1>1, <2>2, <3>2, QuietMoves
      <4>2. work' = work /\ mstate' = mstate /\ meta'.ver = meta.ver /\ meta'.layout = meta.layout
        <5>1. CASE meta' = [meta EXCEPT !.archive = world.archive]
          BY <1>1, <5>1, QuietLeaves DEF Typed, Worlds
        <5> QED BY <1>1, <5>1, QuietLeaves
      <4>3. PendingMotions' = PendingMotions /\ \A s \in MotionBundles : Fresh(s)' = Fresh(s)
        BY <4>2, PendingStays
      <4>4. Unserved' = LegacyStorages
        BY <4>1, PostprocessAssumption, SeqOfSet DEF Unserved
      <4>5. \A s \in PendingMotions : work.motions[s] = Fresh(s)
        BY <3>2, <4>1 DEF LegacyDone
      <4> QED BY <1>d, <4>1, <4>2, <4>3, <4>4, <4>5 DEF LegacyDone
    <3>3. CASE pc # "live2d" /\ ~(pc = "restore" /\ stage = "live2d")
      <4>1. pc' \notin Publishing /\ (pc' = "restore" => stage' = stage /\ pc = "motions")
        BY <1>1, <2>2, <3>3, QuietMoves DEF Publishing
      <4>2. pc = "motions" => stage # "live2d"
        BY DEF Staged, Associating
      <4> QED BY <1>b, <4>1, <4>2
    <3> QED BY <3>1, <3>2, <3>3
  <2> QED BY <2>1, <2>2
<1>2. CASE Rebuilding
  <2>1. CASE pc # "restore"
    <3>1. pc' \notin Publishing /\ pc' # "restore"
      BY <1>2, <2>1, RebuildingMoves DEF Publishing
    <3> QED BY <1>b, <3>1
  <2>2. CASE pc = "restore"
    <3>1. PICK u \in MotionBundles \cap todo :
            work' = [work EXCEPT !.motions[u] = RestoredAs(u, meta, Fingerprint(work.models))]
            /\ todo' = todo \ {u}
      BY <1>2, <2>2, RebuildingMoves
    <3>2. /\ pc' = "restore" /\ stage' = stage /\ meta' = meta /\ mstate' = mstate
      BY <1>2, <2>2, RebuildingMoves
    <3>3. work'.models = work.models /\ work'.motions[u] = Fresh(u)
          /\ \A s \in MotionBundles \ {u} : work'.motions[s] = work.motions[s]
      <4>1. work'.motions = [work.motions EXCEPT ![u] = Fresh(u)] /\ work'.models = work.models
        BY <3>1 DEF Shaped, Fresh, WorkPrint
      <4> QED BY <4>1 DEF Shaped, OnMotions
    <3>4. PendingMotions' = PendingMotions /\ \A s \in MotionBundles : Fresh(s)' = Fresh(s)
      BY <3>2, <3>3, PendingStays
    <3> QED BY <1>d, <2>2, <3>1, <3>2, <3>3, <3>4 DEF LegacyDone, Publishing
  <2> QED BY <2>1, <2>2
<1>3. CASE LegacySteps
  <2>1. CASE Leaves
    BY <1>a, <2>1
  <2>2. CASE ~Leaves
    <3>1. /\ pc \in Publishing /\ pc' \in Publishing /\ work' = work /\ mstate' = mstate
          /\ meta' = meta /\ targets # <<>> /\ targets \in Seq(LegacyStorages)
      BY <1>3, <2>2, LegacyMoves DEF Queued, Publishing
    <3>2. /\ PendingMotions' = PendingMotions
          /\ \A s \in MotionBundles : Fresh(s)' = Fresh(s)
      BY <3>1, PendingStays
    <3>3. \A s \in PendingMotions : work.motions[s] = Fresh(s)
      BY <3>1 DEF LegacyDone
    <3>4. Head(targets) \in LegacyStorages
      BY <3>1
    <3>5. ASSUME NEW s \in PendingMotions, NEW t \in LegacyStorages \ Unserved'
          PROVE  legacy'[t].motions[s] = Fresh(s)
      <4>1. CASE pc = "legacy-upload"
        <5>1. legacy' = LegacyCopied(Head(targets), ModelBundles, MotionBundles)
              /\ targets' = targets /\ pc' = "legacy-list"
          BY <1>3, <2>2, <4>1, LegacyMoves
        <5>2. legacy'[t].motions[s] = IF t = Head(targets) /\ work.motions[s] # None
                                      THEN work.motions[s] ELSE legacy[t].motions[s]
          BY <1>d, <3>4, <5>1, LegacyShape
        <5>3. t # Head(targets) => t \notin Range(targets)
          BY <3>1, <3>5, <5>1, ServedAtHead DEF Unserved
        <5>4. t # Head(targets) => legacy[t].motions[s] = Fresh(s)
          BY <3>1, <4>1, <5>3 DEF LegacyDone, Unserved
        <5>5. Fresh(s) # None
          BY <1>d, FreshIsThere
        <5> QED BY <3>3, <5>2, <5>4, <5>5
      <4>2. CASE pc = "legacy-list"
        <5>1. legacy' = [legacy EXCEPT ![Head(targets)].list = legacy[Head(targets)].models]
              /\ targets' = Tail(targets) /\ pc' = "legacy-upload"
          BY <1>3, <2>2, <4>2, LegacyMoves
        <5>2. legacy'[t].motions = legacy[t].motions
          BY <3>4, <5>1, ListShape
        <5>3. Unserved' = Unserved
          BY <4>2, <5>1 DEF Unserved
        <5> QED BY <3>1, <3>5, <5>2, <5>3 DEF LegacyDone
      <4> QED BY <3>1, <4>1, <4>2 DEF Publishing
    <3>6. pc' # "restore"
      BY <3>1 DEF Publishing
    <3> QED BY <1>d, <3>1, <3>2, <3>3, <3>5, <3>6 DEF LegacyDone
  <2> QED BY <2>1, <2>2
<1>4. CASE AssocSteps
  BY <1>4, <1>b, AssocMoves DEF Publishing
<1>5. CASE ChartSteps
  <2>1. Leaves \/ pc' = "charts-upload"
    BY <1>5, ChartMoves
  <2> QED BY <1>a, <1>b, <2>1 DEF Publishing
<1>6. CASE LoseState
  <2>1. pc' = "idle"
    BY <1>6, OutsideMoves DEF run
  <2> QED BY <1>b, <2>1 DEF Publishing
<1>7. CASE Change
  <2>1. /\ pc' = pc /\ stage' = stage /\ todo' = todo /\ targets' = targets
        /\ mstate' = mstate /\ meta' = meta /\ work' = work /\ legacy' = legacy
    BY <1>7, OutsideMoves DEF run
  <2> QED BY <1>c, <2>1
<1>8. CASE UNCHANGED vars
  BY <1>8, <1>c DEF vars, local, remote, run
<1> QED BY <1>1, <1>2, <1>3, <1>4, <1>5, <1>6, <1>7, <1>8, Steps

\* The prints of the workspace and of the metadata of a run, in order.
LEMMA PrintsInOrder ==
  ASSUME Basic
  PROVE  /\ OnModels(WorkPrint) /\ OnModels(NowPrint) /\ NoLater(NowPrint, NowPrint)
         /\ Present => NoLater(WorkPrint, NowPrint) /\ NoLater(WorkPrint, WorkPrint)
<1> USE DEF Basic
<1>1. \A b \in ModelBundles : meta.ver[b] \in Versions /\ meta.ver[b] <= meta.ver[b]
  BY PostprocessAssumption DEF Typed, Worlds, Versions, AllBundles, Live2DBundles
<1>2. Present => \A b \in ModelBundles :
        work.models[b] \in Versions /\ work.models[b] <= meta.ver[b]
                                    /\ work.models[b] <= work.models[b]
  BY PostprocessAssumption DEF Typed, Behind, Present, Versions
<1>3. OnModels(WorkPrint) /\ OnModels(NowPrint)
  BY DEF WorkPrint, NowPrint, Fingerprint, OnModels
<1>4. NoLater(NowPrint, NowPrint)
  BY <1>1, OlderPrint DEF NowPrint
<1>5. Present => NoLater(WorkPrint, NowPrint)
  BY <1>1, <1>2, OlderPrint DEF WorkPrint, NowPrint
<1>6. Present => NoLater(WorkPrint, WorkPrint)
  BY <1>2, OlderPrint DEF WorkPrint
<1> QED BY <1>3, <1>4, <1>5, <1>6

\* A motion restored by this run lies between, if the saved state does.
LEMMA FreshIsBetween ==
  ASSUME MocsNeverReturn, Basic, MotionsKept, Present, NEW s \in MotionBundles
  PROVE  Between(Fresh(s), s)
<1>1. meta.ver[s] \in Versions /\ meta.ver[s] <= meta.ver[s]
  BY PostprocessAssumption DEF Basic, Typed, Worlds, Versions, AllBundles, Live2DBundles
<1>2. Fresh(s) = [ver |-> meta.ver[s], at |-> MotionPath(s, meta.layout), params |-> WorkPrint]
  BY DEF Fresh, RestoredAs
<1>3. Recent(WorkPrint)
  BY PrintsInOrder DEF Recent
<1>4. mstate # None => mstate.motions[s] <= meta.ver[s] /\ NoLater(mstate.fp, WorkPrint)
  BY DEF MotionsKept, Recent
<1> QED BY <1>1, <1>2, <1>3, <1>4 DEF Between, MotionShape

\* What was recent or between stays so when the run reads new metadata or
\* rebuilds its models from it.
LEMMA RecentStays ==
  ASSUME MocsNeverReturn, Basic, Behind',
         \/ meta'.ver = meta.ver /\ meta'.layout = meta.layout
         \/ meta'.ver = world.ver /\ meta'.layout = world.layout,
         \/ work'.models = work.models
         \/ work'.models = EmptyWork.models
         \/ work'.models = [b \in ModelBundles |-> meta.ver[b]] /\ meta'.ver = meta.ver
  PROVE  \A p : Recent(p) => Recent(p)'
<1> SUFFICES ASSUME NEW p, Recent(p) PROVE Recent(p)'
  OBVIOUS
<1>1. OnModels(p) /\ NoLater(p, NowPrint) /\ (Present => NoLater(p, WorkPrint))
  BY DEF Recent
<1>2. NoLater(p, NowPrint')
  <2>1. CASE meta'.ver = meta.ver
    <3>1. NowPrint' = NowPrint
      BY <2>1 DEF NowPrint, Fingerprint
    <3> QED BY <1>1, <3>1
  <2>2. CASE meta'.ver = world.ver
    <3>1. \A b \in ModelBundles : /\ meta.ver[b] \in Versions /\ world.ver[b] \in Versions
                                  /\ meta.ver[b] <= world.ver[b]
      BY DEF Basic, Typed, Worlds, Versions, Behind, AllBundles, Live2DBundles
    <3>2. NowPrint' = Fingerprint(world.ver)
      BY <2>2 DEF NowPrint, Fingerprint
    <3>3. NoLater(NowPrint, NowPrint')
      BY <3>1, <3>2, OlderPrint DEF NowPrint
    <3> QED BY <1>1, <3>3, NoLaterTrans
  <2> QED BY <2>1, <2>2
<1>3. Present' => NoLater(p, WorkPrint')
  <2>1. CASE work'.models = work.models
    BY <1>1, <2>1 DEF Present, WorkPrint, Fingerprint
  <2>2. CASE work'.models = EmptyWork.models
    BY <2>2 DEF Present, EmptyWork, NoLater
  <2>3. CASE work'.models = [b \in ModelBundles |-> meta.ver[b]]
    <3>1. WorkPrint' = NowPrint
      BY <2>3 DEF WorkPrint, NowPrint, Fingerprint
    <3> QED BY <1>1, <3>1
  <2> QED BY <2>1, <2>2, <2>3
<1>4. NoLater(p, NowPrint)' = NoLater(p, NowPrint') /\ NoLater(p, WorkPrint)' = NoLater(p, WorkPrint')
  BY DEF NoLater, Since
<1>5. OnModels(p)'
  BY <1>1 DEF OnModels
<1> QED BY <1>2, <1>3, <1>4, <1>5 DEF Recent

\* The same for a motion, when the saved state is kept or lost.
LEMMA BetweenStays ==
  ASSUME MocsNeverReturn, Basic, Behind',
         \/ meta'.ver = meta.ver /\ meta'.layout = meta.layout
         \/ meta'.ver = world.ver /\ meta'.layout = world.layout,
         \/ work'.models = work.models
         \/ work'.models = EmptyWork.models
         \/ work'.models = [b \in ModelBundles |-> meta.ver[b]] /\ meta'.ver = meta.ver,
         mstate' = mstate \/ mstate' = None
  PROVE  \A s \in MotionBundles : \A r : Between(r, s) => Between(r, s)'
<1> SUFFICES ASSUME NEW s \in MotionBundles, NEW r, Between(r, s) PROVE Between(r, s)'
  OBVIOUS
<1>1. /\ MotionShape(r) /\ r.ver \in Versions /\ r.ver <= meta.ver[s]
      /\ r.ver = meta.ver[s] => r.at = MotionPath(s, meta.layout)
      /\ Recent(r.params)
      /\ mstate # None => mstate.motions[s] <= r.ver /\ NoLater(mstate.fp, r.params)
  BY DEF Between
<1>2. Recent(r.params)'
  BY <1>1, RecentStays
<1>3. /\ r.ver <= meta'.ver[s]
      /\ r.ver = meta'.ver[s] => r.at = MotionPath(s, meta'.layout)
  <2>1. CASE meta'.ver = meta.ver /\ meta'.layout = meta.layout
    BY <1>1, <2>1
  <2>2. CASE meta'.ver = world.ver /\ meta'.layout = world.layout
    <3>1. s \in Live2DBundles /\ s \in AllBundles
      BY DEF Live2DBundles, AllBundles
    <3>2. /\ meta.ver[s] \in Versions /\ world.ver[s] \in Versions /\ meta.ver[s] <= world.ver[s]
          /\ meta.ver[s] = world.ver[s] => meta.layout[s] = world.layout[s]
      BY <3>1 DEF Basic, Typed, Worlds, Behind
    <3>3. \A v \in Versions : v \in Int
      BY DEF Versions
    <3>4. r.ver <= world.ver[s] /\ (r.ver = world.ver[s] => r.ver = meta.ver[s])
      BY <1>1, <3>2, <3>3
    <3>5. meta.ver[s] = world.ver[s] => MotionPath(s, meta.layout) = MotionPath(s, world.layout)
      BY <3>2, PathIsLocal
    <3> QED BY <1>1, <2>2, <3>4, <3>5
  <2> QED BY <2>1, <2>2
<1>4. mstate' # None => mstate'.motions[s] <= r.ver /\ NoLater(mstate'.fp, r.params)
  BY <1>1
<1>5. NoLater(mstate.fp, r.params)' = NoLater(mstate'.fp, r.params)
  BY DEF NoLater, Since
<1>6. MotionShape(r)' /\ MotionPath(s, meta.layout)' = MotionPath(s, meta'.layout)
  BY <1>1 DEF MotionShape
<1> QED BY <1>1, <1>2, <1>3, <1>4, <1>5, <1>6 DEF Between

\* Steps that leave the motions where they are.
LEMMA MotionsLeft ==
  ASSUME MocsNeverReturn, Basic, Behind', MotionsKept,
         \/ meta'.ver = meta.ver /\ meta'.layout = meta.layout
         \/ meta'.ver = world.ver /\ meta'.layout = world.layout,
         \/ work'.models = work.models
         \/ work'.models = EmptyWork.models
         \/ work'.models = [b \in ModelBundles |-> meta.ver[b]] /\ meta'.ver = meta.ver,
         mstate' = mstate \/ mstate' = None,
         \A s \in MotionBundles : \/ work'.motions[s] \in {work.motions[s], None}
                                  \/ Between(work'.motions[s], s),
         \A t \in LegacyStorages, s \in MotionBundles :
           \/ legacy'[t].motions[s] = legacy[t].motions[s]
           \/ work.motions[s] # None /\ legacy'[t].motions[s] = work.motions[s]
  PROVE  MotionsKept'
<1>1. \A s \in MotionBundles : \A r : Between(r, s) => Between(r, s)'
  BY BetweenStays
<1>2. \A s \in MotionBundles : work'.motions[s] # None => Between(work'.motions[s], s)
  BY DEF MotionsKept
<1>3. \A s \in MotionBundles : work'.motions[s] # None => Between(work.motions[s], s)'
  BY <1>1, <1>2 DEF Between, Recent, MotionShape, OnModels
<1>4. \A t \in LegacyStorages, s \in MotionBundles :
        /\ legacy'[t].motions[s] # None => Between(legacy'[t].motions[s], s)
        /\ mstate' # None => legacy'[t].motions[s] # None
  BY DEF MotionsKept
<1>5. mstate' # None =>
       /\ Recent(mstate.fp)' /\ mstate'.motions \in [MotionBundles -> Versions]
       /\ \A s \in MotionBundles : mstate'.motions[s] <= meta'.ver[s]
  <2> SUFFICES ASSUME mstate' # None
        PROVE  /\ Recent(mstate.fp)' /\ mstate'.motions \in [MotionBundles -> Versions]
               /\ \A s \in MotionBundles : mstate'.motions[s] <= meta'.ver[s]
    OBVIOUS
  <2>1. /\ mstate' = mstate /\ Recent(mstate.fp)
        /\ mstate.motions \in [MotionBundles -> Versions]
        /\ \A s \in MotionBundles : mstate.motions[s] <= meta.ver[s]
    BY DEF MotionsKept
  <2>2. \A p : Recent(p) => Recent(p)'
    BY RecentStays
  <2>3. Recent(mstate.fp)'
    BY <2>1, <2>2 DEF Recent, OnModels
  <2>4. \A s \in MotionBundles : mstate.motions[s] <= meta'.ver[s]
    <3>1. \A s \in MotionBundles :
            /\ meta.ver[s] \in Versions /\ world.ver[s] \in Versions /\ meta.ver[s] <= world.ver[s]
            /\ mstate.motions[s] \in Versions
      BY <2>1 DEF Basic, Typed, Worlds, Behind, AllBundles, Live2DBundles
    <3>2. \A v \in Versions : v \in Int
      BY DEF Versions
    <3> QED BY <2>1, <3>1, <3>2
  <2> QED BY <2>1, <2>3, <2>4
<1> QED BY <1>1, <1>3, <1>4, <1>5 DEF MotionsKept

\* Every motion on disk or on a storage lies between the state file and what
\* the run works from, whatever happens.
LEMMA MotionsKeptOn ==
  ASSUME MocsNeverReturn, Basic, Basic', [Next]_vars, LegacyDone, MotionsKept
  PROVE  MotionsKept'
<1> USE DEF Basic
<1>1. CASE Quiet
  <2>1. meta'.ver = meta.ver /\ meta'.layout = meta.layout
    <3>1. CASE meta' = [meta EXCEPT !.archive = world.archive]
      BY <3>1 DEF Typed, Worlds
    <3> QED BY <1>1, <3>1, QuietLeaves
  <2>2. work' = work /\ mstate' = mstate /\ legacy' = legacy
    BY <1>1, QuietLeaves
  <2> QED BY <2>1, <2>2, MotionsLeft
<1>2. CASE Rebuilding
  <2>0. mstate' = mstate /\ legacy' = legacy
    BY <1>2, RebuildingMoves
  <2>1. meta' = meta \/ meta' = world
    BY <1>2, RebuildingMoves
  <2>2. \/ work'.models = work.models
        \/ work'.models = EmptyWork.models
        \/ work'.models = [b \in ModelBundles |-> meta.ver[b]] /\ meta'.ver = meta.ver
    <3>1. CASE pc = "idle"
      BY <1>2, <3>1, RebuildingFields
    <3>2. CASE pc # "idle"
      BY <1>2, <3>2, RebuildingFields, RebuildingMoves
    <3> QED BY <3>1, <3>2
  <2>3. ASSUME NEW s \in MotionBundles
        PROVE  work'.motions[s] \in {work.motions[s], None} \/ Between(work'.motions[s], s)
    <3>1. CASE work'.motions \in {work.motions, EmptyWork.motions}
      BY <3>1 DEF EmptyWork
    <3>2. ASSUME NEW u \in MotionBundles, pc = "restore",
                 work'.motions = [work.motions EXCEPT ![u] = Fresh(u)]
          PROVE  work'.motions[s] \in {work.motions[s], None} \/ Between(work'.motions[s], s)
      <4>1. Between(Fresh(u), u)
        BY <3>2, FreshIsBetween DEF Staged
      <4>2. work'.motions[s] = IF s = u THEN Fresh(u) ELSE work.motions[s]
        BY <3>2 DEF Shaped, OnMotions
      <4> QED BY <4>1, <4>2
    <3> QED BY <1>2, <3>1, <3>2, RebuildingFields
  <2> QED BY <2>0, <2>1, <2>2, <2>3, MotionsLeft
<1>3. CASE LegacySteps
  <2>1. work' = work /\ meta' = meta /\ pc \in Publishing
    BY <1>3, LegacyMoves
  <2>2. CASE targets # <<>> /\ pc = "legacy-upload"
    <3>1. PICK models \in SUBSET ModelBundles, motions \in SUBSET MotionBundles :
            legacy' = LegacyCopied(Head(targets), models, motions)
      BY <1>3, <2>2, LegacyMoves
    <3>2. mstate' = mstate /\ Head(targets) \in LegacyStorages
      BY <1>3, <2>2, LegacyMoves DEF Queued, Publishing
    <3>3. \A t \in LegacyStorages, s \in MotionBundles :
            legacy'[t].motions[s] = IF t = Head(targets) /\ s \in motions /\ work.motions[s] # None
                                    THEN work.motions[s] ELSE legacy[t].motions[s]
      BY <3>1, <3>2, LegacyShape
    <3> QED BY <2>1, <3>2, <3>3, MotionsLeft
  <2>3. CASE pc = "legacy-list"
    <3>1. legacy' = [legacy EXCEPT ![Head(targets)].list = legacy[Head(targets)].models]
          /\ mstate' = mstate /\ Head(targets) \in LegacyStorages
      BY <1>3, <2>3, LegacyMoves DEF Queued, Publishing
    <3>2. \A t \in LegacyStorages : legacy'[t].motions = legacy[t].motions
      BY <3>1, ListShape
    <3> QED BY <2>1, <3>1, <3>2, MotionsLeft
  <2>4. CASE pc = "legacy-upload" /\ targets = <<>>
    <3>1. legacy' = legacy /\ mstate' = [fp |-> WorkPrint, motions |-> CachedMotions]
      BY <1>3, <2>4, LegacyMoves
    <3>2. Unserved = {}
      BY <2>4 DEF Unserved, Range
    <3>3. Present
      BY <2>1 DEF Staged
    <3>4. Recent(WorkPrint) /\ NoLater(WorkPrint, WorkPrint)
      BY <3>3, PrintsInOrder DEF Recent
    <3>5. \A s \in MotionBundles : /\ CachedMotions[s] = meta.ver[s] /\ meta.ver[s] \in Versions
                                   /\ meta.ver[s] <= meta.ver[s]
      BY PostprocessAssumption DEF CachedMotions, Typed, Worlds, Versions, AllBundles, Live2DBundles
    <3>6. ASSUME NEW s \in MotionBundles, NEW r, Between(r, s), r # None,
                 s \in PendingMotions => r = Fresh(s)
          PROVE  meta.ver[s] <= r.ver /\ NoLater(WorkPrint, r.params)
      <4>1. CASE s \in PendingMotions
        BY <3>4, <3>5, <3>6, <4>1 DEF Fresh, RestoredAs
      <4>2. CASE s \notin PendingMotions
        <5>1. mstate # None /\ mstate.fp = WorkPrint /\ mstate.motions[s] = meta.ver[s]
          BY <4>2 DEF PendingMotions, WorkPrint
        <5> QED BY <3>6, <5>1 DEF Between
      <4> QED BY <4>1, <4>2
    <3>7. \A t \in LegacyStorages, s \in MotionBundles :
            /\ legacy[t].motions[s] # None
            /\ Between(legacy[t].motions[s], s)
            /\ s \in PendingMotions => legacy[t].motions[s] = Fresh(s)
      <4>1. \A t \in LegacyStorages : \A s \in PendingMotions : legacy[t].motions[s] = Fresh(s)
        BY <2>1, <3>2 DEF LegacyDone
      <4>2. ASSUME NEW t \in LegacyStorages, NEW s \in MotionBundles
            PROVE  legacy[t].motions[s] # None
        <5>1. CASE s \in PendingMotions
          BY <4>1, <5>1, FreshIsThere
        <5>2. CASE s \notin PendingMotions
          BY <5>2 DEF PendingMotions, MotionsKept
        <5> QED BY <5>1, <5>2
      <4> QED BY <4>1, <4>2 DEF MotionsKept
    <3>8. \A s \in MotionBundles : work.motions[s] # None =>
            Between(work.motions[s], s) /\ (s \in PendingMotions => work.motions[s] = Fresh(s))
      BY <2>1 DEF LegacyDone, MotionsKept
    <3>9. mstate'.fp = WorkPrint /\ mstate'.motions = CachedMotions
      BY <3>1
    <3>10. /\ WorkPrint' = WorkPrint /\ NowPrint' = NowPrint /\ Present' = Present
      BY <2>1 DEF WorkPrint, NowPrint, Fingerprint, Present
    <3>11. \A p : Recent(p)' = Recent(p)
      BY <3>10 DEF Recent, OnModels, NoLater, Since
    <3>12. ASSUME NEW s \in MotionBundles, NEW r, Between(r, s), r # None,
                  s \in PendingMotions => r = Fresh(s)
           PROVE  Between(r, s)'
      <4>1. meta.ver[s] <= r.ver /\ NoLater(WorkPrint, r.params)
        BY <3>6, <3>12
      <4>2. mstate'.motions[s] <= r.ver /\ NoLater(mstate.fp, r.params)'
        BY <3>5, <3>9, <4>1 DEF NoLater, Since
      <4>3. MotionPath(s, meta.layout)' = MotionPath(s, meta.layout)
        BY <2>1
      <4> QED BY <2>1, <3>11, <3>12, <4>2, <4>3 DEF Between, MotionShape
    <3>13. \A t \in LegacyStorages, s \in MotionBundles : Between(legacy[t].motions[s], s)'
      BY <3>1, <3>7, <3>12
    <3>14. \A s \in MotionBundles : work.motions[s] # None => Between(work.motions[s], s)'
      BY <2>1, <3>8, <3>12
    <3>15. Recent(mstate.fp)'
      BY <3>4, <3>9, <3>11
    <3>16. mstate'.motions \in [MotionBundles -> Versions]
           /\ \A s \in MotionBundles : mstate'.motions[s] <= meta'.ver[s]
      BY <2>1, <3>5, <3>9 DEF CachedMotions
    <3> QED BY <2>1, <3>1, <3>7, <3>13, <3>14, <3>15, <3>16 DEF MotionsKept
  <2> QED BY <1>3, <2>2, <2>3, <2>4, LegacyMoves
<1>4. CASE AssocSteps
  BY <1>4, AssocMoves, MotionsLeft
<1>5. CASE ChartSteps
  <2>1. work'.models = work.models /\ work'.motions = work.motions
    BY <1>5, ChartMoves DEF Shaped, RenderedCharts
  <2> QED BY <1>5, <2>1, ChartMoves, MotionsLeft
<1>6. CASE LoseState
  BY <1>6, OutsideMoves, MotionsLeft DEF run
<1>7. CASE Change
  BY <1>7, OutsideMoves, MotionsLeft DEF run
<1>8. CASE UNCHANGED vars
  BY <1>8, MotionsLeft DEF vars, local, remote, run
<1> QED BY <1>1, <1>2, <1>3, <1>4, <1>5, <1>6, <1>7, <1>8, Steps
-----------------------------------------------------------------------------
(* The charts. *)

\* Charts and state stay between when new metadata is read.
LEMMA ChartsLeft ==
  ASSUME Basic, Basic', ChartsKept,
         meta'.ver = meta.ver \/ meta'.ver = world.ver,
         cstate' = cstate \/ cstate' = None,
         charts' = charts, work'.charts \in {work.charts, EmptyWork.charts},
         pc' \notin {"render", "charts-upload"}
  PROVE  ChartsKept'
<1> SUFFICES ASSUME NEW c \in Scores
    PROVE  /\ ChartBetween(work.charts[c], c)'
           /\ \A t \in ChartStorages : ChartBetween(charts[t][c], c)'
           /\ cstate' # None /\ cstate'[c] # None =>
                cstate'[c] <= meta'.ver[c] /\ \A t \in ChartStorages : charts[t][c] # None
  BY DEF ChartsKept
<1>1. /\ meta.ver[c] \in Versions /\ world.ver[c] \in Versions /\ meta.ver[c] <= world.ver[c]
      /\ work.charts[c] \in Versions \cup {None}
      /\ cstate # None => cstate[c] \in Versions \cup {None}
      /\ \A t \in ChartStorages : charts[t][c] \in Versions \cup {None}
  BY DEF Basic, Typed, Worlds, Behind, AllBundles
<1>2. \A v \in Versions : v \in Int
  BY DEF Versions
<1>3. /\ ChartBetween(work.charts[c], c)
      /\ \A t \in ChartStorages : ChartBetween(charts[t][c], c)
      /\ cstate # None /\ cstate[c] # None =>
           cstate[c] <= meta.ver[c] /\ \A t \in ChartStorages : charts[t][c] # None
  BY DEF ChartsKept
<1>4. meta.ver[c] <= meta'.ver[c]
  BY <1>1, <1>2
<1>5. ASSUME NEW v \in Versions \cup {None}, ChartBetween(v, c)
      PROVE  v # None => /\ v <= meta'.ver[c]
                         /\ cstate' # None /\ cstate'[c] # None => cstate'[c] <= v
  BY <1>1, <1>2, <1>5 DEF ChartBetween
<1>6. work'.charts[c] \in {work.charts[c], None}
  BY DEF EmptyWork
<1>7. ChartBetween(work.charts[c], c)'
  BY <1>1, <1>3, <1>5, <1>6 DEF ChartBetween
<1>8. \A t \in ChartStorages : ChartBetween(charts[t][c], c)'
  BY <1>1, <1>3, <1>5 DEF ChartBetween
<1> QED BY <1>1, <1>2, <1>3, <1>4, <1>7, <1>8

\* Rendered, then on every storage, then recorded; never the other way round.
LEMMA ChartsKeptOn ==
  ASSUME Basic, Basic', [Next]_vars, ChartsKept PROVE ChartsKept'
<1> USE DEF Basic
<1>0. \A c \in Scores : /\ meta.ver[c] \in Versions /\ meta.ver[c] # None
                        /\ meta.ver[c] <= meta.ver[c]
  BY PostprocessAssumption DEF Typed, Worlds, Versions, AllBundles
<1>1. CASE Quiet
  <2>1. meta'.ver = meta.ver /\ charts' = charts /\ cstate' = cstate /\ work' = work
    <3>1. CASE meta' = [meta EXCEPT !.archive = world.archive]
      BY <1>1, <3>1, QuietLeaves DEF Typed, Worlds
    <3> QED BY <1>1, <3>1, QuietLeaves
  <2>2. CASE pc' = "render"
    <3>1. todo' \subseteq Scores
      BY <1>1, <2>2, QuietMoves DEF Leaves, PendingScores
    <3> QED BY <2>1, <2>2, <3>1 DEF ChartsKept, ChartBetween
  <2>3. CASE pc' # "render"
    <3>1. pc' # "charts-upload"
      BY <1>1, QuietMoves DEF Leaves
    <3> QED BY <2>1, <2>3, <3>1, ChartsLeft
  <2> QED BY <2>2, <2>3
<1>2. CASE Rebuilding
  <2>1. /\ meta' = meta \/ meta' = world
        /\ charts' = charts /\ cstate' = cstate /\ pc' \notin {"render", "charts-upload"}
    BY <1>2, RebuildingMoves
  <2> QED BY <1>2, <2>1, RebuildingFields, ChartsLeft
<1>3. CASE LegacySteps
  <2>1. pc' \notin {"render", "charts-upload"}
    BY <1>3, LegacyMoves DEF Leaves
  <2> QED BY <1>3, <2>1, LegacyMoves, ChartsLeft
<1>4. CASE AssocSteps
  BY <1>4, AssocMoves, ChartsLeft
<1>5. CASE ChartSteps
  <2>0. meta' = meta
    BY <1>5, ChartMoves
  <2>1. CASE pc = "render"
    <3>1. cstate' = cstate /\ charts' = charts
      BY <1>5, <2>1, ChartMoves
    <3>2. PICK part \in SUBSET (todo \cap world.musics) :
            /\ work' = RenderedCharts(part)
            /\ Leaves \/ (todo' = part /\ targets' = SetToSeq(ChartStorages))
      BY <1>5, <2>1, ChartMoves
    <3>3. todo \subseteq Scores
      BY <2>1 DEF ChartsKept
    <3>4. \A c \in Scores : work'.charts[c] = IF c \in part THEN meta.ver[c] ELSE work.charts[c]
      <4> DEFINE m == [c \in Scores |-> IF c \in part THEN meta.ver[c] ELSE work.charts[c]]
      <4>1. work' = [work EXCEPT !.charts = m]
        BY <3>2 DEF RenderedCharts
      <4>2. work'.charts = m
        <5> HIDE DEF m
        <5> QED BY <4>1 DEF Shaped
      <4> QED BY <4>2
    <3>5. \A c \in Scores : ChartBetween(work'.charts[c], c)
      BY <1>0, <3>4 DEF ChartBetween, ChartsKept
    <3>6. pc' = "charts-upload" => todo' = part /\ Range(targets') = ChartStorages
      BY <3>2, PostprocessAssumption, SeqOfSet DEF Leaves
    <3>7. pc' = "render" => FALSE
      BY <1>5, <2>1, ChartMoves DEF Leaves
    <3>8. \A c \in Scores : ChartBetween(work.charts[c], c)'
      BY <2>0, <3>1, <3>5 DEF ChartBetween
    <3>9. \A c \in Scores : \A t \in ChartStorages : ChartBetween(charts[t][c], c)'
      BY <2>0, <3>1 DEF ChartBetween, ChartsKept
    <3> QED BY <2>0, <3>1, <3>3, <3>4, <3>6, <3>7, <3>8, <3>9 DEF ChartsKept
  <2>2. CASE pc = "charts-upload" /\ targets # <<>>
    <3>1. cstate' = cstate /\ work' = work
      BY <1>5, <2>2, ChartMoves
    <3>2. PICK part \in SUBSET Scores :
            /\ charts' = ChartsCopied(Head(targets), part)
            /\ Leaves \/ (part = Scores /\ pc' = pc /\ todo' = todo /\ targets' = Tail(targets))
      BY <1>5, <2>2, ChartMoves
    <3>3. targets \in Seq(ChartStorages) /\ Head(targets) \in ChartStorages
      BY <2>2 DEF Queued
    <3>4. \A t \in ChartStorages, c \in Scores :
            charts'[t][c] = IF t = Head(targets) /\ c \in part /\ work.charts[c] # None
                            THEN work.charts[c] ELSE charts[t][c]
      BY <3>2, <3>3 DEF ChartsCopied, Typed
    <3>5. \A c \in Scores : \A t \in ChartStorages : ChartBetween(charts[t][c], c)'
      BY <2>0, <3>1, <3>4 DEF ChartBetween, ChartsKept
    <3>6. \A c \in Scores : ChartBetween(work.charts[c], c)'
      BY <2>0, <3>1 DEF ChartBetween, ChartsKept
    <3>7. \A c \in Scores : cstate' # None /\ cstate'[c] # None =>
            cstate'[c] <= meta'.ver[c] /\ \A t \in ChartStorages : charts'[t][c] # None
      BY <2>0, <3>1, <3>4 DEF ChartsKept
    <3>8. CASE Leaves
      BY <3>5, <3>6, <3>7, <3>8 DEF ChartsKept, Leaves
    <3>9. CASE part = Scores /\ pc' = pc /\ todo' = todo /\ targets' = Tail(targets)
      <4>1. todo \subseteq Scores /\ \A c \in todo : work.charts[c] = meta.ver[c]
        BY <2>2 DEF ChartsKept
      <4>2. ASSUME NEW c \in todo, NEW t \in ChartStorages \ Range(targets')
            PROVE  charts'[t][c] = meta.ver[c]
        <5>1. t # Head(targets) => t \notin Range(targets)
          BY <2>2, <3>3, <3>9, <4>2, ServedAtHead
        <5>2. t # Head(targets) => charts[t][c] = meta.ver[c]
          BY <2>2, <5>1 DEF ChartsKept
        <5> QED BY <1>0, <3>4, <3>9, <4>1, <5>2
      <4> QED BY <2>0, <2>2, <3>1, <3>5, <3>6, <3>7, <3>9, <4>1, <4>2 DEF ChartsKept
    <3> QED BY <3>2, <3>8, <3>9
  <2>3. CASE pc = "charts-upload" /\ targets = <<>>
    <3>1. /\ Leaves /\ charts' = charts /\ work' = work
          /\ cstate' = [c \in Scores |-> IF c \in todo THEN meta.ver[c]
                                 ELSE IF cstate = None THEN None ELSE cstate[c]]
      BY <1>5, <2>3, ChartMoves
    <3>2. todo \subseteq Scores /\ \A c \in todo :
            /\ work.charts[c] = meta.ver[c]
            /\ \A t \in ChartStorages : charts[t][c] = meta.ver[c]
      BY <2>3 DEF ChartsKept, Range
    <3>3. \A c \in Scores : cstate'[c] = IF c \in todo THEN meta.ver[c]
                                 ELSE IF cstate = None THEN None ELSE cstate[c]
      BY <3>1
    <3>4. \A c \in Scores : ChartBetween(work.charts[c], c)'
      BY <1>0, <2>0, <3>1, <3>2, <3>3 DEF ChartBetween, ChartsKept
    <3>5. \A c \in Scores : \A t \in ChartStorages : ChartBetween(charts[t][c], c)'
      BY <1>0, <2>0, <3>1, <3>2, <3>3 DEF ChartBetween, ChartsKept
    <3>6. \A c \in Scores : cstate' # None /\ cstate'[c] # None =>
            cstate'[c] <= meta'.ver[c] /\ \A t \in ChartStorages : charts'[t][c] # None
      BY <1>0, <2>0, <3>1, <3>2, <3>3 DEF ChartsKept
    <3> QED BY <3>1, <3>4, <3>5, <3>6 DEF ChartsKept, Leaves
  <2> QED BY <1>5, <2>1, <2>2, <2>3, ChartMoves
<1>6. CASE LoseState
  <2>1. pc' = "idle"
    BY <1>6, OutsideMoves DEF run
  <2> QED BY <1>6, <2>1, OutsideMoves, ChartsLeft DEF run
<1>7. CASE Change
  BY <1>7, OutsideMoves DEF run, ChartsKept, ChartBetween
<1>8. CASE UNCHANGED vars
  BY <1>8 DEF vars, env, local, remote, run, ChartsKept, ChartBetween
<1> QED BY <1>1, <1>2, <1>3, <1>4, <1>5, <1>6, <1>7, <1>8, Steps
-----------------------------------------------------------------------------
(* Skipping. *)

\* What lies between a current state and the present is current.
LEMMA Skipping ==
  ASSUME Basic, MocsNeverReturn => MotionsKept, ChartsKept PROVE SkipIsSound
<1> USE DEF Basic
<1>0. \A v \in Versions : v \in Int
  BY DEF Versions
<1>1. ASSUME MocsNeverReturn, mstate # None,
             mstate.fp = Fingerprint([b \in ModelBundles |-> world.ver[b]]),
             \A s \in MotionBundles : mstate.motions[s] = world.ver[s],
             NEW t \in LegacyStorages, NEW s \in MotionBundles
      PROVE  legacy[t].motions[s] = RestoredAs(s, world, mstate.fp)
  <2> DEFINE r == legacy[t].motions[s]
  <2>1. r # None /\ Between(r, s)
    BY <1>1 DEF MotionsKept
  <2> HIDE DEF r
  <2>2. r.ver = meta.ver[s] /\ meta.ver[s] = world.ver[s] /\ meta.layout[s] = world.layout[s]
    <3>1. /\ r.ver \in Versions /\ meta.ver[s] \in Versions /\ world.ver[s] \in Versions
          /\ world.ver[s] <= r.ver /\ r.ver <= meta.ver[s] /\ meta.ver[s] <= world.ver[s]
      BY <1>1, <2>1 DEF Between, Typed, Worlds, Behind, AllBundles, Live2DBundles
    <3>2. r.ver = meta.ver[s] /\ meta.ver[s] = world.ver[s]
      BY <1>0, <3>1
    <3> QED BY <3>2 DEF Behind, Live2DBundles
  <2>3. r.at = MotionPath(s, world.layout)
    <3>1. MotionPath(s, meta.layout) = MotionPath(s, world.layout)
      BY <2>2, PathIsLocal
    <3> QED BY <2>1, <2>2, <3>1 DEF Between
  <2>4. r.params = mstate.fp
    <3> DEFINE W == Fingerprint([b \in ModelBundles |-> world.ver[b]])
    <3>1. NoLater(mstate.fp, r.params) /\ NoLater(r.params, NowPrint)
          /\ OnModels(mstate.fp) /\ OnModels(r.params)
      BY <1>1, <2>1 DEF Between, MotionsKept, Recent
    <3>2. NoLater(NowPrint, W)
      <4>1. \A b \in ModelBundles :
              /\ meta.ver[b] \in Versions /\ world.ver[b] \in Versions
              /\ meta.ver[b] <= world.ver[b] /\ [c \in ModelBundles |-> world.ver[c]][b] = world.ver[b]
        BY DEF Typed, Worlds, Behind, AllBundles, Live2DBundles
      <4>2. \A b \in ModelBundles :
              /\ meta.ver[b] \in Versions /\ [c \in ModelBundles |-> world.ver[c]][b] \in Versions
              /\ meta.ver[b] <= [c \in ModelBundles |-> world.ver[c]][b]
        BY <4>1
      <4> QED BY <4>2, OlderPrint DEF NowPrint
    <3>3. NoLater(r.params, W) /\ mstate.fp = W
      BY <1>1, <3>1, <3>2, NoLaterTrans
    <3> HIDE DEF W
    <3> QED BY <1>1, <3>1, <3>3, NoLaterBoth
  <2>5. r = [ver |-> r.ver, at |-> r.at, params |-> r.params]
    BY <2>1 DEF Between, MotionShape
  <2> QED BY <2>2, <2>3, <2>4, <2>5 DEF r, RestoredAs
<1>2. ASSUME NEW c \in Scores, cstate # None, cstate[c] = world.ver[c], NEW t \in ChartStorages
      PROVE  charts[t][c] = world.ver[c]
  <2>1. /\ cstate[c] # None /\ world.ver[c] \in Versions /\ meta.ver[c] \in Versions
        /\ meta.ver[c] <= world.ver[c] /\ charts[t][c] \in Versions \cup {None}
    BY <1>2, PostprocessAssumption DEF Typed, Worlds, Versions, Behind, AllBundles
  <2>2. /\ charts[t][c] # None /\ cstate[c] <= charts[t][c] /\ charts[t][c] <= meta.ver[c]
    BY <1>2, <2>1 DEF ChartsKept, ChartBetween
  <2> QED BY <1>0, <1>2, <2>1, <2>2
<1> QED BY <1>1, <1>2 DEF SkipIsSound
-----------------------------------------------------------------------------
(* The index and its list. *)

\* What a function takes a finite set to is finite.
LEMMA ImageFinite ==
  ASSUME NEW S, IsFiniteSet(S), NEW f, f = [x \in S |-> f[x]]
  PROVE  IsFiniteSet({f[x] : x \in S})
<1> DEFINE T == {f[x] : x \in S}
<1>1. f \in Surjection(S, T)
  BY DEF Surjection
<1> QED BY <1>1, FS_Surjection

\* The elements of a sequence can be counted.
LEMMA RangeFinite ==
  ASSUME NEW S, NEW q \in Seq(S) PROVE IsFiniteSet(Range(q))
<1>1. IsFiniteSet(1..Len(q))
  BY FS_Interval
<1>2. q = [i \in 1..Len(q) |-> q[i]]
  OBVIOUS
<1>3. IsFiniteSet({q[i] : i \in 1..Len(q)})
  BY <1>1, <1>2, ImageFinite
<1>4. Range(q) = {q[i] : i \in 1..Len(q)}
  BY DEF Range
<1> QED BY <1>3, <1>4

Dir(b, p, a) == [bundle |-> b, part |-> p, at |-> a]

\* The directories of an index, one by one.
LEMMA DirectoriesOf ==
  ASSUME NEW idx
  PROVE  /\ \A r \in idx.outputs :
              Dir(r.bundle.name, "model", r.root) \in ViewerAssetDirectories(idx)
         /\ \A s \in MotionBundles : \A p \in {"motion", "facial"} :
              Dir(s, p, idx.sets[s].path) \in ViewerAssetDirectories(idx)
         /\ \A x \in ViewerAssetDirectories(idx) :
              \/ \E r \in idx.outputs : x = Dir(r.bundle.name, "model", r.root)
              \/ \E s \in MotionBundles : \E p \in {"motion", "facial"} :
                   x = Dir(s, p, idx.sets[s].path)
<1> DEFINE models == {[bundle |-> r.bundle.name, part |-> "model", at |-> r.root] : r \in idx.outputs}
           motions == {[bundle |-> s, part |-> p, at |-> idx.sets[s].path]
                         : s \in MotionBundles, p \in {"motion", "facial"}}
<1>0. ViewerAssetDirectories(idx) = models \cup motions
  BY DEF ViewerAssetDirectories
<1>1. ASSUME NEW r \in idx.outputs
      PROVE  Dir(r.bundle.name, "model", r.root) \in ViewerAssetDirectories(idx)
  <2>1. Dir(r.bundle.name, "model", r.root) \in models
    BY DEF Dir
  <2> HIDE DEF models, motions
  <2> QED BY <1>0, <2>1
<1>2. ASSUME NEW s \in MotionBundles, NEW p \in {"motion", "facial"}
      PROVE  Dir(s, p, idx.sets[s].path) \in ViewerAssetDirectories(idx)
  <2>1. Dir(s, p, idx.sets[s].path) \in motions
    BY DEF Dir
  <2> HIDE DEF models, motions
  <2> QED BY <1>0, <2>1
<1>3. ASSUME NEW x \in ViewerAssetDirectories(idx)
      PROVE  \/ \E r \in idx.outputs : x = Dir(r.bundle.name, "model", r.root)
             \/ \E s \in MotionBundles : \E p \in {"motion", "facial"} :
                  x = Dir(s, p, idx.sets[s].path)
  <2>1. x \in models => \E r \in idx.outputs : x = Dir(r.bundle.name, "model", r.root)
    BY DEF Dir
  <2>2. x \in motions => \E s \in MotionBundles : \E p \in {"motion", "facial"} :
                           x = Dir(s, p, idx.sets[s].path)
    BY DEF Dir
  <2> QED BY <1>0, <2>1, <2>2
<1> HIDE DEF models, motions
<1> QED BY <1>1, <1>2, <1>3

\* An index has finitely many directories.
LEMMA DirectoriesFinite ==
  ASSUME NEW layout \in Layouts, NEW archive, NEW clips, NEW ver
  PROVE  IsFiniteSet(ViewerAssetDirectories(BuildAssociationIndex(layout, archive, clips, ver)))
<1> DEFINE idx == BuildAssociationIndex(layout, archive, clips, ver)
           F == [b \in ModelBundles |-> {Dir(b, "model", a) : a \in Range(layout[b])}]
           G == {F[b] : b \in ModelBundles}
           M == [s \in MotionBundles |-> Dir(s, "motion", MotionPath(s, layout))]
           N == [s \in MotionBundles |-> Dir(s, "facial", MotionPath(s, layout))]
<1>1. \A b \in ModelBundles : IsFiniteSet(Range(layout[b]))
  <2> SUFFICES ASSUME NEW b \in ModelBundles PROVE IsFiniteSet(Range(layout[b]))
    OBVIOUS
  <2>1. layout[b] \in Seq(Seq(STRING))
    BY PostprocessAssumption DEF Live2DBundles
  <2> QED BY <2>1, RangeFinite
<1>2. \A b \in ModelBundles : IsFiniteSet(F[b])
  <2> SUFFICES ASSUME NEW b \in ModelBundles PROVE IsFiniteSet(F[b])
    OBVIOUS
  <2> DEFINE R == Range(layout[b])
             f == [a \in R |-> Dir(b, "model", a)]
  <2>1. IsFiniteSet(R)
    BY <1>1
  <2> HIDE DEF R
  <2>2. IsFiniteSet({f[a] : a \in R})
    <3>1. f = [a \in R |-> f[a]]
      OBVIOUS
    <3> HIDE DEF f
    <3> QED BY <2>1, <3>1, ImageFinite
  <2>3. {f[a] : a \in R} = {Dir(b, "model", a) : a \in R}
    OBVIOUS
  <2>4. F[b] = {Dir(b, "model", a) : a \in R}
    BY DEF R
  <2> QED BY <2>2, <2>3, <2>4
<1>3. IsFiniteSet(ModelBundles) /\ IsFiniteSet(MotionBundles)
  BY PostprocessAssumption
<1>4. IsFiniteSet(UNION G)
  <2>1. F = [b \in ModelBundles |-> F[b]]
    OBVIOUS
  <2> HIDE DEF F
  <2>2. IsFiniteSet(G)
    BY <1>3, <2>1, ImageFinite
  <2> QED BY <1>2, <2>2, FS_UNION
<1>5. IsFiniteSet({M[s] : s \in MotionBundles}) /\ IsFiniteSet({N[s] : s \in MotionBundles})
  <2>1. M = [s \in MotionBundles |-> M[s]] /\ N = [s \in MotionBundles |-> N[s]]
    OBVIOUS
  <2> HIDE DEF M, N
  <2> QED BY <1>3, <2>1, ImageFinite
<1> DEFINE A == {M[s] : s \in MotionBundles}
           B == {N[s] : s \in MotionBundles}
           U == UNION G
<1>6. ViewerAssetDirectories(idx) \subseteq (U \cup A) \cup B
  <2>1. /\ idx.outputs = ModelOutputs(layout, ver)
        /\ idx.sets = SharedMotionSets(layout, clips, ver)
    BY DEF BuildAssociationIndex, BuildIndex
  <2>2. ASSUME NEW r \in idx.outputs PROVE Dir(r.bundle.name, "model", r.root) \in U
    <3>1. PICK b \in ModelBundles : \E p \in ModelRoots(b, layout), d \in Docs[b] :
            r = ModelOutputRecord(b, p, d, ver)
      BY <2>1 DEF ModelOutputs
    <3>2. PICK p \in ModelRoots(b, layout), d \in Docs[b] : r = ModelOutputRecord(b, p, d, ver)
      BY <3>1
    <3>3. r.bundle.name = b /\ r.root = p /\ p \in Range(layout[b])
      BY <3>2 DEF ModelOutputRecord, BundleIdentity, ModelRoots
    <3>4. Dir(b, "model", p) \in F[b]
      BY <3>3
    <3> QED BY <3>3, <3>4
  <2>3. ASSUME NEW s \in MotionBundles, NEW p \in {"motion", "facial"}
        PROVE  Dir(s, p, idx.sets[s].path) \in A \cup B
    <3>1. idx.sets[s].path = MotionPath(s, layout)
      BY <2>1 DEF SharedMotionSets, SharedMotionSetRecord
    <3>2. M[s] = Dir(s, "motion", MotionPath(s, layout)) /\ N[s] = Dir(s, "facial", MotionPath(s, layout))
      OBVIOUS
    <3>3. M[s] \in A /\ N[s] \in B
      OBVIOUS
    <3>4. CASE p = "motion"
      BY <3>1, <3>2, <3>3, <3>4
    <3>5. CASE p = "facial"
      BY <3>1, <3>2, <3>3, <3>5
    <3> QED BY <3>4, <3>5
  <2> HIDE DEF U, A, B, idx
  <2> QED BY <2>2, <2>3, DirectoriesOf
<1>7. IsFiniteSet((U \cup A) \cup B)
  <2> HIDE DEF U, A, B
  <2>1. IsFiniteSet(U) /\ IsFiniteSet(A) /\ IsFiniteSet(B)
    BY <1>4, <1>5 DEF U, A, B
  <2> QED BY <2>1, FS_Union
<1> HIDE DEF U, A, B
<1> QED BY <1>6, <1>7, FS_Subset

\* The entries of the list and their motion sets, as the index has them.
LEMMA EntryOf ==
  ASSUME NEW layout, NEW archive, NEW clips, NEW ver, NEW idx,
         idx = BuildAssociationIndex(layout, archive, clips, ver),
         NEW e \in ViewerCatalog(idx)
  PROVE  \E b \in ModelBundles :
           /\ e.bundle = b /\ e.char = Character(b, Snapshot(archive))
           /\ \E r \in idx.outputs :
                /\ r.bundle.name = b /\ e.root = r.root /\ e.doc = r.doc /\ r.doc \in Docs[b]
           /\ \A m \in e.sets :
                /\ m.set \in MotionBundles
                /\ m.path = idx.sets[m.set].path /\ m.clips = idx.sets[m.set].clips
                /\ GroupOf(b, m.set, Snapshot(archive)) # {}
                /\ CandidateIsExact(m.set, GroupOf(b, m.set, Snapshot(archive)))
<1> DEFINE tables == Snapshot(archive)
<1>1. /\ idx.outputs = ModelOutputs(layout, ver)
      /\ idx.models = [b \in ModelBundles |-> Live2DModelAssociation(b, tables, ver)]
  BY DEF BuildAssociationIndex, BuildIndex
<1>2. PICK r \in idx.outputs :
        e = [bundle |-> r.bundle.name, root |-> r.root, doc |-> r.doc,
             char |-> idx.models[r.bundle.name].char,
             sets |-> {[set |-> c.set, path |-> idx.sets[c.set].path,
                        clips |-> idx.sets[c.set].clips]
                : c \in {x \in idx.models[r.bundle.name].candidates :
                           x.status = "derived"}}]
  BY DEF ViewerCatalog
<1>3. PICK b \in ModelBundles : \E p \in ModelRoots(b, layout), d \in Docs[b] :
        r = ModelOutputRecord(b, p, d, ver)
  BY <1>1 DEF ModelOutputs
<1>4. r.bundle.name = b /\ r.doc \in Docs[b]
  BY <1>3 DEF ModelOutputRecord, BundleIdentity
<1>5. /\ idx.models[b].candidates = Candidates(b, tables, ver)
      /\ idx.models[b].char = Character(b, tables)
  BY <1>1 DEF Live2DModelAssociation
<1>6. ASSUME NEW m \in e.sets
      PROVE  /\ m.set \in MotionBundles
             /\ m.path = idx.sets[m.set].path /\ m.clips = idx.sets[m.set].clips
             /\ GroupOf(b, m.set, tables) # {}
             /\ CandidateIsExact(m.set, GroupOf(b, m.set, tables))
  <2>1. PICK c \in Candidates(b, tables, ver) :
          c.status = "derived" /\ m = [set |-> c.set, path |-> idx.sets[c.set].path,
                                       clips |-> idx.sets[c.set].clips]
    BY <1>2, <1>4, <1>5
  <2>2. PICK s \in {t \in MotionBundles : GroupOf(b, t, tables) # {}} :
          c = MotionSetCandidate(s, GroupOf(b, s, tables), ver)
    BY <2>1 DEF Candidates
  <2>3. c.set = s /\ CandidateIsExact(s, GroupOf(b, s, tables))
    BY <2>1, <2>2 DEF MotionSetCandidate
  <2> QED BY <2>1, <2>2, <2>3
<1>7. e.bundle = b /\ e.root = r.root /\ e.doc = r.doc /\ e.char = Character(b, tables)
  BY <1>2, <1>4, <1>5
<1> QED BY <1>4, <1>6, <1>7

\* Every file an entry names is in one of the directories.
LEMMA IndexCovers ==
  ASSUME NEW layout, NEW archive, NEW clips, NEW ver
  PROVE  Covered(BuildAssociationIndex(layout, archive, clips, ver))
<1> DEFINE idx == BuildAssociationIndex(layout, archive, clips, ver)
<1> SUFFICES ASSUME NEW e \in ViewerCatalog(idx), NEW f \in NamedFiles(e)
             PROVE  \E d \in ViewerAssetDirectories(idx) : f \in DirectoryFiles(idx, d)
  BY DEF Covered
<1>1. PICK b \in ModelBundles :
           /\ e.bundle = b
           /\ \E r \in idx.outputs :
                /\ r.bundle.name = b /\ e.root = r.root /\ e.doc = r.doc /\ r.doc \in Docs[b]
           /\ \A m \in e.sets :
                /\ m.set \in MotionBundles
                /\ m.path = idx.sets[m.set].path /\ m.clips = idx.sets[m.set].clips
  BY EntryOf
<1> HIDE DEF idx
<1>2. CASE f = [dir |-> Dir(e.bundle, "model", e.root), name |-> e.doc]
  <2>1. PICK r \in idx.outputs :
          r.bundle.name = b /\ e.root = r.root /\ e.doc = r.doc /\ r.doc \in Docs[b]
    BY <1>1
  <2> DEFINE d == Dir(b, "model", r.root)
  <2>2. d \in ViewerAssetDirectories(idx)
    <3>1. Dir(r.bundle.name, "model", r.root) \in ViewerAssetDirectories(idx)
      BY <2>1, DirectoriesOf
    <3> QED BY <2>1, <3>1
  <2>3. f \in DirectoryFiles(idx, d)
    BY <1>1, <1>2, <2>1 DEF DirectoryFiles, Dir
  <2> QED BY <2>2, <2>3
<1>3. ASSUME NEW m \in e.sets, NEW p \in {"motion", "facial"}, NEW c \in m.clips[p],
             f = [dir |-> Dir(m.set, p, m.path), name |-> c]
      PROVE  \E d \in ViewerAssetDirectories(idx) : f \in DirectoryFiles(idx, d)
  <2> DEFINE d == Dir(m.set, p, idx.sets[m.set].path)
  <2>1. d \in ViewerAssetDirectories(idx)
    <3>1. m.set \in MotionBundles
      BY <1>1
    <3> QED BY <3>1, DirectoriesOf
  <2>2. d.part # "model" /\ d.bundle = m.set /\ d.part = p
    BY DEF Dir
  <2>3. f = [dir |-> d, name |-> c] /\ c \in idx.sets[m.set].clips[p]
    BY <1>1, <1>3
  <2> HIDE DEF d
  <2>4. f \in DirectoryFiles(idx, d)
    BY <2>2, <2>3 DEF DirectoryFiles
  <2> QED BY <2>1, <2>4
<1>4. \/ f = [dir |-> Dir(e.bundle, "model", e.root), name |-> e.doc]
      \/ \E m \in e.sets, p \in {"motion", "facial"} : \E c \in m.clips[p] :
           f = [dir |-> Dir(m.set, p, m.path), name |-> c]
  BY DEF NamedFiles, Dir
<1> QED BY <1>2, <1>3, <1>4
-----------------------------------------------------------------------------
(* The joins and the names. *)

\* A set with one element is that element.
LEMMA OneElement ==
  ASSUME NEW S, IsFiniteSet(S), Cardinality(S) = 1, NEW x \in S
  PROVE  S = {x}
BY FS_Singleton

\* A context that is exact gives the model its character.
LEMMA ExactContext ==
  ASSUME NEW archive \in Archives, NEW b \in ModelBundles,
         NEW c \in Contexts(b, Snapshot(archive)), c.exact
  PROVE  /\ c.char = Character(b, Snapshot(archive)) /\ c.char # None
         /\ c.row \in archive.character2ds /\ c.row.asset # None
<1> DEFINE tables == Snapshot(archive)
           ids == CostumeIds(b, tables)
<1>1. c \in JoinedContexts(b, tables)
  <2>1. c \notin FallbackContexts(b, tables)
    BY DEF FallbackContexts
  <2> QED BY <2>1 DEF Contexts
<1>2. PICK id \in ids : \E row \in {r \in Joined(id, tables) : r.asset # None} :
        c = [row |-> row, c2d |-> id, char |-> row.char,
             exact |-> /\ CanAssociate(b, tables)
                       /\ Cardinality(Joined(id, tables)) = 1
                       /\ row.char # None,
             ambiguous |-> JoinAmbiguous(b, tables)]
  BY <1>1 DEF JoinedContexts
<1>3. PICK row \in Joined(id, tables) :
        /\ row.asset # None /\ c.row = row /\ c.char = row.char /\ row.char # None
        /\ CanAssociate(b, tables) /\ Cardinality(Joined(id, tables)) = 1
  BY <1>2
<1>4. /\ tables.costume2ds = {NormalizedCostume(r) : r \in archive.costume2ds}
      /\ tables.character2ds = archive.character2ds
  BY PostprocessAssumption DEF Snapshot
<1>5. IsFiniteSet(tables.costume2ds)
  <2> DEFINE R == archive.costume2ds
             f == [r \in R |-> NormalizedCostume(r)]
  <2>1. IsFiniteSet(R)
    BY PostprocessAssumption
  <2>2. IsFiniteSet({f[r] : r \in R})
    <3>1. f = [r \in R |-> f[r]]
      OBVIOUS
    <3> HIDE DEF f, R
    <3> QED BY <2>1, <3>1, ImageFinite
  <2>3. {f[r] : r \in R} = {NormalizedCostume(r) : r \in R}
    OBVIOUS
  <2> QED BY <1>4, <2>2, <2>3
<1>6. IsFiniteSet(ids)
  <2> DEFINE C == Costumes(b, tables)
             f == [r \in C |-> r.c2d]
  <2>1. IsFiniteSet(C)
    BY <1>5, FS_Subset DEF Costumes
  <2>2. IsFiniteSet({f[r] : r \in C})
    <3>1. f = [r \in C |-> f[r]]
      OBVIOUS
    <3> HIDE DEF f, C
    <3> QED BY <2>1, <3>1, ImageFinite
  <2>3. ids \subseteq {f[r] : r \in C}
    BY DEF CostumeIds
  <2> QED BY <2>2, <2>3, FS_Subset
<1>7. ids = {id}
  BY <1>3, <1>6, OneElement DEF CanAssociate
<1>8. Character2d(b, tables) = id
  BY <1>3, <1>7 DEF Character2d
<1>9. IsFiniteSet(Joined(id, tables))
  BY <1>4, PostprocessAssumption, FS_Subset DEF Joined
<1>10. Joined(id, tables) = {row}
  BY <1>3, <1>9, OneElement
<1>11. Character(b, tables) = row.char
  BY <1>3, <1>8, <1>10 DEF Character
<1> QED BY <1>3, <1>4, <1>11 DEF Joined

\* The words of a prefix, and those after it, are all the words.
LEMMA WordsOf ==
  ASSUME NEW w \in Seq(STRING), NEW p \in Seq(STRING), IsStrictPrefix(p, w)
  PROVE  /\ \A i \in 1..Len(p) : p[i] = w[i]
         /\ Len(p) <= Len(w)
         /\ Range(w) \subseteq Range(p) \cup Range(AfterPrefix(w, p))
<1>1. Len(p) <= Len(w) /\ SubSeq(p, 1, Len(p)) = SubSeq(w, 1, Len(p))
  BY DEF IsStrictPrefix, IsPrefix
<1>2. \A i \in 1..Len(p) : SubSeq(p, 1, Len(p))[i] = p[i] /\ SubSeq(w, 1, Len(p))[i] = w[i]
  BY <1>1
<1>3. \A i \in 1..Len(p) : p[i] = w[i]
  BY <1>1, <1>2
<1>4. ASSUME NEW i \in 1..Len(w) PROVE w[i] \in Range(p) \cup Range(AfterPrefix(w, p))
  <2>1. CASE i <= Len(p)
    BY <1>3, <2>1 DEF Range
  <2>2. CASE i > Len(p)
    <3> DEFINE t == SubSeq(w, Len(p) + 1, Len(w))
    <3>1. /\ i - Len(p) \in 1..Len(t) /\ DOMAIN t = 1..Len(t) /\ t[i - Len(p)] = w[i]
      BY <1>1, <2>2
    <3>2. w[i] \in Range(t)
      BY <3>1 DEF Range
    <3> QED BY <3>2 DEF AfterPrefix
  <2> QED BY <2>1, <2>2
<1> QED BY <1>1, <1>3, <1>4 DEF Range

\* The words of a name that ends in motion_base are those before and these two.
LEMMA WordsOfStem ==
  ASSUME NEW w \in Seq(STRING), EndsMotionBase(w)
  PROVE  /\ SubSeq(w, 1, Len(w) - 2) \in Seq(STRING)
         /\ Range(w) \subseteq Range(SubSeq(w, 1, Len(w) - 2)) \cup {"motion", "base"}
<1> DEFINE s == SubSeq(w, 1, Len(w) - 2)
           e == SubSeq(w, Len(w) - 1, Len(w))
<1>1. Len(w) >= 2 /\ e = <<"motion", "base">>
  BY DEF EndsMotionBase, Tail2, MotionBase
<1>0. Len(w) \in Nat /\ Len(w) - 2 \in Nat
  BY <1>1
<1>2. s \in Seq(STRING) /\ Len(s) = Len(w) - 2 /\ \A i \in 1..(Len(w) - 2) : s[i] = w[i]
  <2> DEFINE n == Len(w) - 2
  <2>1. n \in Nat /\ n <= Len(w)
    BY <1>0
  <2> HIDE DEF n
  <2>2. SubSeq(w, 1, n) \in Seq(STRING) /\ Len(SubSeq(w, 1, n)) = n
        /\ \A i \in 1..n : SubSeq(w, 1, n)[i] = w[i]
    BY <1>0, <2>1
  <2> QED BY <2>2 DEF n
<1>3. w[Len(w) - 1] = "motion" /\ w[Len(w)] = "base"
  <2>1. e[1] = w[Len(w) - 1] /\ e[2] = w[Len(w)]
    BY <1>1
  <2> HIDE DEF e
  <2> QED BY <1>1, <2>1
<1>4. ASSUME NEW i \in 1..Len(w) PROVE w[i] \in Range(s) \cup {"motion", "base"}
  <2>1. CASE i <= Len(w) - 2
    BY <1>2, <2>1 DEF Range
  <2>2. CASE i = Len(w) - 1 \/ i = Len(w)
    BY <1>3, <2>2
  <2> QED BY <1>0, <2>1, <2>2
<1> QED BY <1>2, <1>4 DEF Range

\* A motion bundle that matches an asset as its normal motion has no words but
\* the asset's own and motion_base.
LEMMA NormalWords ==
  ASSUME NEW leaf \in AssetNames, NEW asset \in AssetNames,
         MotionRest(leaf, asset) = MotionBase
  PROVE  Range(leaf.words) \subseteq Range(asset.words) \cup {"motion", "base"}
<1> DEFINE candidate == IF leaf.v2 /\ ~asset.v2 THEN V2Tail(leaf) ELSE leaf
<1>1. leaf.words \in Seq(STRING) /\ asset.words \in Seq(STRING)
  BY DEF AssetNames
<1>2. V2Tail(leaf).words = leaf.words
  BY DEF V2Tail, AssetNames
<1>3. candidate.words = leaf.words
  BY <1>2
<1>4. Range(MotionBase) = {"motion", "base"}
  BY DEF MotionBase, Range
<1>5. CASE StartsWith(candidate, asset)
  <2>1. AfterPrefix(leaf.words, asset.words) = MotionBase
    BY <1>3, <1>5 DEF MotionRest
  <2>2. IsStrictPrefix(asset.words, leaf.words)
    BY <1>3, <1>5 DEF StartsWith
  <2>3. Range(leaf.words) \subseteq Range(asset.words) \cup Range(AfterPrefix(leaf.words, asset.words))
    BY <1>1, <2>2, WordsOf
  <2> QED BY <1>4, <2>1, <2>3
<1>6. CASE ~StartsWith(candidate, asset)
  <2> DEFINE words == SubSeq(leaf.words, 1, Len(leaf.words) - 2)
             stem == [leaf EXCEPT !.words = words]
  <2>1. PICK x \in CanonicalStems(leaf) : StartsWith(asset, x)
    <3>1. <<>> # MotionBase
      BY DEF MotionBase
    <3> QED BY <1>6, <3>1 DEF MotionRest
  <2>2. EndsMotionBase(leaf.words) /\ x \in {V2Tail(stem), stem}
    BY <2>1 DEF CanonicalStems
  <2>3. x.words = words
    <3>1. stem = [v2 |-> leaf.v2, num |-> leaf.num, words |-> words]
      <4> HIDE DEF words
      <4> QED BY DEF AssetNames
    <3> HIDE DEF stem, words
    <3>2. V2Tail(stem).words = words
      BY <3>1 DEF V2Tail
    <3>3. stem.words = words
      BY <3>1
    <3> QED BY <2>2, <3>2, <3>3 DEF stem
  <2>4. /\ words \in Seq(STRING)
        /\ Range(leaf.words) \subseteq Range(words) \cup {"motion", "base"}
    BY <1>1, <2>2, WordsOfStem
  <2>5. IsStrictPrefix(words, asset.words)
    BY <2>1, <2>3 DEF StartsWith
  <2> HIDE DEF words
  <2>6. Range(words) \subseteq Range(asset.words)
    <3>1. Len(words) <= Len(asset.words) /\ \A i \in 1..Len(words) : words[i] = asset.words[i]
      BY <1>1, <2>4, <2>5, WordsOf
    <3>2. ASSUME NEW i \in DOMAIN words PROVE words[i] \in Range(asset.words)
      <4>1. i \in 1..Len(words) /\ i \in DOMAIN asset.words
        BY <1>1, <2>4, <3>1
      <4> QED BY <3>1, <4>1 DEF Range
    <3> QED BY <3>2 DEF Range
  <2> QED BY <2>4, <2>6
<1> QED BY <1>5, <1>6

\* The entries of a list are sound.
LEMMA EntriesSound ==
  ASSUME NEW layout, NEW archive \in Archives, NEW clips, NEW ver
  PROVE  \A e \in ViewerCatalog(BuildAssociationIndex(layout, archive, clips, ver)) : SoundEntry(e)
<1> DEFINE idx == BuildAssociationIndex(layout, archive, clips, ver)
           tables == Snapshot(archive)
<1> SUFFICES ASSUME NEW e \in ViewerCatalog(idx), NEW m \in e.sets
    PROVE  /\ NameOf[m.set].num # None /\ e.char # None => e.char = NameOf[m.set].num
           /\ NoProtectedAssets => Unprotected(NameOf[m.set])
           /\ e.char # None
  BY DEF SoundEntry
<1>1. PICK b \in ModelBundles :
        /\ e.char = Character(b, tables)
        /\ m.set \in MotionBundles
        /\ GroupOf(b, m.set, tables) # {}
        /\ CandidateIsExact(m.set, GroupOf(b, m.set, tables))
  BY EntryOf
<1> DEFINE s == m.set
           leaf == NameOf[s]
<1>2. PICK c \in Contexts(b, tables) : MatchKind(s, c) = "normal" /\ c.exact
  BY <1>1 DEF GroupOf, CandidateIsExact
<1>3. /\ c.char = e.char /\ c.char # None
      /\ c.row \in archive.character2ds /\ c.row.asset # None
  BY <1>1, <1>2, ExactContext
<1>4. leaf.num = None \/ leaf.num = c.char
  BY <1>2, <1>3 DEF MatchKind
<1>5. MotionRest(leaf, c.row.asset) = MotionBase
  BY <1>2 DEF MatchKind, VariantKind
<1>6. ASSUME NoProtectedAssets PROVE Unprotected(leaf)
  <2>1. leaf \in AssetNames /\ c.row.asset \in AssetNames
    BY <1>1, <1>3, PostprocessAssumption DEF Live2DBundles
  <2>2. Range(leaf.words) \subseteq Range(c.row.asset.words) \cup {"motion", "base"}
    BY <1>5, <2>1, NormalWords
  <2>3. Unprotected(c.row.asset)
    BY <1>3, <1>6 DEF NoProtectedAssets
  <2> QED BY <2>2, <2>3 DEF Unprotected
<1> QED BY <1>3, <1>4, <1>6
-----------------------------------------------------------------------------
(* The projection. *)

\* A directory is not the list, and its parts are the three kinds of files.
LEMMA PartsOf ==
  ASSUME NEW idx, NEW d \in ViewerAssetDirectories(idx)
  PROVE  d.part \in {"model", "motion", "facial"} /\ d # ListMark
<1>1. d.part \in {"model", "motion", "facial"}
  BY DirectoriesOf DEF Dir
<1> QED BY <1>1 DEF ListMark

\* The order of uploads: every directory, then the list.
LEMMA OrderOfUploads ==
  ASSUME NEW idx, IsFiniteSet(ViewerAssetDirectories(idx)),
         NEW q, q = UploadOrder(idx)
  PROVE  /\ q \in Seq(ViewerAssetDirectories(idx) \cup {ListMark}) /\ q # <<>>
         /\ \A i \in 1 .. Len(q) : q[i] = ListMark <=> i = Len(q)
         /\ ViewerAssetDirectories(idx) \subseteq Range(q)
<1> DEFINE V == ViewerAssetDirectories(idx)
           a == SetToSeq(V)
<1>1. a \in Seq(V) /\ Range(a) = V
  BY SeqOfSet
<1>2. \A d \in V : d # ListMark
  BY PartsOf
<1>3. q = a \o <<ListMark>>
  BY DEF UploadOrder, ListMark
<1> HIDE DEF a, V, ListMark
<1>4. /\ q \in Seq(V \cup {ListMark}) /\ Len(q) = Len(a) + 1 /\ Len(a) \in Nat
      /\ \A i \in 1..Len(a) : q[i] = a[i] /\ a[i] \in V
      /\ q[Len(a) + 1] = ListMark
  <2>1. a \in Seq(V \cup {ListMark}) /\ <<ListMark>> \in Seq(V \cup {ListMark})
    BY <1>1
  <2>2. Len(q) = Len(a) + 1 /\ Len(a) \in Nat
    BY <1>1, <1>3
  <2>3. q[Len(a) + 1] = ListMark
    BY <1>1, <1>3
  <2>4. \A i \in 1..Len(a) : q[i] = a[i] /\ a[i] \in V
    BY <1>1, <1>3
  <2> QED BY <1>3, <2>1, <2>2, <2>3, <2>4
<1>5. ASSUME NEW d \in V PROVE d \in Range(q)
  <2>1. PICK i \in 1..Len(a) : a[i] = d
    BY <1>1 DEF Range
  <2>2. q[i] = d /\ i \in DOMAIN q
    BY <1>4, <2>1
  <2> QED BY <2>2 DEF Range
<1>6. \A i \in 1 .. Len(q) : q[i] = ListMark <=> i = Len(q)
  BY <1>2, <1>4
<1>7. q # <<>>
  BY <1>4
<1> QED BY <1>4, <1>5, <1>6, <1>7 DEF V

\* What is published is an index of what the run knows.
LEMMA IndexBuiltKept ==
  ASSUME Basic, [Next]_vars, IndexBuilt PROVE IndexBuilt'
<1> USE DEF Basic
<1>a. (pc' = "assoc-upload" => GoodIndex(index')) => IndexBuilt'
  BY DEF IndexBuilt, GoodIndex, Covered, SoundEntry
<1>b. index' = index /\ pc' = pc => IndexBuilt'
  BY <1>a DEF IndexBuilt
<1>1. CASE Quiet
  <2>1. CASE pc' = "assoc-upload"
    <3>1. index' = NewIndex
      BY <1>1, <2>1, QuietMoves DEF Leaves
    <3>2. meta.layout \in Layouts /\ MasterData \in Archives
      BY DEF Typed, Worlds, MasterData
    <3>3. GoodIndex(NewIndex)
      BY <3>2, DirectoriesFinite, IndexCovers, EntriesSound DEF NewIndex, GoodIndex
    <3> QED BY <1>a, <3>1, <3>3
  <2> QED BY <1>a, <2>1
<1>2. CASE Rebuilding
  <2>1. pc' # "assoc-upload"
    BY <1>2, RebuildingMoves
  <2> QED BY <1>a, <2>1
<1>3. CASE LegacySteps
  <2>1. pc' # "assoc-upload"
    BY <1>3, LegacyMoves DEF Leaves
  <2> QED BY <1>a, <2>1
<1>4. CASE AssocSteps
  BY <1>4, <1>b, AssocMoves
<1>5. CASE ChartSteps
  <2>1. pc' # "assoc-upload"
    BY <1>5, ChartMoves DEF Leaves
  <2> QED BY <1>a, <2>1
<1>6. CASE LoseState
  BY <1>6, <1>b, OutsideMoves DEF run
<1>7. CASE Change
  BY <1>7, <1>b, OutsideMoves DEF run
<1>8. CASE UNCHANGED vars
  BY <1>8, <1>b DEF vars, run
<1> QED BY <1>1, <1>2, <1>3, <1>4, <1>5, <1>6, <1>7, <1>8, Steps

\* Of the uploads to a storage, what is not to come is there.
LEMMA UploadingKept ==
  ASSUME Basic, [Next]_vars, IndexBuilt, Uploading PROVE Uploading'
<1> USE DEF Basic
<1>a. pc' # "assoc-upload" => Uploading'
  BY DEF Uploading
<1>b. UNCHANGED <<pc, targets, uploads, index, assoc>> => Uploading'
  BY DEF Uploading
<1>c. ASSUME NEW idx, index' = idx, uploads' = UploadOrder(idx), GoodIndex(idx) PROVE Uploading'
  <2>1. IsFiniteSet(ViewerAssetDirectories(idx))
    BY <1>c DEF GoodIndex
  <2>2. /\ uploads' \in Seq(ViewerAssetDirectories(index') \cup {ListMark}) /\ uploads' # <<>>
        /\ \A i \in 1 .. Len(uploads') : uploads'[i] = ListMark <=> i = Len(uploads')
        /\ ViewerAssetDirectories(index') \subseteq Range(uploads')
    BY <1>c, <2>1, OrderOfUploads
  <2> QED BY <2>2 DEF Uploading
<1>1. CASE Quiet
  <2>1. CASE pc' = "assoc-upload"
    <3>1. index' = NewIndex /\ uploads' = UploadOrder(NewIndex)
      BY <1>1, <2>1, QuietMoves DEF Leaves
    <3>2. meta.layout \in Layouts /\ MasterData \in Archives
      BY DEF Typed, Worlds, MasterData
    <3>3. GoodIndex(NewIndex)
      BY <3>2, DirectoriesFinite, IndexCovers, EntriesSound DEF NewIndex, GoodIndex
    <3> QED BY <1>c, <3>1, <3>3
  <2> QED BY <1>a, <2>1
<1>2. CASE Rebuilding
  <2>1. pc' # "assoc-upload"
    BY <1>2, RebuildingMoves
  <2> QED BY <1>a, <2>1
<1>3. CASE LegacySteps
  <2>1. pc' # "assoc-upload"
    BY <1>3, LegacyMoves DEF Leaves
  <2> QED BY <1>a, <2>1
<1>4. CASE AssocSteps
  <2>1. PICK part \in SUBSET FilesOf(Head(uploads)) :
          /\ assoc' = Copied(Head(targets), Head(uploads), part)
          /\ \/ NextTarget
             \/ /\ part = FilesOf(Head(uploads)) /\ Len(uploads) > 1
                /\ uploads' = Tail(uploads) /\ targets' = targets
    BY <1>4, AssocMoves
  <2>2. /\ index' = index /\ targets # <<>> /\ targets \in Seq(Storages) /\ pc = "assoc-upload"
    BY <1>4, AssocMoves DEF Queued
  <2>5. /\ Head(targets) \in Storages
        /\ Head(uploads).part # "list" =>
             assoc'[Head(targets)].files = assoc[Head(targets)].files \cup part
    <3>1. assoc' = Copied(Head(targets), Head(uploads), part)
      BY <2>1
    <3>2. Head(targets) \in Storages
      BY <2>2
    <3>3. ASSUME NEW u \in Storages, u = Head(targets), Head(uploads).part # "list"
          PROVE  assoc'[u].files = assoc[u].files \cup part
      BY <3>1, <3>3, AssocFields
    <3> QED BY <3>2, <3>3
  <2>3. CASE NextTarget
    <3>1. CASE targets' = <<>>
      BY <3>1 DEF Uploading
    <3>2. CASE targets' # <<>>
      <4>1. targets' = Tail(targets) /\ Len(targets) > 1
        BY <2>2, <2>3, <3>2 DEF NextTarget
      <4>2. uploads' = UploadOrder(index)
        BY <2>3, <4>1 DEF NextTarget
      <4> QED BY <1>c, <2>2, <4>2 DEF IndexBuilt
    <3> QED BY <3>1, <3>2
  <2>4. CASE /\ part = FilesOf(Head(uploads)) /\ Len(uploads) > 1
             /\ uploads' = Tail(uploads) /\ targets' = targets
    <3> DEFINE V == ViewerAssetDirectories(index)
    <3>1. /\ uploads \in Seq(V \cup {ListMark})
          /\ \A i \in 1 .. Len(uploads) : uploads[i] = ListMark <=> i = Len(uploads)
          /\ \A d \in V : \/ d \in Range(uploads)
                          \/ DirectoryFiles(index, d) \subseteq assoc[Head(targets)].files
      BY <2>2 DEF Uploading
    <3>2. Head(uploads) \in V
      <4>1. Head(uploads) = uploads[1] /\ 1 \in 1..Len(uploads) /\ 1 # Len(uploads)
        BY <2>4, <3>1
      <4>2. uploads[1] # ListMark
        BY <3>1, <4>1
      <4>3. uploads[1] \in V \cup {ListMark}
        <5> DEFINE W == V \cup {ListMark}
        <5>1. uploads \in Seq(W)
          BY <3>1
        <5> HIDE DEF W
        <5>2. uploads[1] \in W
          BY <4>1, <5>1
        <5> QED BY <5>2 DEF W
      <4> QED BY <4>1, <4>2, <4>3
    <3>3. part = DirectoryFiles(index, Head(uploads)) /\ Head(uploads).part # "list"
      BY <2>4, <3>2, PartsOf DEF FilesOf
    <3> HIDE DEF V
    <3>4. /\ Head(targets) \in Storages
          /\ assoc'[Head(targets)].files = assoc[Head(targets)].files \cup part
      BY <2>5, <3>3
    <3>5. Range(uploads) = {Head(uploads)} \cup Range(Tail(uploads))
      BY <2>4, <3>1, ServedAtHead
    <3>6. \A d \in V : \/ d \in Range(uploads')
                       \/ DirectoryFiles(index, d) \subseteq assoc'[Head(targets)].files
      BY <2>4, <3>1, <3>3, <3>4, <3>5
    <3>7. /\ uploads' \in Seq(V \cup {ListMark}) /\ uploads' # <<>>
          /\ \A i \in 1 .. Len(uploads') : uploads'[i] = ListMark <=> i = Len(uploads')
      <4> DEFINE W == V \cup {ListMark}
      <4>1. uploads \in Seq(W) /\ Len(uploads) > 1 /\ uploads' = Tail(uploads)
        BY <2>4, <3>1
      <4> HIDE DEF W
      <4>2. /\ Len(uploads) \in Nat /\ Len(uploads') = Len(uploads) - 1
            /\ uploads' \in Seq(W) /\ uploads' # <<>>
        BY <4>1
      <4>3. \A i \in 1..(Len(uploads) - 1) : uploads'[i] = uploads[i + 1]
        BY <4>1
      <4>4. \A i \in 1..Len(uploads') : uploads'[i] = ListMark <=> i + 1 = Len(uploads)
        BY <3>1, <4>2, <4>3
      <4> QED BY <4>2, <4>4 DEF W
    <3> QED BY <2>2, <2>4, <3>6, <3>7 DEF Uploading, V
  <2> QED BY <2>1, <2>3, <2>4
<1>5. CASE ChartSteps
  <2>1. pc' # "assoc-upload"
    BY <1>5, ChartMoves DEF Leaves
  <2> QED BY <1>a, <2>1
<1>6. CASE LoseState
  BY <1>6, <1>b, OutsideMoves DEF run
<1>7. CASE Change
  BY <1>7, <1>b, OutsideMoves DEF run
<1>8. CASE UNCHANGED vars
  BY <1>8, <1>b DEF vars, remote, run
<1> QED BY <1>1, <1>2, <1>3, <1>4, <1>5, <1>6, <1>7, <1>8, Steps

\* What a step makes of the files and the list of a storage.
LEMMA PublishedStep ==
  ASSUME Basic, [Next]_vars, NEW t \in Storages
  PROVE  \/ assoc'[t].files = assoc[t].files /\ assoc'[t].list = assoc[t].list
         \/ /\ pc = "assoc-upload" /\ targets # <<>> /\ t = Head(targets)
            /\ assoc[t].files \subseteq assoc'[t].files
            /\ \/ assoc'[t].list = assoc[t].list
               \/ Head(uploads).part = "list" /\ assoc'[t].list = ViewerCatalog(index)
<1>1. CASE AssocSteps
  <2>1. PICK part \in SUBSET FilesOf(Head(uploads)) :
          assoc' = Copied(Head(targets), Head(uploads), part)
    BY <1>1, AssocMoves
  <2>2. pc = "assoc-upload" /\ targets # <<>> /\ Head(targets) \in Storages
    BY <1>1, AssocMoves DEF Basic, Queued
  <2>3. CASE t # Head(targets)
    BY <2>1, <2>2, <2>3, AssocFields DEF Basic
  <2>4. CASE t = Head(targets)
    <3>1. Shaped /\ assoc' = Copied(t, Head(uploads), part)
      BY <2>1, <2>4 DEF Basic
    <3>2. CASE Head(uploads).part = "list"
      <4>1. /\ assoc'[t].files = assoc[t].files
            /\ assoc'[t].list \in {assoc[t].list, ViewerCatalog(index)}
        BY <3>1, <3>2, AssocFields
      <4> QED BY <2>2, <2>4, <3>2, <4>1
    <3>3. CASE Head(uploads).part # "list"
      <4>1. assoc'[t].files = assoc[t].files \cup part /\ assoc'[t].list = assoc[t].list
        BY <3>1, <3>3, AssocFields
      <4> QED BY <2>2, <2>4, <4>1
    <3> QED BY <3>2, <3>3
  <2> QED BY <2>3, <2>4
<1>2. CASE ~AssocSteps
  <2>1. assoc' = assoc
    <3>1. CASE Quiet \/ Rebuilding
      BY <3>1, QuietLeaves, RebuildingMoves
    <3>2. CASE LegacySteps \/ ChartSteps
      BY <3>2, LegacyMoves, ChartMoves
    <3>3. CASE LoseState \/ Change
      BY <3>3, OutsideMoves
    <3>4. CASE UNCHANGED vars
      BY <3>4 DEF vars, remote
    <3> QED BY <1>2, <3>1, <3>2, <3>3, <3>4, Steps
  <2> QED BY <2>1
<1> QED BY <1>1, <1>2

\* When the list goes up, every file it names is there.
LEMMA ListedKept ==
  ASSUME Basic, [Next]_vars, IndexBuilt, Uploading, ListedAssetsPresent
  PROVE  ListedAssetsPresent'
<1> SUFFICES ASSUME NEW t \in Storages, NEW e \in assoc'[t].list, NEW f \in NamedFiles(e)
             PROVE  f \in assoc'[t].files
  BY DEF ListedAssetsPresent
<1>1. CASE e \in assoc[t].list /\ assoc[t].files \subseteq assoc'[t].files
  BY <1>1 DEF ListedAssetsPresent
<1>2. CASE /\ pc = "assoc-upload" /\ targets # <<>> /\ t = Head(targets)
           /\ assoc[t].files \subseteq assoc'[t].files
           /\ Head(uploads).part = "list" /\ e \in ViewerCatalog(index)
  <2>1. PICK d \in ViewerAssetDirectories(index) : f \in DirectoryFiles(index, d)
    BY <1>2 DEF IndexBuilt, GoodIndex, Covered
  <2>2. /\ uploads \in Seq(ViewerAssetDirectories(index) \cup {ListMark}) /\ uploads # <<>>
        /\ \A i \in 1 .. Len(uploads) : uploads[i] = ListMark <=> i = Len(uploads)
        /\ \/ d \in Range(uploads)
           \/ DirectoryFiles(index, d) \subseteq assoc[t].files
    BY <1>2, <2>1 DEF Uploading
  <2>3. Head(uploads) = uploads[1] /\ 1 \in 1..Len(uploads) /\ Head(uploads) \in Range(uploads)
        /\ uploads[1] \in ViewerAssetDirectories(index) \cup {ListMark}
        /\ Len(uploads) \in Nat /\ Range(uploads) = {uploads[i] : i \in 1..Len(uploads)}
    BY <2>2 DEF Range
  <2>4. Head(uploads) = ListMark
    <3>1. Head(uploads) \notin ViewerAssetDirectories(index)
      BY <1>2, PartsOf
    <3> QED BY <2>3, <3>1
  <2>5. Len(uploads) = 1
    BY <2>2, <2>3, <2>4
  <2>6. Range(uploads) = {ListMark}
    BY <2>3, <2>4, <2>5
  <2>7. d # ListMark
    BY PartsOf
  <2> QED BY <1>2, <2>1, <2>2, <2>6, <2>7
<1> QED BY <1>1, <1>2, PublishedStep

\* A list is that of an index the run built.
LEMMA SoundKept ==
  ASSUME Basic, [Next]_vars, IndexBuilt, CatalogSound PROVE CatalogSound'
<1>1. ASSUME NEW t \in Storages, NEW e \in assoc'[t].list PROVE SoundEntry(e)
  <2>1. e \in assoc[t].list \/ (pc = "assoc-upload" /\ e \in ViewerCatalog(index))
    BY <1>1, PublishedStep
  <2>2. e \in assoc[t].list => SoundEntry(e)
    BY DEF CatalogSound, SoundEntry
  <2> QED BY <2>1, <2>2 DEF IndexBuilt, GoodIndex
<1> QED BY <1>1 DEF CatalogSound, SoundEntry
-----------------------------------------------------------------------------
(* The invariant and what it shows. *)

PInv ==
  /\ Basic /\ LegacyDone /\ (MocsNeverReturn => MotionsKept) /\ ChartsKept
  /\ IndexBuilt /\ Uploading /\ ListedAssetsPresent /\ CatalogSound

\* Before the first run there are no outputs, and nothing has been published.
LEMMA Initially ==
  ASSUME Init PROVE PInv
<1> USE DEF Init
<1>0. /\ 0 \in Versions /\ MaxVersion \in Nat /\ None \notin Versions
      /\ \A b \in AllBundles : world.ver[b] = 0
  <2>1. MaxVersion \in Nat /\ None \notin Nat
    BY PostprocessAssumption
  <2> QED BY <2>1 DEF Versions
<1>1. Shaped
  <2>1. /\ work = [models |-> work.models, motions |-> work.motions,
                   charts |-> work.charts, backups |-> work.backups]
        /\ OnMotions(work.motions)
    BY DEF EmptyWork, OnMotions
  <2>2. LegacyShaped(legacy)
    BY DEF EmptyWork, LegacyShaped, OnMotions
  <2>3. AssocShaped(assoc)
    BY DEF AssocShaped
  <2> QED BY <2>1, <2>2, <2>3 DEF Shaped
<1>2. Staged
  BY DEF Staged, Pcs, Recovering, Associating, Publishing
<1>3. Typed
  <2>1. world \in Worlds /\ meta \in Worlds
    <3>1. [b \in AllBundles |-> 0] \in [AllBundles -> Versions]
      BY <1>0
    <3> QED BY <3>1 DEF Worlds
  <2>2. changes \in 0..MaxChanges /\ faults \in 0..MaxFaults
    BY PostprocessAssumption
  <2>3. /\ work.models \in [ModelBundles -> Versions \cup {None}]
        /\ work.charts \in [Scores -> Versions \cup {None}]
        /\ work.backups \in Nat
    BY DEF EmptyWork
  <2>4. charts \in [ChartStorages -> [Scores -> Versions \cup {None}]]
    BY DEF EmptyWork
  <2> QED BY <2>1, <2>2, <2>3, <2>4 DEF Typed
<1>4. Queued
  BY DEF Queued, Publishing
<1>5. Behind
  <2>1. \A b \in AllBundles : meta.ver[b] <= world.ver[b]
    BY <1>0
  <2>2. \A b \in ModelBundles : work.models[b] = None
    BY DEF EmptyWork
  <2> QED BY <2>1, <2>2 DEF Behind
<1>6. LegacyDone
  BY DEF LegacyDone, Publishing
<1>7. MotionsKept
  BY DEF MotionsKept, EmptyWork
<1>8. ChartsKept
  BY DEF ChartsKept, ChartBetween, EmptyWork
<1>9. IndexBuilt /\ Uploading
  BY DEF IndexBuilt, Uploading
<1>10. ListedAssetsPresent /\ CatalogSound
  BY DEF ListedAssetsPresent, CatalogSound
<1> QED BY <1>1, <1>2, <1>3, <1>4, <1>5, <1>6, <1>7, <1>8, <1>9, <1>10 DEF PInv, Basic

\* Every step keeps it.
LEMMA Kept ==
  ASSUME PInv, [Next]_vars PROVE PInv'
<1> USE DEF PInv
<1>1. Basic'
  BY ShapedKept, StagedKept, TypedKept, QueuedKept, BehindKept DEF Basic
<1>2. LegacyDone'
  BY LegacyDoneKept
<1>3. MocsNeverReturn => MotionsKept'
  BY <1>1, MotionsKeptOn
<1>4. (MocsNeverReturn => MotionsKept)'
  BY <1>3 DEF MocsNeverReturn
<1>5. ChartsKept'
  BY <1>1, ChartsKeptOn
<1>6. IndexBuilt' /\ Uploading'
  BY IndexBuiltKept, UploadingKept
<1>7. ListedAssetsPresent' /\ CatalogSound'
  BY ListedKept, SoundKept
<1> QED BY <1>1, <1>2, <1>4, <1>5, <1>6, <1>7

\* What the run remembers, what it left on disk and what the storages hold
\* agree at every moment, whatever fails and whenever the process dies.
THEOREM PostprocessInvariance == Spec => []PInv
<1>1. Init => PInv
  BY Initially
<1>2. PInv /\ [Next]_vars => PInv'
  BY Kept
<1> QED BY <1>1, <1>2, PTL DEF Spec

\* The run's bookkeeping and the stores have the shape the code gives them.
THEOREM PostprocessTypes == Spec => []TypeOK
<1>1. PInv => TypeOK
  BY DEF PInv, Basic, Typed, Worlds, Versions, TypeOK
<1> QED BY <1>1, PostprocessInvariance, PTL

\* A run that finds nothing pending skips nothing: every storage of the type
\* holds the current motions and charts.
THEOREM SkipsSound == Spec => []SkipIsSound
<1>1. PInv => SkipIsSound
  BY Skipping DEF PInv
<1> QED BY <1>1, PostprocessInvariance, PTL

\* Whatever upload stopped half way, a list names only files that are there.
THEOREM ListsPresent == Spec => []ListedAssetsPresent
<1>1. PInv => ListedAssetsPresent
  BY DEF PInv
<1> QED BY <1>1, PostprocessInvariance, PTL

\* No published list lends a character's motions to another.
THEOREM CatalogsSound == Spec => []CatalogSound
<1>1. PInv => CatalogSound
  BY DEF PInv
<1> QED BY <1>1, PostprocessInvariance, PTL
=============================================================================
