------------------------- MODULE Live2DAssociation -------------------------
(***************************************************************************)
(* The pure rules of the associated Live2D pipeline: when the master data  *)
(* can be used (master_data), which model and motion directories the       *)
(* bundle metadata selects (automatic_selections), how the tables join a   *)
(* model to a character and the names join it to motion sets               *)
(* (association), when the resulting index is valid and publishable        *)
(* (contracts, rollout), and the public list made from it                  *)
(* (viewer_catalog).  Postprocess runs them over a changing world.         *)
(*                                                                         *)
(* A bundle or asset name is a record: "v2_21miku_motion_base" is          *)
(* [v2 |-> TRUE, num |-> 21, words |-> <<"miku", "motion", "base">>].      *)
(* Left out: characters no path may have, letter case, symbolic links, the *)
(* audit evidence, literally repeated rows, names made of digits only.     *)
(***************************************************************************)
EXTENDS Naturals, FiniteSets, SequencesExt

CONSTANTS
  ModelBundles,     \* bundles under live2d/model/
  MotionBundles,    \* bundles under live2d/motion/
  NameOf,           \* [bundle -> name], the last component of bundleName
  Alias,            \* [motion bundle -> that component as metadata spells it]
  Docs,             \* [model bundle -> the model3 files under its root]
  None              \* an absent value: a missing field, no digits in a name

Live2DBundles == ModelBundles \cup MotionBundles

ASSUME KindsDisjoint == ModelBundles \cap MotionBundles = {}

----------------------------------------------------------------------------
(* Names. *)

MotionBase == <<"motion", "base">>
Tail2(words) == SubSeq(words, Len(words) - 1, Len(words))
EndsMotionBase(words) == Len(words) >= 2 /\ Tail2(words) = MotionBase
AfterPrefix(words, prefix) == SubSeq(words, Len(prefix) + 1, Len(words))

\* name.startswith(f"{stem}_")
StartsWith(name, stem) ==
  /\ name.v2 = stem.v2 /\ name.num = stem.num
  /\ IsStrictPrefix(stem.words, name.words)

\* The part of a v2 name after "v2_" and its digits.
V2Tail(name) == [name EXCEPT !.v2 = FALSE, !.num = None]

BlackOf(asset) == [asset EXCEPT !.words[Len(asset.words)] = @ \o "black"]

ModelVariantMatches(leaf, asset) ==
  \/ leaf = asset \/ StartsWith(leaf, asset) \/ leaf = BlackOf(asset)
  \/ /\ ~asset.v2 /\ leaf.v2 /\ leaf.num # None
     /\ StartsWith(V2Tail(leaf), asset)

\* The stems under which an asset name may name a normal motion bundle.
CanonicalStems(leaf) ==
  LET words == SubSeq(leaf.words, 1, Len(leaf.words) - 2)
      stem == [leaf EXCEPT !.words = words]
  IN IF ~EndsMotionBase(leaf.words) THEN {}
     ELSE IF leaf.v2
          THEN IF Len(words) = 1 THEN {V2Tail(stem), stem} ELSE {}
          ELSE IF leaf.num # None
               THEN IF Len(words) = 1 THEN {stem} ELSE {}
               ELSE IF Len(words) = 2 /\ words[1] = "sub" THEN {stem} ELSE {}

\* What is left of the motion's name after the asset name: the name begins
\* with the asset name, or the asset name begins with one of its stems.
MotionRest(leaf, asset) ==
  LET candidate == IF leaf.v2 /\ ~asset.v2 THEN V2Tail(leaf) ELSE leaf
  IN IF StartsWith(candidate, asset)
     THEN AfterPrefix(candidate.words, asset.words)
     ELSE IF \E stem \in CanonicalStems(leaf) : StartsWith(asset, stem)
          THEN MotionBase ELSE <<>>

VariantKind(rest) ==
  IF rest = MotionBase THEN "normal"
  ELSE IF ~EndsMotionBase(rest) THEN "none"
  ELSE IF {"back", "still"} \cap Range(rest) # {} THEN "protected"
  ELSE "variant"

\* Mutant: the bundle's character number is not compared.
Mut_NumberIgnored(s, context) ==
  LET rest == MotionRest(NameOf[s], context.row.asset)
  IN IF rest = <<>> THEN "none" ELSE VariantKind(rest)

\* How motion bundle s relates to a character context.
MatchKind(s, context) ==
  LET leaf == NameOf[s]
      rest == MotionRest(leaf, context.row.asset)
  IN IF (leaf.v2 /\ leaf.num = None) \/ rest = <<>> THEN "none"
     ELSE IF leaf.num # None /\ context.char # None /\ leaf.num # context.char
          THEN IF context.exact THEN "mismatch" ELSE "none"
          ELSE VariantKind(rest)

----------------------------------------------------------------------------
(* The master data.  archive.roots counts the directories with all six      *)
(* tables, readable says each is a JSON array; malformed says a row has a   *)
(* value that is no plain scalar, and such rows are not among the others.   *)

\* One directory has the tables: with two it is not clear which.
Located(archive) == archive.roots = 1

\* A costume row may spell its asset name in two columns that must agree.
Conflicting(row) ==
  row.asset # None /\ row.live2dAsset # None /\ row.asset # row.live2dAsset

Loadable(archive) ==
  archive.readable /\ \A row \in archive.costume2ds : ~Conflicting(row)

NormalizedCostume(row) ==
  [asset |-> IF row.live2dAsset = None THEN row.asset ELSE row.live2dAsset,
   c2d |-> row.c2d]

Snapshot(archive) ==
  [archive EXCEPT !.costume2ds = {NormalizedCostume(row) : row \in @}]

\* Rows of the four tables of role uses name a character, motion and facial.
TableErrors(tables) ==
  \/ tables.malformed
  \/ \E row \in tables.roles : None \in {row.char, row.motion, row.expression}

----------------------------------------------------------------------------
(* The joins: costume2ds.character2dId -> character2ds.id.                  *)

\* The snapshot keeps no bundle name, the other column the code looks at.
Costumes(b, tables) == {row \in tables.costume2ds : row.asset = NameOf[b]}

CostumeIds(b, tables) == {row.c2d : row \in Costumes(b, tables)} \ {None}

Joined(id, tables) == {row \in tables.character2ds : row.id = id}

\* Exactly one costume row, with an id: only then does the model get ids.
CanAssociate(b, tables) ==
  /\ Cardinality(Costumes(b, tables)) = 1
  /\ Cardinality(CostumeIds(b, tables)) = 1

JoinAmbiguous(b, tables) ==
  \/ Cardinality(Costumes(b, tables)) > 1
  \/ \E id \in CostumeIds(b, tables) : Cardinality(Joined(id, tables)) > 1

JoinedContexts(b, tables) ==
  UNION {{[row |-> row, c2d |-> id, char |-> row.char,
           exact |-> /\ CanAssociate(b, tables)
                     /\ Cardinality(Joined(id, tables)) = 1
                     /\ row.char # None,
           ambiguous |-> JoinAmbiguous(b, tables)]
             : row \in {r \in Joined(id, tables) : r.asset # None}}
           : id \in CostumeIds(b, tables)}

\* Names alone: candidates for an audit, never the model's ids.
FallbackContexts(b, tables) ==
  {[row |-> row, c2d |-> row.id, char |-> row.char, exact |-> FALSE,
    ambiguous |-> JoinAmbiguous(b, tables)]
      : row \in {r \in tables.character2ds :
                   r.asset # None /\ ModelVariantMatches(NameOf[b], r.asset)}}

Contexts(b, tables) ==
  LET joined == JoinedContexts(b, tables)
  IN IF joined = {} \/ JoinAmbiguous(b, tables) \/ Costumes(b, tables) = {}
     THEN joined \cup FallbackContexts(b, tables) ELSE joined

Character2d(b, tables) ==
  IF CanAssociate(b, tables) THEN CHOOSE id \in CostumeIds(b, tables) : TRUE
  ELSE None

Character(b, tables) ==
  LET rows == Joined(Character2d(b, tables), tables)
  IN IF CanAssociate(b, tables) /\ Cardinality(rows) = 1
     THEN (CHOOSE row \in rows : TRUE).char ELSE None

\* The diagnostics of severity "error" a model's joins leave.
JoinErrors(b, tables) ==
  \/ Cardinality(Costumes(b, tables)) # 1
  \/ \E row \in Costumes(b, tables) : row.c2d = None
  \/ \E id \in CostumeIds(b, tables) :
       \/ Cardinality(Joined(id, tables)) # 1
       \/ \E row \in Joined(id, tables) : row.char = None

----------------------------------------------------------------------------
(* The candidates. *)

GroupOf(b, s, tables) ==
  {c \in Contexts(b, tables) : MatchKind(s, c) \notin {"none", "mismatch"}}

CandidateIsExact(s, group) ==
  /\ \A c \in group : MatchKind(s, c) = "normal"
  /\ Cardinality(group) = 1
  /\ \A c \in group : c.exact /\ ~c.ambiguous

\* A bundle's name and content checksum.
BundleIdentity(b, ver) == [name |-> b, checksum |-> ver[b]]

MotionSetCandidate(s, group, ver) ==
  [set |-> s, bundle |-> BundleIdentity(s, ver),
   status |-> IF CandidateIsExact(s, group) THEN "derived" ELSE "ambiguous"]

Candidates(b, tables, ver) ==
  {MotionSetCandidate(s, GroupOf(b, s, tables), ver)
     : s \in {t \in MotionBundles : GroupOf(b, t, tables) # {}}}

Live2DModelAssociation(b, tables, ver) ==
  [bundle |-> BundleIdentity(b, ver), candidates |-> Candidates(b, tables, ver),
   char |-> Character(b, tables), c2d |-> Character2d(b, tables)]

----------------------------------------------------------------------------
(* The directories the metadata selects.  layout[b] is the bundle's "paths" *)
(* under the live2d roots, each a sequence of components.                   *)

\* Shallow roots: a path below another one is suppressed.
ModelRoots(b, layout) ==
  {p \in Range(layout[b]) :
     \A q \in Range(layout[b]) : ~IsStrictPrefix(q, p)}

RootAliases(b, layout) == {p \in Range(layout[b]) : Last(p) = Alias[b]}
Versioned(b, layout) == RootAliases(b, layout) \ {<<Alias[b]>>}

\* The versioned path where there is one, the root alias otherwise, the
\* first path when neither is listed.
MotionPath(b, layout) ==
  IF RootAliases(b, layout) = {} THEN Head(layout[b])
  ELSE IF Versioned(b, layout) = {} THEN <<Alias[b]>>
  ELSE CHOOSE p \in Versioned(b, layout) : TRUE

Overlaps(p, q) == IsPrefix(p, q) \/ IsPrefix(q, p)

\* Discovery refuses missing paths, ambiguous versioned paths and outputs
\* of two bundles that collide or nest.
Discoverable(layout) ==
  /\ \A b \in Live2DBundles : layout[b] # <<>>
  /\ \A s \in MotionBundles : Cardinality(Versioned(s, layout)) <= 1
  /\ \A b, c \in ModelBundles :
       b # c => \A p \in ModelRoots(b, layout), q \in ModelRoots(c, layout) :
                  ~Overlaps(p, q)
  /\ \A s, t \in MotionBundles :
       s # t => ~Overlaps(MotionPath(s, layout), MotionPath(t, layout))

ModelOutputRecord(b, root, doc, ver) ==
  [bundle |-> BundleIdentity(b, ver), root |-> root, doc |-> doc]

\* One record per model3 file of each selected root.
ModelOutputs(layout, ver) ==
  UNION {{ModelOutputRecord(b, p, d, ver) :
            p \in ModelRoots(b, layout), d \in Docs[b]} : b \in ModelBundles}

\* clips is what the restored BuildMotionData names.
SharedMotionSetRecord(s, path, clips, ver) ==
  [bundle |-> BundleIdentity(s, ver), path |-> path, clips |-> clips]

SharedMotionSets(layout, clips, ver) ==
  [s \in MotionBundles |->
     SharedMotionSetRecord(s, MotionPath(s, layout), clips[s], ver)]

----------------------------------------------------------------------------
(* The index and what may be published of it. *)

BuildIndex(outputs, sets, tables, ver) ==
  [outputs |-> outputs, sets |-> sets,
   models  |-> [b \in ModelBundles |-> Live2DModelAssociation(b, tables, ver)],
   errors  |-> \/ TableErrors(tables)
               \/ \E b \in ModelBundles : JoinErrors(b, tables)]

\* ver is the metadata the bundle identities are copied from.
BuildAssociationIndex(layout, archive, clips, ver) ==
  BuildIndex(ModelOutputs(layout, ver), SharedMotionSets(layout, clips, ver),
             Snapshot(archive), ver)

\* Several records of one bundle must share its output path.
UniqueBundles(index) ==
  \A r, s \in index.outputs : r.bundle.name = s.bundle.name => r.root = s.root

\* An association is of a model that is there, its candidates of sets that are.
ReferencesHold(index) ==
  \A b \in ModelBundles :
    /\ \E r \in index.outputs : r.bundle = index.models[b].bundle
    /\ \A c \in index.models[b].candidates : c.bundle = index.sets[c.set].bundle

ValidIndex(index) == UniqueBundles(index) /\ ReferencesHold(index)

Publishable(index) ==
  /\ ValidIndex(index)
  /\ index.outputs # {}
  /\ \A b \in ModelBundles :
       \A c \in index.models[b].candidates : c.status # "ambiguous"
  /\ ~index.errors

\* The public model list: one entry per model3 file, with the motion sets
\* attached to its bundle and the files it names.
ViewerCatalog(index) ==
  {[bundle |-> r.bundle.name, root |-> r.root, doc |-> r.doc,
    char |-> index.models[r.bundle.name].char,
    sets |-> {[set |-> c.set, path |-> index.sets[c.set].path,
               clips |-> index.sets[c.set].clips]
                : c \in {x \in index.models[r.bundle.name].candidates :
                           x.status = "derived"}}]
      : r \in index.outputs}

\* The directories of the projection: models, motions and facials.
ViewerAssetDirectories(index) ==
  {[bundle |-> r.bundle.name, part |-> "model", at |-> r.root]
     : r \in index.outputs}
    \cup {[bundle |-> s, part |-> p, at |-> index.sets[s].path]
            : s \in MotionBundles, p \in {"motion", "facial"}}

\* The files one directory of the projection holds.
DirectoryFiles(index, dir) ==
  IF dir.part = "model"
  THEN {[dir |-> dir, name |-> d] : d \in Docs[dir.bundle]}
  ELSE {[dir |-> dir, name |-> c] : c \in index.sets[dir.bundle].clips[dir.part]}

\* Every file an entry of the public list names.
NamedFiles(entry) ==
  {[dir |-> [bundle |-> entry.bundle, part |-> "model", at |-> entry.root],
    name |-> entry.doc]}
    \cup UNION {{[dir |-> [bundle |-> m.set, part |-> p, at |-> m.path],
                  name |-> c] : c \in m.clips[p]}
                 : m \in entry.sets, p \in {"motion", "facial"}}
=============================================================================
