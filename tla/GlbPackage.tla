----------------------------- MODULE GlbPackage -----------------------------
(***************************************************************************)
(* extract/glb: the planner that closes a package's roots under metadata   *)
(* dependencies (planner.py), readiness of the closure (downloads.py), the *)
(* walk over the objects of the loaded collection (collection.py) and the  *)
(* export that a complete walk allows (extract/sync_worker.py).            *)
(*                                                                         *)
(* Bundles are numbers: their order is the order of their names.  A bundle *)
(* holds one object, named by the bundle; a reference may also dangle.     *)
(* Metadata and type trees are whatever the game ships: each is chosen     *)
(* when it is first read.                                                  *)
(***************************************************************************)
EXTENDS Naturals, Sequences, FiniteSets

CONSTANTS
  Bundles,     \* bundle names, as numbers
  MaxExports   \* bound on the exports written

ASSUME GlbAssumption ==
  Bundles \subseteq Nat /\ IsFiniteSet(Bundles) /\ MaxExports \in Nat

VARIABLES
  phase,     \* "plan", "check", "planned", "walk", "write", and how it ended
  profile,   \* GLBProfile: exclusions, missing_fatal, cycles_fatal, expand
  metadata,  \* bundle -> its dependencies; absent bundles are not in the domain
  roots,     \* root bundles
  queue,     \* of _closure_bfs
  path,      \* bundle of the closure -> bundles from its root to it
  missing,   \* <<bundle, referenced_by>>
  excluded,  \* <<bundle, referenced_by>>
  cycles,    \* sets of bundles recorded as a cycle
  plan,      \* what the worker is given: bundles, roots, optional
  pending,   \* objects to visit
  typetree,  \* object visited -> bundles its references name
  broken,    \* objects the collection does not have
  findings,  \* severities of the findings
  written    \* file -> number of the export it is from

planning == <<profile, metadata, roots, queue, path, missing, excluded, cycles>>
walking == <<pending, typetree, broken, findings>>
glbVars == <<phase, planning, plan, walking, written>>

Closure == DOMAIN path
Present == DOMAIN metadata

Profiles == [exclusion : [Bundles -> {"none", "optional", "required"}],
             missing_fatal : BOOLEAN, cycles_fatal : BOOLEAN,
             expand_dependencies : BOOLEAN]

NoPlan == [bundles |-> {}, roots |-> {}, optional |-> {}]

\* The sequences that list the elements of S, each once
Listings(S) ==
  {s \in [1..Cardinality(S) -> S] :
     /\ \A x \in S : \E i \in DOMAIN s : s[i] = x
     /\ \A i, j \in DOMAIN s : s[i] = s[j] => i = j}

\* The one in ascending order
Ascending(S) == {s \in Listings(S) : \A i, j \in DOMAIN s : i < j => s[i] < s[j]}

\* _require_metadata_bundles has passed; every root starts a path of its own.  The
\* caller gives their order; a bundle named by two roots is only looked at again.
GlbInit ==
  /\ phase = "plan"
  /\ profile \in Profiles
  /\ metadata \in UNION {[P -> SUBSET Bundles] : P \in SUBSET Bundles}
  /\ roots \in (SUBSET Present) \ {{}}
  /\ queue \in Listings(roots)
  /\ path = [b \in roots |-> <<b>>]
  /\ missing = {} /\ excluded = {} /\ cycles = {}
  /\ plan = NoPlan
  /\ pending = {} /\ typetree = << >> /\ broken = {} /\ findings = {}
  /\ written = [f \in {"package", "glb", "export"} |-> 0]
-----------------------------------------------------------------------------
(* build_extraction_plan.                                                  *)

Dependencies(b) == IF profile.expand_dependencies THEN metadata[b] ELSE {}
Excluded(b) == profile.exclusion[b] # "none"

\* The dependencies the closure follows
Followed(b) == {d \in Dependencies(b) \ {b} : ~Excluded(d) /\ d \in Present}

\* Mutant: every bundle met before counts as an ancestor.
Mut_Ancestors(b) == Closure \ {b}

\* _ancestors_of: along the tree of the search
Ancestors(b) == {path[b][i] : i \in 1..(Len(path[b]) - 1)}

\* _cycle_chain: from an ancestor down to b
Chain(b, ancestor) ==
  {path[b][i] : i \in {j \in 1..Len(path[b]) :
                         \E k \in 1..j : path[b][k] = ancestor}}

\* Mutant: an excluded dependency is followed when it is optional.
Mut_Discovered(b) ==
  {d \in Dependencies(b) : profile.exclusion[d] # "required" /\ d \in Present} \ Closure

Discovered(b) == Followed(b) \ Closure

\* One turn of _closure_bfs
Visit ==
  /\ phase = "plan" /\ queue # << >>
  /\ LET b == Head(queue)
         others == Dependencies(b) \ {b}
     IN /\ excluded' = excluded \cup {<<d, b>> : d \in {e \in others : Excluded(e)}}
        /\ missing' = missing \cup
             {<<d, b>> : d \in {e \in others : ~Excluded(e) /\ e \notin Present}}
        /\ cycles' = cycles
             \cup (IF b \in Dependencies(b) THEN {{b}} ELSE {})
             \cup {Chain(b, d) : d \in Followed(b) \cap Ancestors(b)}
        /\ path' = [d \in Closure \cup Discovered(b) |->
                      IF d \in Closure THEN path[d] ELSE Append(path[b], d)]
        /\ \E found \in Ascending(Discovered(b)) : queue' = Tail(queue) \o found
  /\ UNCHANGED <<phase, profile, metadata, roots, plan, walking, written>>

Built ==
  /\ phase = "plan" /\ queue = << >>
  /\ phase' = "check"
  /\ UNCHANGED <<planning, plan, walking, written>>

\* validate_plan returns problems
Fatal ==
  \/ profile.missing_fatal /\ missing # {}
  \/ \E e \in excluded : profile.exclusion[e[1]] = "required"
  \/ profile.cycles_fatal /\ cycles # {}

\* ensure_plan_valid
Ensure ==
  /\ phase = "check"
  /\ phase' = IF Fatal THEN "rejected" ELSE "planned"
  /\ plan' = IF Fatal THEN NoPlan
             ELSE [bundles |-> Closure, roots |-> roots,
                   optional |-> {e[1] : e \in excluded}]
  /\ UNCHANGED <<planning, walking, written>>
-----------------------------------------------------------------------------
(* Readiness, and the collection.                                          *)

\* evaluate_package_readiness; `unready` are the bundles withdrawn from the
\* metadata since the plan, those with another checksum now, and those whose
\* file is not in the cache.
Ready(unready) == plan.bundles \cap unready = {}

\* _resolve_root_objects: the findings of the roots themselves
RootFindings(absent) == IF plan.roots \cap absent # {} THEN {"error"} ELSE {}

\* The caller starts the worker on a ready package, with every payload of the
\* plan and no other (load_package_collection).  The planner's memory is gone.
Load(unready, absent, optional) ==
  /\ phase = "planned"
  /\ IF Ready(unready)
     THEN /\ phase' = "walk" /\ broken' = absent
          /\ findings' = RootFindings(absent)
          /\ pending' = plan.roots \ absent
          /\ plan' = IF optional THEN plan ELSE [plan EXCEPT !.optional = {}]
     ELSE phase' = "not_ready" /\ UNCHANGED <<broken, findings, pending, plan>>
  /\ profile' = [exclusion |-> [b \in Bundles |-> "none"], missing_fatal |-> FALSE,
                 cycles_fatal |-> FALSE, expand_dependencies |-> FALSE]
  /\ metadata' = << >> /\ roots' = {} /\ path' = << >>
  /\ queue' = << >> /\ missing' = {} /\ excluded' = {} /\ cycles' = {}
  /\ UNCHANGED <<typetree, written>>

\* resolve_pptr: the objects of the collection a reference can reach
Resolved(references) == references \cap (plan.bundles \ broken)

\* Mutant: a reference out of the collection is taken for an optional one.
Mut_Severity(target) ==
  IF target \notin plan.bundles THEN {"warning"}
  ELSE IF target \in broken THEN {"error"} ELSE {}

\* _classify_and_enqueue: the finding of one reference
Severity(target) ==
  IF target \notin plan.bundles
  THEN IF target \in plan.optional THEN {"warning"} ELSE {"error"}
  ELSE IF target \in broken THEN {"error"} ELSE {}

\* One turn of validate_collection_reachability: the object's type tree names
\* `references`.
Walk(object, references) ==
  /\ phase = "walk" /\ object \in pending
  /\ typetree' = [o \in DOMAIN typetree \cup {object} |->
                    IF o = object THEN references ELSE typetree[o]]
  /\ findings' = findings \cup UNION {Severity(t) : t \in references}
  /\ pending' = (pending \cup Resolved(references)) \ DOMAIN typetree'
  /\ UNCHANGED <<phase, planning, plan, broken, written>>

\* A type tree that cannot be read is a warning, and nothing is followed: what the
\* object refers to stays unknown.
Unreadable(object) ==
  /\ phase = "walk" /\ object \in pending
  /\ typetree' = [o \in DOMAIN typetree \cup {object} |->
                    IF o = object THEN {} ELSE typetree[o]]
  /\ findings' = findings \cup {"warning"} /\ pending' = pending \ {object}
  /\ UNCHANGED <<phase, planning, plan, broken, written>>

\* PackageNotPublishable is raised before anything is written.
Walked ==
  /\ phase = "walk" /\ pending = {}
  /\ phase' = IF "error" \in findings THEN "refused" ELSE "write package"
  /\ UNCHANGED <<planning, plan, walking, written>>

\* export_root_glb_sync replaces three files, one after the other.
WriteFile(f, now, next) ==
  /\ phase = now
  /\ written' = [written EXCEPT ![f] = @ + 1]
  /\ phase' = next
  /\ UNCHANGED <<planning, plan, walking>>

\* A write raises or the worker is killed.
WriteStops ==
  /\ phase \in {"write package", "write glb", "write export"}
  /\ phase' = "failed"
  /\ UNCHANGED <<planning, plan, walking, written>>

\* Objects an export of a later run may read are chosen afresh.
Again ==
  /\ phase \in {"exported", "failed"} /\ written["package"] < MaxExports
  /\ phase' = "walk"
  /\ pending' = plan.roots \ broken /\ typetree' = << >>
  /\ findings' = RootFindings(broken)
  /\ UNCHANGED <<planning, plan, broken, written>>

GlbNext ==
  \/ Visit \/ Built \/ Ensure
  \/ \E unready, absent \in SUBSET Bundles, optional \in BOOLEAN :
       Load(unready, absent, optional)
  \/ \E object \in Bundles :
       Unreadable(object) \/ \E references \in SUBSET Bundles : Walk(object, references)
  \/ Walked
  \/ WriteFile("package", "write package", "write glb")
  \/ WriteFile("glb", "write glb", "write export")
  \/ WriteFile("export", "write export", "exported")
  \/ WriteStops \/ Again

GlbSpec == GlbInit /\ [][GlbNext]_glbVars
-----------------------------------------------------------------------------
GlbTypeOK ==
  /\ profile \in Profiles
  /\ metadata \in UNION {[P -> SUBSET Bundles] : P \in SUBSET Bundles}
  /\ roots \subseteq Bundles /\ Closure \subseteq Bundles
  /\ queue \in Seq(Bundles)
  /\ plan \in [bundles : SUBSET Bundles, roots : SUBSET Bundles, optional : SUBSET Bundles]

Closed(S) == \A b \in S : Followed(b) \subseteq S

\* build_extraction_plan: the planned bundles are the least set that holds the
\* roots and, of each member, the dependencies that exist and are not excluded;
\* what is missing or excluded around it is recorded, and nothing else is.
ClosureExact ==
  phase = "check" =>
    /\ roots \subseteq Closure /\ Closed(Closure)
    /\ \A S \in SUBSET Present : roots \subseteq S /\ Closed(S) => Closure \subseteq S
    /\ missing = UNION {{<<d, b>> : d \in {e \in Dependencies(b) \ {b} :
                           ~Excluded(e) /\ e \notin Present}} : b \in Closure}
    /\ excluded = UNION {{<<d, b>> : d \in {e \in Dependencies(b) \ {b} : Excluded(e)}} :
                           b \in Closure}

\* _record_cycle: with cycles_fatal a plan is refused only for a real cycle.
\* Every recorded set can be walked round along metadata dependencies.
CyclesReal ==
  \A c \in cycles :
    /\ c # {} /\ \A b \in c : metadata[b] \cap c # {}
    /\ \A b \in c : \A S \in SUBSET c :
      b \in S /\ (\A d \in S : metadata[d] \cap c \subseteq S) => S = c

\* export_root_glb_sync: "a non-publishable package is refused before anything
\* is written".  When a file is written, every object that can be reached from
\* the roots is in the collection, but for references to bundles the caller
\* called optional; and the roots were found.  What only an object refers to whose
\* type tree cannot be read is not covered: the code lets it pass with a warning.
ExportComplete ==
  phase \in {"write package", "write glb", "write export", "exported"} =>
    /\ plan.roots \subseteq DOMAIN typetree
    /\ \A o \in DOMAIN typetree, t \in Bundles :
         t \in typetree[o] => t \in DOMAIN typetree \/ t \in plan.optional
=============================================================================
