-------------------------- MODULE UpdaterRunProofs --------------------------
(***************************************************************************)
(* What UpdaterRun guarantees for every set of bundles, every number of    *)
(* checksums and any number of runs, failures and changes.                 *)
(*                                                                         *)
(* Flow follows the items of a run from the queue through the download     *)
(* list and back; Forward is what a server that never reverts adds, Fixed  *)
(* what selections that never change add.  Either makes the markers truthful.  *)
(***************************************************************************)
EXTENDS UpdaterRun, TLAPS

Unique(items) == \A i, j \in items : i.name = j.name => i = j

Working == run \in {"planned", "pipeline"}

\* Where the items of the queue and of the candidates are.
Flow ==
  /\ Unique(queue)
  /\ Working => Unique(todo \cup failed) /\ todo \cap failed = {}
  /\ run = "planned" =>
       /\ failed = {} /\ delivered = {}
       /\ ~forced => Names(queue) \cap scope \subseteq Names(todo)
  /\ Working => Names(todo \cup failed) \subseteq scope
  /\ run = "pipeline" =>
       /\ sums = seen
       /\ delivered \cap Names(todo \cup failed) = {}
       /\ Names(queue) = Names(todo \cup failed) \cup delivered
  /\ Working => \A b \in candidates :
       \/ [name |-> b, version |-> seen[b]] \in todo \cup failed
       \/ b \in delivered /\ published[b] = seen[b]

\* With a server that never reverts, versions only grow from the marker over the
\* cached checksum to the server's, and pending items lie in between.
Forward ==
  /\ \A b \in Bundles : marks[b] <= sums[b] /\ sums[b] <= seen[b] /\ seen[b] <= server[b]
  /\ \A i \in queue : marks[i.name] <= i.version /\ i.version <= sums[i.name]
  /\ Working => \A i \in todo \cup failed :
                  marks[i.name] <= i.version /\ i.version <= seen[i.name]
  /\ \A b \in Bundles : marks[b] # None /\ marks[b] = sums[b] => published[b] = marks[b]

\* With selections that never change, pending items are those of the cached manifest, and
\* what a plan leaves out is unchanged and marked.
Fixed ==
  /\ selection = Bundles /\ scope = Bundles
  /\ \A i \in queue : i.version = sums[i.name]
  /\ Working => \A i \in todo \cup failed : i.version = seen[i.name]
  /\ run = "planned" => \A b \in Bundles \ candidates : ~forced /\ seen[b] = sums[b]
  /\ run = "pipeline" => \A b \in delivered : published[b] = seen[b]
  /\ MarkerTruthful

IInv == TypeOK /\ Flow /\ (~MayRevert => Forward) /\ (~MayReselect => Fixed)
-----------------------------------------------------------------------------
\* Init establishes the invariant.
LEMMA InitInv == Init => IInv
<1> SUFFICES ASSUME Init PROVE IInv
  OBVIOUS
<1>1. 1 \in Versions /\ None \in Contents /\ Versions \subseteq Contents
  BY UpdaterAssumption DEF Versions, Contents, None
<1>2. TypeOK
  <2>1. /\ server \in [Bundles -> Versions] /\ seen \in [Bundles -> Versions]
        /\ sums \in [Bundles -> Contents] /\ marks \in [Bundles -> Contents]
        /\ published \in [Bundles -> Contents] /\ derived \in [Bundles -> Contents]
    BY <1>1 DEF Init
  <2>2. changes \in 0..MaxChanges
    BY UpdaterAssumption DEF Init
  <2> QED BY <2>1, <2>2, UpdaterAssumption DEF Init, TypeOK
<1>3. Flow
  BY DEF Init, Flow, Unique, Working, Names
<1>4. Forward
  BY DEF Init, Forward, Working, None
<1>5. Fixed
  BY DEF Init, Fixed, Working, MarkerTruthful, None
<1> QED BY <1>2, <1>3, <1>4, <1>5 DEF IInv

\* The names of a merged list, which has none twice if neither part has.
LEMMA MergeFacts ==
  ASSUME NEW pending, NEW new, Unique(pending), Unique(new)
  PROVE  /\ Unique(Merge(pending, new))
         /\ Names(Merge(pending, new)) = Names(pending) \cup Names(new)
         /\ new \subseteq Merge(pending, new)
         /\ \A i \in Merge(pending, new) : i \in new \/ (i \in pending /\ i.name \notin Names(new))
<1>1. /\ new \subseteq Merge(pending, new)
      /\ \A i \in Merge(pending, new) : i \in new \/ (i \in pending /\ i.name \notin Names(new))
  <2>1. new \subseteq Merge(pending, new)
    BY Zenon DEF Merge
  <2>2. \A i \in Merge(pending, new) : i \in new \/ (i \in pending /\ i.name \notin Names(new))
    BY Zenon DEF Merge
  <2> QED BY <2>1, <2>2
<1>2. \A i \in new : i.name \in Names(new)
  BY DEF Names
<1>3. Unique(Merge(pending, new))
  BY <1>1, <1>2 DEF Unique
<1>4. Names(Merge(pending, new)) \subseteq Names(pending) \cup Names(new)
  BY <1>1 DEF Names
<1>5. Names(new) \subseteq Names(Merge(pending, new))
  BY <1>1 DEF Names
<1>6. ASSUME NEW i \in pending PROVE i.name \in Names(Merge(pending, new))
  <2>1. CASE i.name \in Names(new)
    BY <1>5, <2>1
  <2>2. CASE i.name \notin Names(new)
    BY <2>2 DEF Merge, Names
  <2> QED BY <2>1, <2>2
<1>7. Names(pending) \subseteq Names(Merge(pending, new))
  BY <1>6 DEF Names
<1> QED BY <1>1, <1>3, <1>4, <1>5, <1>7

\* The items of the candidates.
LEMMA CandidateItems ==
  ASSUME TypeOK, NEW C \in SUBSET Bundles
  PROVE  LET new == {[name |-> b, version |-> server[b]] : b \in C} IN
         /\ new \subseteq Items /\ Unique(new) /\ Names(new) = C
         /\ \A i \in new : i.version = server[i.name] /\ i.name \in C
         /\ \A b \in C : [name |-> b, version |-> server[b]] \in new
<1> DEFINE new == {[name |-> b, version |-> server[b]] : b \in C}
<1>1. \A i \in new : i.version = server[i.name] /\ i.name \in C /\ i \in Items
  BY DEF TypeOK, Items
<1>2. Unique(new)
  BY DEF Unique
<1>3. \A b \in C : [name |-> b, version |-> server[b]] \in new
  OBVIOUS
<1>4. Names(new) = C
  <2>1. Names(new) \subseteq C
    BY <1>1 DEF Names
  <2>2. \A b \in C : b = [name |-> b, version |-> server[b]].name
    OBVIOUS
  <2>3. C \subseteq Names(new)
    BY <1>3, <2>2 DEF Names
  <2> QED BY <2>1, <2>3
<1> HIDE DEF new
<1>5. QED BY <1>1, <1>2, <1>3, <1>4 DEF new

\* What Plan decides, in terms of the names and versions it puts on the list.
LEMMA PlanFacts ==
  ASSUME TypeOK, Flow, Plan
  PROVE  /\ candidates' \subseteq Bundles /\ candidates' \subseteq Selected
         /\ todo' \subseteq Items /\ Unique(todo') /\ forced' \in BOOLEAN
         /\ \A b \in candidates' : [name |-> b, version |-> server[b]] \in todo'
         /\ \A i \in todo' : \/ i.name \in candidates' /\ i.version = server[i.name]
                             \/ i \in queue /\ i.name \notin candidates' /\ ~forced'
         /\ Names(todo') \subseteq scope
         /\ ~forced' => Names(queue) \cap scope \subseteq Names(todo')
         /\ \A b \in Selected \ candidates' : ~forced' /\ server[b] = sums[b] /\ marks[b] = server[b]
<1>1. PICK force \in BOOLEAN, missing \in SUBSET RawCached :
        /\ forced' = force
        /\ candidates' = Candidates(force, missing)
        /\ todo' = Merge(Pending(force),
                         {[name |-> b, version |-> server[b]] : b \in candidates'})
  BY DEF Plan
<1> DEFINE new == {[name |-> b, version |-> server[b]] : b \in candidates'}
           pending == Pending(force)
<1>2. candidates' \subseteq Selected /\ Selected \subseteq Bundles
  BY <1>1 DEF Candidates, Selected, TypeOK
<1>3. /\ new \subseteq Items /\ Unique(new) /\ Names(new) = candidates'
      /\ \A i \in new : i.version = server[i.name] /\ i.name \in candidates'
      /\ \A b \in candidates' : [name |-> b, version |-> server[b]] \in new
  BY <1>2, CandidateItems
<1>4. /\ Unique(pending) /\ pending \subseteq Items /\ pending \subseteq queue
      /\ Names(pending) \subseteq scope
      /\ ~force => Names(pending) = Names(queue) \cap scope
  BY DEF Flow, TypeOK, Unique, Pending, Names
<1>5. todo' = Merge(pending, new)
  BY <1>1
<1> HIDE DEF new, pending
<1>6. /\ Unique(todo') /\ Names(todo') = Names(pending) \cup Names(new) /\ new \subseteq todo'
      /\ \A i \in todo' : i \in new \/ (i \in pending /\ i.name \notin Names(new))
  BY <1>3, <1>4, <1>5, MergeFacts
<1>7. todo' \subseteq Items
  BY <1>3, <1>4, <1>6
<1>8. \A i \in pending : ~forced'
  BY <1>1 DEF pending, Pending
<1>9. \A i \in todo' : \/ i.name \in candidates' /\ i.version = server[i.name]
                       \/ i \in queue /\ i.name \notin candidates' /\ ~forced'
  BY <1>3, <1>4, <1>6, <1>8
<1>10. ~forced' => Names(queue) \cap scope \subseteq Names(todo')
  BY <1>1, <1>4, <1>6
<1>11. \A b \in Selected \ candidates' : ~forced' /\ server[b] = sums[b] /\ marks[b] = server[b]
  BY <1>1 DEF Candidates
<1>12. Names(todo') \subseteq scope
  BY <1>2, <1>3, <1>4, <1>6 DEF Selected
<1> QED BY <1>1, <1>2, <1>3, <1>6, <1>7, <1>9, <1>10, <1>11, <1>12
-----------------------------------------------------------------------------
(* The flow of the items, whatever the server and the operator do.         *)

\* A finished item moves from one set of names to another.
LEMMA RemoveFacts ==
  ASSUME NEW items, NEW i \in items, Unique(items)
  PROVE  /\ Unique(items \ {i}) /\ i.name \notin Names(items \ {i})
         /\ Names(items) = Names(items \ {i}) \cup {i.name}
BY DEF Unique, Names

\* Every step keeps the types.
LEMMA TypeInv == TypeOK /\ Flow /\ [Next]_vars => TypeOK'
<1> SUFFICES ASSUME TypeOK, Flow, [Next]_vars PROVE TypeOK'
  OBVIOUS
<1> USE DEF world, state, storage, local, decided, history
<1>1. CASE UNCHANGED vars
  BY <1>1 DEF vars, TypeOK
<1>2. CASE Plan
  <2>1. candidates' \subseteq Bundles /\ todo' \subseteq Items /\ forced' \in BOOLEAN
    BY <1>2, PlanFacts
  <2> QED BY <1>2, <2>1 DEF Plan, TypeOK
<1>3. CASE CommitPlan
  BY <1>3 DEF CommitPlan, TypeOK, Contents
<1>4. ASSUME NEW i \in todo, Publish(i) PROVE TypeOK'
  <2>1. i.name \in Bundles /\ i.version \in Contents
    BY DEF TypeOK, Items, Contents
  <2> QED BY <1>4, <2>1 DEF Publish, TypeOK
<1>5. ASSUME NEW i \in todo, Fail(i) PROVE TypeOK'
  BY <1>5 DEF Fail, TypeOK
<1>6. CASE Succeed
  <2>1. marks' \in [Bundles -> Contents]
    BY <1>6 DEF Succeed, TypeOK, Contents
  <2> QED BY <1>6, <2>1 DEF Succeed, TypeOK
<1>7. CASE PartialFailure
  BY <1>7 DEF PartialFailure, TypeOK
<1>8. CASE Postprocess
  BY <1>8 DEF Postprocess, TypeOK
<1>9. CASE Stop
  BY <1>9 DEF Stop, TypeOK
<1>10. ASSUME NEW b \in Bundles, NEW v \in Versions, ServerChanges(b, v) PROVE TypeOK'
  <2>1. changes' \in 0..MaxChanges
    BY <1>10, UpdaterAssumption DEF ServerChanges, TypeOK
  <2> QED BY <1>10, <2>1 DEF ServerChanges, TypeOK
<1>11. CASE Reselect
  <2>1. changes' \in 0..MaxChanges
    BY <1>11, UpdaterAssumption DEF Reselect, TypeOK
  <2>2. selection' \subseteq Bundles /\ selection' # {}
    BY <1>11 DEF Reselect
  <2> QED BY <1>11, <2>1, <2>2 DEF Reselect, TypeOK
<1>12. CASE Rescope
  <2>1. changes' \in 0..MaxChanges /\ scope' \subseteq Bundles
    BY <1>12, UpdaterAssumption DEF Rescope, TypeOK
  <2> QED BY <1>12, <2>1 DEF Rescope, TypeOK
<1> QED BY <1>1, <1>2, <1>3, <1>4, <1>5, <1>6, <1>7, <1>8, <1>9, <1>10, <1>11, <1>12
        DEF Next, RunStep

\* Every step keeps track of the items, from the queue through the run and back.
LEMMA FlowInv == TypeOK /\ Flow /\ [Next]_vars => Flow'
<1> SUFFICES ASSUME TypeOK, Flow, [Next]_vars PROVE Flow'
  OBVIOUS
<1> USE DEF world, state, storage, local, decided, history
<1>1. CASE UNCHANGED vars
  BY <1>1 DEF vars, Flow, Unique, Working, Names
<1>2. CASE Plan
  <2>1. /\ run' = "planned" /\ seen' = server /\ failed' = {} /\ delivered' = {}
        /\ UNCHANGED <<scope, queue, sums, published>>
    BY <1>2 DEF Plan
  <2>2. /\ Unique(todo')
        /\ \A b \in candidates' : [name |-> b, version |-> server[b]] \in todo'
        /\ Names(todo') \subseteq scope
        /\ ~forced' => Names(queue) \cap scope \subseteq Names(todo')
    BY <1>2, PlanFacts
  <2>3. todo' \cup failed' = todo'
    BY <2>1
  <2>4. Unique(queue')
    BY <2>1 DEF Flow
  <2> QED BY <2>1, <2>2, <2>3, <2>4 DEF Flow, Working, Unique, Names
<1>3. CASE CommitPlan
  <2>1. /\ run = "planned" /\ run' \in {"postprocess", "pipeline"}
        /\ queue' = todo /\ sums' = seen
        /\ UNCHANGED <<scope, seen, candidates, todo, failed, delivered, published>>
    BY <1>3 DEF CommitPlan
  <2>2. failed = {} /\ delivered = {} /\ Unique(todo \cup failed) /\ todo \cup failed = todo
    BY <2>1 DEF Flow, Working
  <2> QED BY <2>1, <2>2 DEF Flow, Working, Unique, Names
<1>4. ASSUME NEW i \in todo, Publish(i) PROVE Flow'
  <2>1. /\ run = "pipeline" /\ run' = "pipeline"
        /\ published' = [published EXCEPT ![i.name] = i.version]
        /\ todo' = todo \ {i} /\ failed' = failed
        /\ delivered' = delivered \cup {i.name}
        /\ UNCHANGED <<scope, queue, sums, seen, candidates>>
    BY <1>4 DEF Publish
  <2> DEFINE all == todo \cup failed
  <2>2. Unique(all) /\ i \in all /\ todo' \cup failed' = all \ {i} /\ todo' \cap failed' = {}
    BY <2>1 DEF Flow, Working
  <2> HIDE DEF all
  <2>3. /\ Unique(all \ {i}) /\ i.name \notin Names(all \ {i})
        /\ Names(all) = Names(all \ {i}) \cup {i.name}
    BY <2>2, RemoveFacts
  <2>4. delivered \cap Names(all) = {} /\ Names(queue) = Names(all) \cup delivered /\ sums = seen
    BY <2>1 DEF Flow, all
  <2>5. ASSUME NEW b \in candidates
        PROVE  \/ [name |-> b, version |-> seen[b]] \in all \ {i}
               \/ b \in delivered' /\ published'[b] = seen[b]
    <3>1. published \in [Bundles -> Contents] /\ i.name \in Bundles /\ b \in Bundles
      BY DEF TypeOK, Items
    <3>2. CASE [name |-> b, version |-> seen[b]] = i
      BY <2>1, <3>1, <3>2
    <3>3. CASE b \in delivered /\ published[b] = seen[b]
      <4>1. b # i.name
        BY <2>3, <2>4, <3>3
      <4> QED BY <2>1, <3>1, <3>3, <4>1
    <3>4. \/ [name |-> b, version |-> seen[b]] \in all
          \/ b \in delivered /\ published[b] = seen[b]
      BY <2>1 DEF Flow, Working, all
    <3> QED BY <3>2, <3>3, <3>4
  <2>6. Names(queue') = Names(all \ {i}) \cup delivered' /\ Unique(queue')
    BY <2>1, <2>3, <2>4 DEF Flow
  <2>7. delivered' \cap Names(all \ {i}) = {}
    BY <2>1, <2>3, <2>4
  <2>8. Names(all \ {i}) \subseteq scope
    BY <2>1, <2>3 DEF Flow, Working, all
  <2> QED BY <2>1, <2>2, <2>3, <2>4, <2>5, <2>6, <2>7, <2>8 DEF Flow, Working
<1>5. ASSUME NEW i \in todo, Fail(i) PROVE Flow'
  <2>1. /\ run = "pipeline" /\ run' = "pipeline"
        /\ todo' \cup failed' = todo \cup failed /\ todo' \cap failed' = {}
        /\ UNCHANGED <<scope, queue, sums, seen, candidates, delivered, published>>
    BY <1>5 DEF Fail, Flow, Working
  <2>2. Unique(queue')
    BY <2>1 DEF Flow
  <2> QED BY <2>1, <2>2 DEF Flow, Working
<1>6. CASE Succeed
  BY <1>6 DEF Succeed, Flow, Working, Unique
<1>7. CASE PartialFailure
  <2>1. run = "pipeline" /\ run' = "idle" /\ queue' = failed
    BY <1>7 DEF PartialFailure
  <2>2. Unique(failed)
    BY <2>1 DEF Flow, Working, Unique
  <2> QED BY <2>1, <2>2 DEF Flow, Working
<1>8. CASE Postprocess \/ Stop
  <2>1. run' = "idle" /\ queue' = queue
    BY <1>8 DEF Postprocess, Stop
  <2> QED BY <2>1 DEF Flow, Working
<1>9. ASSUME NEW b \in Bundles, NEW v \in Versions, ServerChanges(b, v) PROVE Flow'
  BY <1>9 DEF ServerChanges, Flow, Working, Unique, Names
<1>10. CASE Reselect \/ Rescope
  <2>1. /\ run = "idle" /\ run' = run /\ queue' = queue
    BY <1>10 DEF Reselect, Rescope
  <2> QED BY <2>1 DEF Flow, Working
<1> QED BY <1>1, <1>2, <1>3, <1>4, <1>5, <1>6, <1>7, <1>8, <1>9, <1>10 DEF Next, RunStep

\* The flow of every behaviour.
LEMMA FlowAlways == Spec => [](TypeOK /\ Flow)
<1>1. Init => TypeOK /\ Flow
  BY InitInv DEF IInv
<1>2. TypeOK /\ Flow /\ [Next]_vars => (TypeOK /\ Flow)'
  BY TypeInv, FlowInv
<1> QED BY <1>1, <1>2, PTL DEF Spec

\* The variables keep their types.
THEOREM TypeCorrect == Spec => []TypeOK
BY FlowAlways, PTL

\* No queue on disk names a bundle twice, so load_pending_queue accepts each of them.
THEOREM QueueLoadableAlways == Spec => []QueueLoadable
<1>1. Flow => QueueLoadable
  BY DEF Flow, Unique, QueueLoadable
<1> QED BY <1>1, FlowAlways, PTL

\* No step of any run loses a pending bundle it has not published, except a forced
\* plan that starts over and the filter of cli/pending.py for the regional music
\* selection; and no run publishes what that selection does not allow.
THEOREM PendingKeptAlways == Spec => PendingKept
<1> DEFINE Leaves(i) == \/ i.name \in Names(queue') \cup delivered'
                        \/ run = "planned" /\ (forced \/ i.name \notin scope)
<1> USE DEF world, state, storage, local, decided, history
<1>1. ASSUME TypeOK, Flow, Next, NEW i \in queue PROVE Leaves(i)
  <2> SUFFICES ASSUME ~(run = "planned" /\ (forced \/ i.name \notin scope))
               PROVE  i.name \in Names(queue') \cup delivered'
    OBVIOUS
  <2>1. i.name \in Names(queue)
    BY DEF Names
  <2>2. CASE UNCHANGED queue
    BY <2>1, <2>2
  <2>3. CASE CommitPlan
    BY <1>1, <2>1, <2>3 DEF CommitPlan, Flow
  <2>4. CASE Succeed \/ PartialFailure
    <3>1. /\ run = "pipeline" /\ todo = {} /\ delivered' = delivered
          /\ failed = {} \/ queue' = failed
      BY <2>4 DEF Succeed, PartialFailure
    <3>2. Names(queue) = Names(failed) \cup delivered
      BY <1>1, <3>1 DEF Flow
    <3>3. Names({}) = {}
      BY DEF Names
    <3> QED BY <2>1, <3>1, <3>2, <3>3
  <2>5. UNCHANGED queue \/ CommitPlan \/ Succeed \/ PartialFailure
    BY <1>1 DEF Next, RunStep, Plan, Publish, Fail, Postprocess, Stop, ServerChanges,
       Reselect, Rescope
  <2> QED BY <2>2, <2>3, <2>4, <2>5
<1>2. ASSUME TypeOK, Flow, Next PROVE delivered' \subseteq delivered \cup scope
  <2>1. ASSUME NEW i \in todo, Publish(i) PROVE delivered' \subseteq delivered \cup scope
    <3>1. i.name \in Names(todo \cup failed) /\ Names(todo \cup failed) \subseteq scope
      BY <1>2, <2>1 DEF Publish, Flow, Working, Names
    <3> QED BY <2>1, <3>1 DEF Publish
  <2>2. CASE ~\E i \in todo : Publish(i)
    BY <1>2, <2>2 DEF Next, RunStep, Plan, CommitPlan, Fail, Succeed, PartialFailure,
       Postprocess, Stop, ServerChanges, Reselect, Rescope
  <2> QED BY <2>1, <2>2
<1>3. TypeOK /\ Flow /\ [Next]_vars =>
        [(\A i \in queue : Leaves(i)) /\ delivered' \subseteq delivered \cup scope]_vars
  BY <1>1, <1>2
<1> QED BY <1>3, FlowAlways, PTL DEF Spec, PendingKept
-----------------------------------------------------------------------------
(* Truthful markers.                                                       *)

\* All checksums are comparable.
LEMMA Numbers ==
  TypeOK => /\ \A b \in Bundles : /\ server[b] \in Nat /\ seen[b] \in Nat
                                  /\ sums[b] \in Nat /\ marks[b] \in Nat
            /\ \A i \in Items : i.name \in Bundles /\ i.version \in Nat
BY UpdaterAssumption DEF TypeOK, Items, Contents, Versions, None

\* Every step keeps versions in order when the server never reverts.
LEMMA ForwardInv ==
  ASSUME ~MayRevert, TypeOK, Flow, Forward, [Next]_vars
  PROVE  Forward'
<1> USE DEF world, state, storage, local, decided, history
<1>1. /\ \A b \in Bundles : /\ server[b] \in Nat /\ seen[b] \in Nat
                            /\ sums[b] \in Nat /\ marks[b] \in Nat
      /\ \A i \in Items : i.name \in Bundles /\ i.version \in Nat
      /\ queue \subseteq Items /\ todo \subseteq Items /\ failed \subseteq Items
      /\ candidates \subseteq Bundles
  BY Numbers DEF TypeOK
<1>2. CASE UNCHANGED vars
  BY <1>2 DEF vars, Forward, Working
<1>3. CASE Plan
  <2>1. /\ run' = "planned" /\ seen' = server /\ failed' = {}
        /\ UNCHANGED <<server, queue, sums, marks, published>>
    BY <1>3 DEF Plan
  <2>2. todo' \subseteq Items
    BY <1>3, PlanFacts
  <2>3. ASSUME NEW i \in todo'
        PROVE  marks[i.name] <= i.version /\ i.version <= server[i.name]
    <3>1. i.name \in Bundles /\ (i.version = server[i.name] \/ i \in queue)
      BY <1>1, <1>3, <2>2, <2>3, PlanFacts
    <3> QED BY <1>1, <2>2, <3>1 DEF Forward
  <2> QED BY <1>1, <2>1, <2>3 DEF Forward, Working
<1>4. CASE CommitPlan
  <2>1. /\ run = "planned" /\ queue' = todo /\ sums' = seen
        /\ UNCHANGED <<server, seen, todo, failed, marks, published>>
    BY <1>4 DEF CommitPlan
  <2>2. ASSUME NEW b \in Bundles, marks[b] # None, marks[b] = seen[b]
        PROVE  published[b] = marks[b]
    BY <1>1, <2>2 DEF Forward
  <2> QED BY <1>1, <2>1, <2>2 DEF Forward, Working
<1>5. ASSUME NEW i \in todo, Publish(i) PROVE Forward'
  <2>1. /\ run = "pipeline" /\ run' = run
        /\ published' = [published EXCEPT ![i.name] = i.version]
        /\ todo' = todo \ {i} /\ failed' = failed
        /\ UNCHANGED <<server, queue, seen, sums, marks>>
    BY <1>5 DEF Publish
  <2>2. marks[i.name] <= i.version /\ i.version <= sums[i.name] /\ i.name \in Bundles
    BY <1>1, <2>1 DEF Forward, Flow, Working
  <2>3. ASSUME NEW b \in Bundles, marks[b] # None, marks[b] = sums[b]
        PROVE  published'[b] = marks[b]
    <3>1. published \in [Bundles -> Contents] /\ i.version \in Nat
      BY <1>1 DEF TypeOK
    <3>2. CASE b = i.name
      BY <1>1, <2>1, <2>2, <2>3, <3>1, <3>2
    <3>3. CASE b # i.name
      BY <2>1, <2>3, <3>1, <3>3 DEF Forward
    <3> QED BY <3>2, <3>3
  <2> QED BY <2>1, <2>3 DEF Forward, Working
<1>6. ASSUME NEW i \in todo, Fail(i) PROVE Forward'
  <2>1. /\ run = "pipeline" /\ run' = run /\ todo' \cup failed' = todo \cup failed
        /\ UNCHANGED <<server, queue, seen, sums, marks, published>>
    BY <1>6 DEF Fail
  <2> QED BY <2>1 DEF Forward, Working
<1>7. CASE Succeed
  <2>1. /\ run = "pipeline" /\ run' = "postprocess" /\ todo = {} /\ failed = {} /\ queue' = {}
        /\ marks' = [b \in Bundles |-> IF b \in candidates THEN seen[b] ELSE marks[b]]
        /\ UNCHANGED <<server, seen, sums, published>>
    BY <1>7 DEF Succeed
  <2>2. sums = seen /\ \A b \in candidates : published[b] = seen[b]
    BY <2>1 DEF Flow, Working
  <2>3. ASSUME NEW b \in Bundles PROVE marks'[b] <= sums[b]
    BY <1>1, <2>1, <2>2 DEF Forward
  <2>4. ASSUME NEW b \in Bundles, marks'[b] # None, marks'[b] = sums[b]
        PROVE  published[b] = marks'[b]
    BY <2>1, <2>2, <2>4 DEF Forward
  <2> QED BY <2>1, <2>3, <2>4 DEF Forward, Working
<1>8. CASE PartialFailure
  <2>1. /\ run = "pipeline" /\ run' = "idle" /\ queue' = failed
        /\ UNCHANGED <<server, seen, sums, marks, published>>
    BY <1>8 DEF PartialFailure
  <2>2. sums = seen
    BY <2>1 DEF Flow
  <2> QED BY <2>1, <2>2 DEF Forward, Working
<1>9. CASE Postprocess \/ Stop
  <2>1. run' = "idle" /\ UNCHANGED <<server, queue, seen, sums, marks, published>>
    BY <1>9 DEF Postprocess, Stop
  <2> QED BY <2>1 DEF Forward, Working
<1>10. ASSUME NEW b \in Bundles, NEW v \in Versions, ServerChanges(b, v) PROVE Forward'
  <2>1. /\ v > server[b] /\ server' = [server EXCEPT ![b] = v]
        /\ UNCHANGED <<run, queue, seen, sums, marks, published, todo, failed>>
    BY <1>10 DEF ServerChanges
  <2>2. ASSUME NEW c \in Bundles PROVE seen[c] <= server'[c]
    <3>1. server \in [Bundles -> Versions] /\ v \in Nat
      BY UpdaterAssumption DEF TypeOK, Versions
    <3> QED BY <1>1, <2>1, <3>1 DEF Forward
  <2> QED BY <2>1, <2>2 DEF Forward, Working
<1>11. CASE Reselect \/ Rescope
  BY <1>11 DEF Reselect, Rescope, Forward, Working
<1> QED BY <1>2, <1>3, <1>4, <1>5, <1>6, <1>7, <1>8, <1>9, <1>10, <1>11 DEF Next, RunStep

\* Every step keeps pending items and markers current when the selection never changes.
LEMMA FixedInv ==
  ASSUME ~MayReselect, TypeOK, Flow, Fixed, [Next]_vars
  PROVE  Fixed'
<1> USE DEF world, state, storage, local, decided, history
<1>1. /\ \A i \in Items : i.name \in Bundles
      /\ queue \subseteq Items /\ todo \subseteq Items /\ failed \subseteq Items
      /\ candidates \subseteq Bundles /\ published \in [Bundles -> Contents]
  BY Numbers DEF TypeOK
<1>2. CASE UNCHANGED vars
  BY <1>2 DEF vars, Fixed, Working, MarkerTruthful, Names
<1>3. CASE Plan
  <2>1. /\ run' = "planned" /\ seen' = server /\ failed' = {} /\ delivered' = {}
        /\ UNCHANGED <<selection, scope, queue, sums, marks, published>>
    BY <1>3 DEF Plan
  <2>2. \A b \in Bundles \ candidates' : ~forced' /\ server[b] = sums[b]
    BY <1>3, PlanFacts DEF Fixed, Selected
  <2>3. ASSUME NEW i \in todo' PROVE i.version = server[i.name]
    <3>1. \/ i.version = server[i.name]
          \/ i \in queue /\ i.name \notin candidates'
      BY <1>3, <2>3, PlanFacts
    <3>2. CASE i \in queue /\ i.name \notin candidates'
      BY <1>1, <2>2, <3>2 DEF Fixed
    <3> QED BY <3>1, <3>2
  <2> QED BY <2>1, <2>2, <2>3 DEF Fixed, Working, MarkerTruthful, Names
<1>4. CASE CommitPlan
  <2>1. /\ run = "planned" /\ run' \in {"pipeline", "postprocess"}
        /\ queue' = todo /\ sums' = seen
        /\ UNCHANGED <<selection, scope, seen, todo, failed, marks, published, delivered>>
    BY <1>4 DEF CommitPlan
  <2>2. failed = {} /\ delivered = {} /\ (~forced => Names(queue) \subseteq Names(todo))
    <3>1. Names(queue) \cap scope = Names(queue)
      BY <1>1 DEF Fixed, Names
    <3> QED BY <2>1, <3>1 DEF Flow
  <2>3. ASSUME NEW b \in Bundles, marks[b] # None, marks[b] = seen[b], b \notin Names(todo)
        PROVE  published[b] = marks[b]
    <3>1. b \notin candidates
      <4>1. ASSUME b \in candidates PROVE FALSE
        <5>1. [name |-> b, version |-> seen[b]] \in todo
          BY <2>1, <2>2, <4>1 DEF Flow, Working
        <5>2. [name |-> b, version |-> seen[b]].name = b
          OBVIOUS
        <5> QED BY <2>3, <5>1, <5>2 DEF Names
      <4> QED BY <4>1
    <3>2. ~forced /\ seen[b] = sums[b]
      BY <2>1, <3>1 DEF Fixed
    <3> QED BY <2>2, <2>3, <3>2 DEF Fixed, MarkerTruthful
  <2>4. MarkerTruthful'
    BY <2>1, <2>3 DEF MarkerTruthful, Names
  <2>5. \A i \in todo : i.version = seen[i.name]
    BY <2>1 DEF Fixed, Working
  <2> QED BY <2>1, <2>2, <2>4, <2>5 DEF Fixed, Working
<1>5. ASSUME NEW i \in todo, Publish(i) PROVE Fixed'
  <2>1. /\ run = "pipeline" /\ run' = run
        /\ published' = [published EXCEPT ![i.name] = i.version]
        /\ todo' = todo \ {i} /\ failed' = failed
        /\ delivered' = delivered \cup {i.name}
        /\ UNCHANGED <<selection, scope, queue, seen, sums, marks>>
    BY <1>5 DEF Publish
  <2>2. i.version = seen[i.name] /\ i.name \in Bundles /\ i.name \in Names(queue)
    BY <1>1, <2>1 DEF Fixed, Flow, Working, Names
  <2>3. \A b \in delivered' : published'[b] = seen[b]
    <3>1. SUFFICES ASSUME NEW b \in delivered' PROVE published'[b] = seen[b]
      OBVIOUS
    <3>2. b \in Bundles
      BY <2>1, <2>2 DEF TypeOK
    <3> QED BY <1>1, <2>1, <2>2, <3>2 DEF Fixed
  <2>4. MarkerTruthful'
    <3>1. SUFFICES ASSUME NEW b \in Bundles, marks[b] # None, marks[b] = sums[b],
                          b \notin Names(queue)
                   PROVE  published'[b] = marks[b]
      BY <2>1 DEF MarkerTruthful, Names
    <3>2. b # i.name
      BY <2>2, <3>1
    <3> QED BY <1>1, <2>1, <3>1, <3>2 DEF Fixed, MarkerTruthful
  <2> QED BY <2>1, <2>3, <2>4 DEF Fixed, Working
<1>6. ASSUME NEW i \in todo, Fail(i) PROVE Fixed'
  <2>1. /\ run = "pipeline" /\ run' = run /\ todo' \cup failed' = todo \cup failed
        /\ UNCHANGED <<selection, scope, queue, seen, sums, marks, published, delivered>>
    BY <1>6 DEF Fail
  <2> QED BY <2>1 DEF Fixed, Working, MarkerTruthful, Names
<1>7. CASE Succeed
  <2>1. /\ run = "pipeline" /\ run' = "postprocess" /\ todo = {} /\ failed = {} /\ queue' = {}
        /\ marks' = [b \in Bundles |-> IF b \in candidates THEN seen[b] ELSE marks[b]]
        /\ UNCHANGED <<selection, scope, seen, sums, published>>
    BY <1>7 DEF Succeed
  <2>2. /\ sums = seen /\ \A b \in candidates : published[b] = seen[b]
        /\ \A b \in delivered : published[b] = seen[b]
    BY <2>1 DEF Flow, Working, Fixed
  <2>3. Names(queue) = delivered
    BY <2>1 DEF Flow, Names
  <2>4. ASSUME NEW b \in Bundles, marks'[b] # None, marks'[b] = sums[b]
        PROVE  published[b] = marks'[b]
    <3>1. CASE b \in candidates \cup delivered
      BY <2>1, <2>2, <2>4, <3>1
    <3>2. CASE b \notin candidates \cup delivered
      BY <2>1, <2>3, <2>4, <3>2 DEF Fixed, MarkerTruthful
    <3> QED BY <3>1, <3>2
  <2>5. MarkerTruthful'
    BY <2>1, <2>4 DEF MarkerTruthful
  <2> QED BY <2>1, <2>5 DEF Fixed, Working
<1>8. CASE PartialFailure
  <2>1. /\ run = "pipeline" /\ run' = "idle" /\ queue' = failed /\ todo = {}
        /\ UNCHANGED <<selection, scope, seen, sums, marks, published>>
    BY <1>8 DEF PartialFailure
  <2>2. /\ sums = seen /\ Names(queue) = Names(failed) \cup delivered
        /\ \A b \in delivered : published[b] = seen[b]
    BY <2>1 DEF Flow, Fixed
  <2>3. MarkerTruthful'
    BY <2>1, <2>2 DEF Fixed, MarkerTruthful, Names
  <2> QED BY <2>1, <2>2, <2>3 DEF Fixed, Working
<1>9. CASE Postprocess \/ Stop
  <2>1. run' = "idle" /\ UNCHANGED <<selection, scope, queue, seen, sums, marks, published>>
    BY <1>9 DEF Postprocess, Stop
  <2> QED BY <2>1 DEF Fixed, Working, MarkerTruthful, Names
<1>10. ASSUME NEW b \in Bundles, NEW v \in Versions, ServerChanges(b, v) PROVE Fixed'
  BY <1>10 DEF ServerChanges, Fixed, Working, MarkerTruthful, Names
<1>11. CASE Reselect \/ Rescope
  BY <1>11 DEF Reselect, Rescope
<1> QED BY <1>2, <1>3, <1>4, <1>5, <1>6, <1>7, <1>8, <1>9, <1>10, <1>11 DEF Next, RunStep

\* The invariant of every behaviour.
LEMMA Invariant == Spec => []IInv
<1>1. IInv /\ [Next]_vars => IInv'
  <2> SUFFICES ASSUME IInv, [Next]_vars PROVE IInv'
    OBVIOUS
  <2>1. TypeOK' /\ Flow'
    BY TypeInv, FlowInv DEF IInv
  <2>2. ~MayRevert => Forward'
    BY ForwardInv DEF IInv
  <2>3. ~MayReselect => Fixed'
    BY FixedInv DEF IInv
  <2> QED BY <2>1, <2>2, <2>3 DEF IInv
<1> QED BY <1>1, InitInv, PTL DEF Spec

\* Unless the server reverts and the selection changes too, a bundle later runs skip
\* is in storage with the content its marker names.
THEOREM MarkerTruthfulAlways ==
  ~MayRevert \/ ~MayReselect => (Spec => []MarkerTruthful)
<1> SUFFICES ASSUME ~MayRevert \/ ~MayReselect PROVE Spec => []MarkerTruthful
  OBVIOUS
<1>1. IInv => MarkerTruthful
  BY DEF IInv, Forward, Fixed, MarkerTruthful
<1> QED BY <1>1, Invariant, PTL
=============================================================================
