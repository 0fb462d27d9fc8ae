---------------------------- MODULE MediaProofs -----------------------------
(***************************************************************************)
(* What holds of Media for any artifacts, jobs and numbers of slots: no    *)
(* more external processes of a kind than its semaphore allows, staging    *)
(* directories removed with their units, and an artifact done only when it *)
(* is complete.                                                            *)
(*                                                                         *)
(* The inductive invariant follows a unit through its coroutine.  While    *)
(* the loop runs, a process belongs to a unit that holds its slot; from    *)
(* the teardown on, units let go of processes that still run, but then     *)
(* nothing can start one any more (Winding).  An artifact that was not     *)
(* cancelled has no cancelled unit (Loyal), and leaves a group only when   *)
(* each of its jobs has returned (Gatherings).                             *)
(***************************************************************************)
EXTENDS Media, FiniteSetTheorems, SequenceTheorems, TLAPS

Ways == {"thread", "process", "pool"}

\* The types of the state, `left` included.
Typed ==
  /\ stage \in [Artifacts -> {"extract", "upload"} \cup ArtifactEnded]
  /\ group \in [Artifacts -> Nat]
  /\ \A a \in Artifacts : group[a] \in 1 .. Len(Groups[a])
  /\ told \subseteq Artifacts
  /\ job \in [Jobs -> {"new"} \cup Open \cup JobEnded]
  /\ at \in [Units -> {"idle", "slot", "busy"} \cup Reaping \cup UnitEnded]
  /\ left \in [Units -> Seq(Ways)]
  /\ child \in [Units -> {"none", "alive", "killed", "zero", "nonzero"}]
  /\ dir \subseteq Units
  /\ encoder \in Encoders
  /\ loop \in {"running", "teardown", "closed"}

\* A staging directory lies in an artifact's that has not been removed, and, unless
\* rmtree left it, belongs to a unit at work or to a transcode that dropped it.
Staging ==
  \A u \in dir : /\ ~Gone(u)
                 /\ u \notin Undeletable =>
                      /\ at[u] \in {"busy"} \cup Reaping \cup {"dropped"}
                      /\ at[u] = "dropped" => u[2] = "mp4"

\* What runs for a unit that is not at work: nothing, or a thread or pool
\* worker it was cancelled on, or what the teardown let go.
Orphans ==
  \A u \in Units :
    /\ at[u] \in {"idle", "slot", "ok", "bad", "timeout"} => child[u] = "none"
    /\ at[u] = "cancelled" /\ child[u] # "none" => Way(u) # "process"
    /\ at[u] = "dropped" /\ loop = "running" => ~Live(u)

Users(u) == {v \in Rivals(u) : Holds(v)}
Running(u) == {v \in Processes : v \in Rivals(u)}

SlotsKept ==
  \A u \in Units : /\ IsFiniteSet(Users(u))
                   /\ Cardinality(Users(u)) <= Slots[Semaphore(u)]

RunningKept ==
  \A u \in Units : u[2] # "put" =>
    /\ IsFiniteSet(Running(u))
    /\ Cardinality(Running(u)) <= Slots[Semaphore(u)]

\* From the teardown on, nothing is started.
Winding ==
  loop # "running" =>
    /\ \A u \in Units : at[u] \notin {"slot", "busy"}
    /\ \A j \in Jobs : job[j] # "run" /\ (job[j] = "new" => ~Created(j))
    /\ \A a \in Artifacts : stage[a] \in ArtifactEnded \/ a \in told

\* A job that has not begun has no unit, and one that has returned has ended
\* all of them; no upload precedes its artifact's.
Jobwise ==
  /\ \A u \in Units : u[2] # "put" =>
       /\ job[u[1]] = "new" => at[u] = "idle"
       /\ job[u[1]] \in JobEnded => at[u] \in UnitEnded \cup {"idle"}
  /\ \A u \in Units : u[2] = "put" /\ stage[Owner(u[1])] = "extract" => at[u] = "idle"

\* A unit is cancelled only with its artifact.
Loyal ==
  \A u \in Units :
    Owner(u[1]) \in told
      \/ stage[Owner(u[1])] \in ArtifactEnded
      \/ at[u] \notin {"after cancel", "cancelled again", "cancelled", "dropped"}

\* An artifact leaves a group when each job of it is done.
Gatherings ==
  \A a \in Artifacts :
    /\ \A i \in 1 .. Len(Groups[a]) : i < group[a] => \A j \in Groups[a][i] : job[j] = "done"
    /\ stage[a] \in {"upload", "done"} => \A j \in JobsOf(a) : job[j] = "done"
    /\ stage[a] = "upload" => \A j \in JobsOf(a) : Outputs(j) # {} => at[<<j, "put">>] # "idle"

MInv == /\ Typed /\ Staging /\ Orphans /\ SlotsKept /\ RunningKept
        /\ Winding /\ Jobwise /\ Loyal /\ Gatherings /\ DoneIsComplete
-----------------------------------------------------------------------------
(* Facts about the constants.                                              *)

\* A job has an owner, which is the artifact that gathers it.
LEMMA Owners ==
  /\ \A j \in Jobs : Owner(j) \in Artifacts /\ j \in JobsOf(Owner(j))
  /\ \A a \in Artifacts : \A j \in JobsOf(a) : j \in Jobs /\ Owner(j) = a
<1>1. ASSUME NEW j \in Jobs
      PROVE  Owner(j) \in Artifacts /\ j \in JobsOf(Owner(j))
  <2>1. \E a \in Artifacts : j \in JobsOf(a)
    BY <1>1 DEF Jobs
  <2> QED
    BY <2>1 DEF Owner
<1>2. ASSUME NEW a \in Artifacts, NEW j \in JobsOf(a)
      PROVE  j \in Jobs /\ Owner(j) = a
  <2>1. j \in Jobs
    BY <1>2 DEF Jobs
  <2>2. Owner(j) \in Artifacts /\ j \in JobsOf(Owner(j))
    BY <1>1, <2>1
  <2> QED
    BY <1>2, <2>1, <2>2, MediaAssumption
<1> QED
  BY <1>1, <1>2

\* The jobs of a group are jobs of the artifact.
LEMMA GroupJobs ==
  ASSUME NEW a \in Artifacts, NEW i \in 1 .. Len(Groups[a]), NEW j \in Groups[a][i]
  PROVE  j \in JobsOf(a) /\ j \in Jobs
<1>1. Groups[a] \in Seq(SUBSET Jobs)
  BY MediaAssumption
<1>2. i \in DOMAIN Groups[a]
  BY <1>1
<1> QED
  BY <1>2 DEF JobsOf, Jobs

\* A unit is a job and one of its steps.
LEMMA UnitIs ==
  ASSUME NEW u \in Units
  PROVE  /\ u = <<u[1], u[2]>>
         /\ u[1] \in Jobs /\ u[2] \in Steps(u[1])
         /\ Owner(u[1]) \in Artifacts /\ u[1] \in JobsOf(Owner(u[1]))
<1>1. PICK j \in Jobs : u \in {<<j, s>> : s \in Steps(j)}
  BY DEF Units
<1>2. PICK s \in Steps(j) : u = <<j, s>>
  BY <1>1
<1> QED
  BY <1>1, <1>2, Owners

\* A step of a job is a unit.
LEMMA UnitOf ==
  ASSUME NEW j \in Jobs, NEW s \in Steps(j)
  PROVE  <<j, s>> \in Units
  BY DEF Units

\* A unit has a semaphore, and that of uploads is theirs alone.
LEMMA Semaphores ==
  ASSUME NEW u \in Units
  PROVE  /\ Semaphore(u) \in DOMAIN Slots
         /\ Slots[Semaphore(u)] \in Nat \ {0}
         /\ Semaphore(u) = "put" <=> u[2] = "put"
<1>1. u[2] \in {"put", "decode", "mp3", "flac", "demux", "mp4"}
  BY UnitIs DEF Steps, Encodings
<1>2. Semaphore(u) \in {"put", "decode", "encode", "demux", "video"}
  BY <1>1 DEF Semaphore
<1>3. Semaphore(u) = "put" <=> u[2] = "put"
  BY <1>1 DEF Semaphore
<1> QED
  BY <1>2, <1>3, MediaAssumption

\* The rivals of a unit are each other's.
LEMMA RivalsAlike ==
  ASSUME NEW u \in Units, NEW v \in Units, v \in Rivals(u)
  PROVE  Rivals(u) = Rivals(v) /\ Semaphore(u) = Semaphore(v)
<1>1. /\ Semaphore(v) = Semaphore(u)
      /\ u[2] = "put" => Owner(v[1]) = Owner(u[1])
  BY DEF Rivals
<1>2. u[2] = "put" <=> v[2] = "put"
  BY <1>1, Semaphores
<1> QED
  BY <1>1, <1>2 DEF Rivals
-----------------------------------------------------------------------------
(* Slots.                                                                  *)

\* Users of a semaphore leave it, or one enters when there is room.
LEMMA UsersNext ==
  ASSUME SlotsKept, NEW u \in Units,
         \A v \in Units : Holds(v)' => Holds(v) \/ (v = u /\ SlotFree(u))
  PROVE  SlotsKept'
<1> SUFFICES ASSUME NEW w \in Units
             PROVE  /\ IsFiniteSet(Users(w)')
                    /\ Cardinality(Users(w)') <= Slots[Semaphore(w)]
  BY DEF SlotsKept
<1> DEFINE New == Users(w)'
<1>1. IsFiniteSet(Users(w)) /\ Cardinality(Users(w)) <= Slots[Semaphore(w)]
  BY DEF SlotsKept
<1>2. Cardinality(Users(w)) \in Nat /\ Slots[Semaphore(w)] \in Nat
  BY <1>1, FS_CardinalityType, Semaphores
<1>3. Rivals(w) \subseteq Units
  BY DEF Rivals
<1>4. CASE New \subseteq Users(w)
  <2>1. IsFiniteSet(New) /\ Cardinality(New) <= Cardinality(Users(w))
    BY <1>1, <1>4, FS_Subset
  <2>2. Cardinality(New) \in Nat
    BY <2>1, FS_CardinalityType
  <2> QED
    BY <1>1, <1>2, <2>1, <2>2
<1>5. CASE ~(New \subseteq Users(w))
  <2>1. PICK v \in New : v \notin Users(w)
    BY <1>5
  <2>2. v \in Rivals(w) /\ Holds(v)' /\ ~Holds(v)
    BY <2>1 DEF Users
  <2>3. v = u /\ SlotFree(u)
    BY <1>3, <2>2
  <2>4. Rivals(w) = Rivals(u) /\ Semaphore(w) = Semaphore(u)
    BY <2>2, <2>3, RivalsAlike
  <2>5. Users(w) = {x \in Rivals(u) : Holds(x)}
    BY <2>4 DEF Users
  <2>6. Cardinality(Users(w)) < Slots[Semaphore(w)]
    BY <2>3, <2>4, <2>5 DEF SlotFree
  <2>7. New \subseteq Users(w) \cup {u}
    BY <1>3 DEF Users
  <2>8. /\ IsFiniteSet(Users(w) \cup {u})
        /\ Cardinality(Users(w) \cup {u}) <= Cardinality(Users(w)) + 1
    BY <1>1, <1>2, FS_AddElement
  <2>9. /\ IsFiniteSet(New)
        /\ Cardinality(New) <= Cardinality(Users(w) \cup {u})
    BY <2>7, <2>8, FS_Subset
  <2>10. Cardinality(New) \in Nat /\ Cardinality(Users(w) \cup {u}) \in Nat
    BY <2>8, <2>9, FS_CardinalityType
  <2> QED
    BY <1>2, <2>6, <2>8, <2>9, <2>10
<1> QED
  BY <1>4, <1>5

\* Nobody enters.
LEMMA UsersLeave ==
  ASSUME SlotsKept, \A v \in Units : Holds(v)' => Holds(v)
  PROVE  SlotsKept'
<1>1. CASE Units = {}
  BY <1>1 DEF SlotsKept
<1>2. CASE \E u \in Units : TRUE
  BY <1>2, UsersNext
<1> QED
  BY <1>1, <1>2

\* While the loop runs, processes are those of units that hold a slot; later
\* on, none starts.
LEMMA RunningNext ==
  ASSUME RunningKept, Typed', Orphans', SlotsKept',
         \/ loop' = "running"
         \/ \A v \in Units : Live(v)' /\ Way(v)' = "process"
                               => Live(v) /\ Way(v) = "process"
  PROVE  RunningKept'
<1> SUFFICES ASSUME NEW u \in Units, u[2] # "put"
             PROVE  /\ IsFiniteSet(Running(u)')
                    /\ Cardinality(Running(u)') <= Slots[Semaphore(u)]
  BY DEF RunningKept
<1>1. Slots[Semaphore(u)] \in Nat
  BY Semaphores
<1>2. CASE loop' = "running"
  <2>1. ASSUME NEW v \in Units, Live(v)', Way(v)' = "process"
        PROVE  Holds(v)'
    <3>1. at'[v] \in {"idle", "slot", "busy"} \cup Reaping \cup UnitEnded
      BY DEF Typed
    <3>2. at'[v] \notin {"idle", "slot", "ok", "bad", "timeout"}
      BY <2>1 DEF Orphans, Live
    <3>3. at'[v] # "cancelled"
      BY <2>1 DEF Orphans, Live, Way
    <3>4. at'[v] # "dropped"
      BY <1>2, <2>1 DEF Orphans
    <3> QED
      BY <3>1, <3>2, <3>3, <3>4 DEF Holds, Reaping, UnitEnded
  <2>2. Running(u)' \subseteq Users(u)'
    BY <2>1 DEF Running, Users, Processes
  <2>3. IsFiniteSet(Users(u)') /\ Cardinality(Users(u)') <= Slots[Semaphore(u)]
    BY DEF SlotsKept
  <2>4. IsFiniteSet(Running(u)') /\ Cardinality(Running(u)') <= Cardinality(Users(u)')
    BY <2>2, <2>3, FS_Subset
  <2>5. Cardinality(Running(u)') \in Nat /\ Cardinality(Users(u)') \in Nat
    BY <2>3, <2>4, FS_CardinalityType
  <2> QED
    BY <1>1, <2>3, <2>4, <2>5
<1>3. CASE \A v \in Units : Live(v)' /\ Way(v)' = "process"
                               => Live(v) /\ Way(v) = "process"
  <2>1. Running(u)' \subseteq Running(u)
    BY <1>3 DEF Running, Processes
  <2>2. IsFiniteSet(Running(u)) /\ Cardinality(Running(u)) <= Slots[Semaphore(u)]
    BY DEF RunningKept
  <2>3. IsFiniteSet(Running(u)') /\ Cardinality(Running(u)') <= Cardinality(Running(u))
    BY <2>1, <2>2, FS_Subset
  <2>4. Cardinality(Running(u)') \in Nat /\ Cardinality(Running(u)) \in Nat
    BY <2>2, <2>3, FS_CardinalityType
  <2> QED
    BY <1>1, <2>2, <2>3, <2>4
<1> QED
  BY <1>2, <1>3
-----------------------------------------------------------------------------
(* A step of one unit.                                                     *)

AtWork == {"busy"} \cup Reaping
CancelledStates == {"after cancel", "cancelled again", "cancelled", "dropped"}

\* Only unit u moves.
OthersSame(u) ==
  /\ at' \in [Units -> {"idle", "slot", "busy"} \cup Reaping \cup UnitEnded]
  /\ left' \in [Units -> Seq(Ways)]
  /\ child' \in [Units -> {"none", "alive", "killed", "zero", "nonzero"}]
  /\ dir' \subseteq Units
  /\ \A v \in Units : v # u =>
       /\ at'[v] = at[v] /\ left'[v] = left[v] /\ child'[v] = child[v]
       /\ v \in dir' <=> v \in dir

\* How it moves: out of its slot's queue or its work, never back.
MovesOn(u) ==
  /\ at'[u] # at[u] => /\ at[u] \in {"slot"} \cup AtWork
                       /\ at'[u] \in AtWork \cup UnitEnded
  /\ at'[u] \in CancelledStates => at[u] \in CancelledStates
  /\ at'[u] = "busy" => at[u] \in {"slot", "busy"}
  /\ Holds(u)' => Holds(u) \/ SlotFree(u)

\* What it leaves: its directory and its child.
LeavesClean(u) ==
  /\ u \in dir' => ~Gone(u)
  /\ u \in dir' \ Undeletable => /\ at'[u] \in AtWork \cup {"dropped"}
                                 /\ at'[u] = "dropped" => u[2] = "mp4"
  /\ at'[u] \in {"ok", "bad", "timeout"} => child'[u] = "none"
  /\ at'[u] = "cancelled" /\ child'[u] # "none" => Way(u)' # "process"
  /\ at'[u] = "dropped" /\ loop = "running" => ~Live(u)'
  /\ Live(u)' => at'[u] = "busy" \/ (Live(u) /\ left'[u] = left[u])
  /\ child[u] = "none" => at'[u] = "busy" \/ child'[u] = "none"

\* A step of one unit that leaves what it held clean keeps the invariant.
LEMMA UnitKeeps ==
  ASSUME MInv, NEW u \in Units, OthersSame(u), MovesOn(u), LeavesClean(u),
         encoder' \in Encoders, UNCHANGED <<stage, group, told, job, loop>>
  PROVE  MInv'
<1> USE DEF MInv
<1>1. Typed'
  BY DEF Typed, OthersSame
<1>2. Staging'
  <2> SUFFICES ASSUME NEW v \in dir'
               PROVE  /\ ~Gone(v)'
                      /\ v \notin Undeletable =>
                           /\ at'[v] \in {"busy"} \cup Reaping \cup {"dropped"}
                           /\ at'[v] = "dropped" => v[2] = "mp4"
    BY DEF Staging
  <2>1. v \in Units /\ (Gone(v)' <=> Gone(v))
    BY DEF OthersSame, Gone, Ended
  <2>2. CASE v = u
    BY <2>1, <2>2 DEF LeavesClean, AtWork
  <2>3. CASE v # u
    BY <2>1, <2>3 DEF OthersSame, Staging
  <2> QED
    BY <2>2, <2>3
<1>3. Orphans'
  <2> SUFFICES ASSUME NEW v \in Units
               PROVE  /\ at'[v] \in {"idle", "slot", "ok", "bad", "timeout"}
                            => child'[v] = "none"
                      /\ at'[v] = "cancelled" /\ child'[v] # "none"
                            => Way(v)' # "process"
                      /\ at'[v] = "dropped" /\ loop' = "running" => ~Live(v)'
    BY DEF Orphans
  <2>1. CASE v # u
    BY <2>1 DEF OthersSame, Orphans, Way, Live
  <2>2. CASE v = u /\ at'[u] \in {"idle", "slot"}
    <3>1. at'[u] = at[u]
      BY <2>2 DEF MovesOn, AtWork, Reaping, UnitEnded
    <3>2. child[u] = "none"
      BY <2>2, <3>1 DEF Orphans
    <3> QED
      BY <2>2, <3>2 DEF LeavesClean
  <2>3. CASE v = u /\ at'[u] \notin {"idle", "slot"}
    BY <2>3 DEF LeavesClean
  <2> QED
    BY <2>1, <2>2, <2>3
<1>4. SlotsKept'
  <2>1. \A v \in Units : Holds(v)' => Holds(v) \/ (v = u /\ SlotFree(u))
    BY DEF OthersSame, MovesOn, Holds
  <2> QED
    BY <2>1, UsersNext
<1>5. RunningKept'
  <2>1. CASE loop = "running"
    BY <1>1, <1>3, <1>4, <2>1, RunningNext
  <2>2. CASE loop # "running"
    <3>1. at'[u] # "busy"
      BY <2>2 DEF Winding, MovesOn
    <3>2. Live(u)' => Live(u) /\ Way(u)' = Way(u)
      BY <3>1 DEF LeavesClean, Way
    <3>3. \A v \in Units : Live(v)' /\ Way(v)' = "process" => Live(v) /\ Way(v) = "process"
      BY <3>2 DEF OthersSame, Live, Way
    <3> QED
      BY <1>1, <1>3, <1>4, <3>3, RunningNext
  <2> QED
    BY <2>1, <2>2
<1>6. Winding'
  <2> SUFFICES ASSUME loop # "running"
               PROVE  \A v \in Units : at'[v] \notin {"slot", "busy"}
    BY DEF Winding, Created
  <2> QED
    BY DEF Winding, OthersSame, MovesOn, AtWork, Reaping, UnitEnded
<1>7. \A v \in Units : at[v] = "idle" <=> at'[v] = "idle"
  BY DEF OthersSame, MovesOn, AtWork, Reaping, UnitEnded
<1>8. \A v \in Units : at[v] \in UnitEnded => at'[v] = at[v]
  BY DEF OthersSame, MovesOn, AtWork, Reaping, UnitEnded
<1>9. Jobwise'
  BY <1>7, <1>8 DEF Jobwise
<1>10. Loyal'
  BY DEF Loyal, OthersSame, MovesOn, CancelledStates
<1>11. Gatherings'
  <2> SUFFICES ASSUME NEW a \in Artifacts, stage[a] = "upload", NEW j \in JobsOf(a),
                      Outputs(j)' # {}
               PROVE  at'[<<j, "put">>] # "idle"
    BY DEF Gatherings
  <2>1. j \in Jobs /\ job[j] = "done"
    BY Owners DEF Gatherings
  <2>2. \A v \in Units : v[1] = j /\ v[2] # "put" => at'[v] = at[v]
    BY <1>7, <1>8, <2>1 DEF Jobwise, JobEnded
  <2>3. Outputs(j)' \subseteq Outputs(j)
    BY <2>2 DEF Outputs, Begun
  <2>4. <<j, "put">> \in Units
    BY <2>1, UnitOf DEF Steps
  <2> QED
    BY <1>7, <2>3, <2>4 DEF Gatherings
<1>12. DoneIsComplete'
  <2> SUFFICES ASSUME NEW a \in Artifacts, stage[a] = "done", NEW v \in UnitsOf(a)
               PROVE  /\ ~Live(v)' /\ v \notin dir' \ Undeletable
                      /\ at'[v] \in {"idle", "ok", "bad", "timeout"}
                      /\ (v[2] # "put" /\ at'[v] = "ok" /\ v[2] # "demux")
                            => at'[<<v[1], "put">>] = "ok"
    BY DEF DoneIsComplete
  <2>1. ASSUME NEW w \in UnitsOf(a)
        PROVE  at'[w] = at[w]
    <3>1. w \in Units /\ at[w] \in {"idle", "ok", "bad", "timeout"}
      BY DEF DoneIsComplete, UnitsOf
    <3>2. at[w] = "idle" => at'[w] = "idle"
      BY <1>7, <3>1
    <3> QED
      BY <1>8, <3>1, <3>2 DEF UnitEnded
  <2>2. ~Live(v)' /\ v \notin dir' \ Undeletable
    <3>1. /\ v \in Units /\ at[v] \in {"idle", "ok", "bad", "timeout"}
          /\ ~Live(v) /\ v \notin dir \ Undeletable
      BY DEF DoneIsComplete, UnitsOf
    <3>2. CASE v # u
      BY <3>1, <3>2 DEF OthersSame, Live
    <3>3. CASE v = u
      BY <2>1, <3>1, <3>3 DEF LeavesClean, AtWork, Reaping
    <3> QED
      BY <3>2, <3>3
  <2>3. <<v[1], "put">> \in UnitsOf(a)
    BY UnitIs, UnitOf DEF UnitsOf, Steps
  <2> QED
    BY <2>1, <2>2, <2>3 DEF DoneIsComplete
<1> QED
  BY <1>1, <1>2, <1>3, <1>4, <1>5, <1>6, <1>9, <1>10, <1>11, <1>12
-----------------------------------------------------------------------------
(* The steps of a unit.                                                    *)

\* The ways of a unit are a nonempty sequence of ways.
LEMMA AttemptsAre ==
  ASSUME NEW u \in Units
  PROVE  Attempts(u) \in Seq(Ways) /\ Attempts(u) # << >>
<1>1. /\ <<"thread", "process">> \in Seq(Ways) /\ <<"thread">> \in Seq(Ways)
      /\ <<"process", "thread">> \in Seq(Ways) /\ <<"process">> \in Seq(Ways)
      /\ <<"pool">> \in Seq(Ways) /\ <<"process", "process">> \in Seq(Ways)
  BY DEF Ways
<1>2. Decoders \in Seq(Ways) /\ Decoders # << >>
  BY <1>1, MediaAssumption DEF Decoders
<1>3. Uploads \in Seq(Ways) /\ Uploads # << >>
  BY <1>1 DEF Uploads
<1> QED
  BY <1>1, <1>2, <1>3 DEF Attempts

\* The types of the units' variables.
LEMMA UnitTypes ==
  ASSUME Typed
  PROVE  /\ at \in [Units -> {"idle", "slot", "busy"} \cup Reaping \cup UnitEnded]
         /\ left \in [Units -> Seq(Ways)]
         /\ child \in [Units -> {"none", "alive", "killed", "zero", "nonzero"}]
         /\ dir \subseteq Units
         /\ encoder \in Encoders
  BY DEF Typed

\* The rest of several ways is not empty.
LEMMA TailLeft ==
  ASSUME NEW S, NEW s \in Seq(S), Len(s) > 1
  PROVE  Tail(s) \in Seq(S) /\ Tail(s) # << >>
<1>0. s # << >>
  BY EmptySeq
<1> DEFINE m == Len(s)
           n == Len(Tail(s))
<1>1. Tail(s) \in Seq(S) /\ n = m - 1
  BY <1>0, HeadTailProperties
<1>2. m \in Nat /\ m > 1
  BY LenProperties
<1>3. Tail(s) = << >> => n = 0
  BY EmptySeq
<1> HIDE DEF m, n
<1> QED
  BY <1>1, <1>2, <1>3

\* A unit that ends has no child, and a directory only where rmtree left it.
LEMMA EndUnitDoes ==
  ASSUME Typed, NEW u \in Units, NEW how \in UnitEnded, EndUnit(u, how)
  PROVE  /\ OthersSame(u) /\ at'[u] = how /\ child'[u] = "none"
         /\ u \in dir' => u \in dir /\ u \in Undeletable
<1>1. << >> \in Seq(Ways)
  OBVIOUS
<1> QED
  BY <1>1, UnitTypes DEF EndUnit, OthersSame, Cleaned

\* A unit that starts a way of working is busy, in a directory that can be made.
LEMMA LaunchDoes ==
  ASSUME Typed, NEW u \in Units, NEW ways \in Seq(Ways), Launch(u, ways)
  PROVE  /\ OthersSame(u) /\ at'[u] = "busy" /\ child'[u] = "alive"
         /\ u \in dir' => ~Gone(u) \/ u \in dir
  BY UnitTypes DEF Launch, OthersSame, Cleaned

\* Starting leaves the unit busy or failed.
LEMMA TryDoes ==
  ASSUME Typed, NEW u \in Units, NEW ways \in Seq(Ways), ways # << >>, Try(u, ways)
  PROVE  /\ OthersSame(u)
         /\ \/ at'[u] = "busy" /\ child'[u] = "alive" /\ (u \in dir' => ~Gone(u) \/ u \in dir)
            \/ /\ at'[u] = "bad" /\ child'[u] = "none"
               /\ u \in dir' => u \in dir /\ u \in Undeletable
<1>1. CASE Launch(u, ways)
  BY <1>1, LaunchDoes
<1>2. CASE Launch(u, Tail(ways))
  <2>1. Tail(ways) \in Seq(Ways)
    OBVIOUS
  <2> QED
    BY <1>2, <2>1, LaunchDoes
<1>3. CASE EndUnit(u, "bad")
  BY <1>3, EndUnitDoes DEF UnitEnded
<1> QED
  BY <1>1, <1>2, <1>3 DEF Try

\* Starting, from the queue for the slot or from an attempt that failed.
LEMMA TryKeeps ==
  ASSUME MInv, NEW u \in Units, NEW ways \in Seq(Ways), ways # << >>, Try(u, ways),
         at[u] = "busy" \/ (at[u] = "slot" /\ SlotFree(u)),
         encoder' \in Encoders, UNCHANGED <<stage, group, told, job, loop>>
  PROVE  MInv'
<1>1. /\ OthersSame(u)
      /\ \/ at'[u] = "busy" /\ child'[u] = "alive"
         \/ at'[u] = "bad" /\ child'[u] = "none" /\ u \notin dir' \ Undeletable
      /\ u \in dir' => ~Gone(u)
  BY TryDoes DEF MInv, Staging
<1>2. MovesOn(u)
  BY <1>1 DEF MovesOn, AtWork, UnitEnded, CancelledStates, Holds, Reaping
<1>3. LeavesClean(u)
  BY <1>1 DEF LeavesClean, AtWork, Live
<1> QED
  BY <1>1, <1>2, <1>3, UnitKeeps

\* A unit that takes its slot.
LEMMA EnterKeeps ==
  ASSUME MInv, NEW u \in Units, Enter(u) PROVE MInv'
<1>1. encoder' \in Encoders
  BY UnitTypes DEF Enter, MInv
<1> QED
  BY <1>1, AttemptsAre, TryKeeps DEF Enter

\* A unit that ends with a result it may have.
LEMMA EndKeeps ==
  ASSUME MInv, NEW u \in Units, NEW how \in UnitEnded, EndUnit(u, how),
         at[u] \in AtWork,
         how \in CancelledStates => at[u] \in CancelledStates,
         how = "dropped" => at[u] = "cancelled again",
         encoder' \in Encoders, UNCHANGED <<stage, group, told, job, loop>>
  PROVE  MInv'
<1>1. /\ OthersSame(u) /\ at'[u] = how /\ child'[u] = "none"
      /\ u \in dir' => ~Gone(u) /\ u \in Undeletable
  BY EndUnitDoes DEF MInv, Staging
<1>2. MovesOn(u)
  BY <1>1 DEF MovesOn, AtWork, UnitEnded, Holds, Reaping
<1>3. LeavesClean(u)
  BY <1>1 DEF LeavesClean, Live
<1> QED
  BY <1>1, <1>2, <1>3, UnitKeeps

\* A unit whose child did its work.
LEMMA SucceedKeeps ==
  ASSUME MInv, NEW u \in Units, Succeed(u) PROVE MInv'
<1>1. encoder' \in Encoders
  BY UnitTypes DEF Succeed, MInv
<1>2. PICK how \in {"ok", "bad"} : EndUnit(u, how)
  BY DEF Succeed
<1>3. how \in UnitEnded /\ how \notin CancelledStates /\ at[u] \in AtWork
  BY DEF UnitEnded, CancelledStates, AtWork, Succeed
<1>4. UNCHANGED <<stage, group, told, job, loop>> /\ how # "dropped"
  BY DEF Succeed
<1> QED
  BY <1>1, <1>2, <1>3, <1>4, EndKeeps

\* A unit whose child failed: the next way, or its end.
LEMMA FailKeeps ==
  ASSUME MInv, NEW u \in Units, Fail(u) PROVE MInv'
<1>1. /\ encoder' \in Encoders /\ at[u] = "busy"
      /\ UNCHANGED <<stage, group, told, job, loop>>
  BY UnitTypes DEF Fail, MInv, Encoders
<1>2. left[u] \in Seq(Ways)
  BY UnitTypes DEF MInv
<1>3. CASE Len(left[u]) > 1 /\ Try(u, Tail(left[u]))
  <2>1. Tail(left[u]) \in Seq(Ways) /\ Tail(left[u]) # << >>
    BY <1>2, <1>3, TailLeft
  <2> QED
    BY <1>1, <1>3, <2>1, TryKeeps
<1>4. CASE EndUnit(u, "bad")
  <2>1. "bad" \in UnitEnded /\ "bad" \notin CancelledStates /\ at[u] \in AtWork
    BY <1>1 DEF UnitEnded, CancelledStates, AtWork
  <2> QED
    BY <1>1, <1>4, <2>1, EndKeeps
<1> QED
  BY <1>3, <1>4 DEF Fail

\* A process that ends by itself.
LEMMA ExitKeeps ==
  ASSUME MInv, NEW u \in Units, Exit(u) PROVE MInv'
<1>1. /\ OthersSame(u) /\ encoder' \in Encoders
      /\ at' = at /\ left' = left /\ dir' = dir
      /\ child'[u] \in {"zero", "nonzero"} /\ Live(u)
      /\ UNCHANGED <<stage, group, told, job, loop>>
  BY UnitTypes DEF Exit, OthersSame, MInv, Live
<1>2. MovesOn(u)
  BY <1>1 DEF MovesOn, Holds
<1>3. LeavesClean(u)
  BY <1>1 DEF LeavesClean, MInv, Staging, Orphans, Way, Live, AtWork, Gone, Ended
<1> QED
  BY <1>1, <1>2, <1>3, UnitKeeps

\* A wait that times out: the unit goes on to reap.
LEMMA TimeOutKeeps ==
  ASSUME MInv, NEW u \in Units, TimeOut(u) PROVE MInv'
<1>1. /\ OthersSame(u) /\ encoder' \in Encoders
      /\ at[u] = "busy" /\ at'[u] = "after timeout"
      /\ left' = left /\ dir' = dir /\ child' = child
      /\ UNCHANGED <<stage, group, told, job, loop>>
  BY UnitTypes DEF TimeOut, OthersSame, MInv, Reaping
<1>2. MovesOn(u)
  BY <1>1 DEF MovesOn, Holds, AtWork, Reaping, CancelledStates
<1>3. LeavesClean(u)
  BY <1>1 DEF LeavesClean, MInv, Staging, AtWork, Gone, Ended, Live, Reaping
<1> QED
  BY <1>1, <1>2, <1>3, UnitKeeps

\* The grace period is over: SIGKILL.
LEMMA GraceKeeps ==
  ASSUME MInv, NEW u \in Units, Grace(u) PROVE MInv'
<1>1. /\ OthersSame(u) /\ encoder' \in Encoders
      /\ at' = at /\ left' = left /\ dir' = dir /\ at[u] \in Reaping
      /\ child[u] = "alive" /\ child'[u] = "killed"
      /\ UNCHANGED <<stage, group, told, job, loop>>
  BY UnitTypes DEF Grace, OthersSame, MInv
<1>2. MovesOn(u)
  BY <1>1 DEF MovesOn, Holds
<1>3. LeavesClean(u)
  BY <1>1 DEF LeavesClean, MInv, Staging, Live, AtWork, Gone, Ended, Reaping
<1> QED
  BY <1>1, <1>2, <1>3, UnitKeeps

\* A process that has ended is reaped and its slot given back.
LEMMA ReapedKeeps ==
  ASSUME MInv, NEW u \in Units, Reaped(u) PROVE MInv'
<1>1. /\ encoder' \in Encoders /\ at[u] \in Reaping /\ at[u] \in AtWork
      /\ child[u] \in {"zero", "nonzero"}
      /\ UNCHANGED <<stage, group, told, job, loop>>
  BY UnitTypes DEF Reaped, MInv, AtWork
<1>2. CASE at[u] = "after timeout" /\ EndUnit(u, "timeout")
  <2>1. "timeout" \in UnitEnded /\ "timeout" \notin CancelledStates
    BY DEF UnitEnded, CancelledStates
  <2> QED
    BY <1>1, <1>2, <2>1, EndKeeps
<1>3. CASE at[u] = "after cancel" /\ EndUnit(u, "cancelled")
  <2>1. "cancelled" \in UnitEnded /\ "after cancel" \in CancelledStates
    BY DEF UnitEnded, CancelledStates
  <2> QED
    BY <1>1, <1>3, <2>1, EndKeeps
<1>4. CASE at[u] = "cancelled again" /\ EndUnit(u, "dropped")
  <2>1. "dropped" \in UnitEnded /\ "cancelled again" \in CancelledStates
    BY DEF UnitEnded, CancelledStates
  <2> QED
    BY <1>1, <1>4, <2>1, EndKeeps
<1>5. CASE /\ at[u] = "cancelled again" /\ Kept(u)
           /\ at' = [at EXCEPT ![u] = "dropped"]
           /\ UNCHANGED <<left, child, dir>>
  <2>1. OthersSame(u) /\ at'[u] = "dropped"
    BY <1>5, UnitTypes DEF OthersSame, MInv, UnitEnded
  <2>2. MovesOn(u)
    BY <1>5, <2>1 DEF MovesOn, Holds, AtWork, Reaping, CancelledStates, UnitEnded
  <2>3. LeavesClean(u)
    BY <1>1, <1>5, <2>1 DEF LeavesClean, MInv, Staging, Live, AtWork, Gone, Ended, Kept
  <2> QED
    BY <1>1, <2>1, <2>2, <2>3, UnitKeeps
<1> QED
  BY <1>2, <1>3, <1>4, <1>5 DEF Reaped
-----------------------------------------------------------------------------
(* The steps of a job.                                                     *)

\* The units in U queue for their slots, and job j goes on to x.
Queues(U) == at' = [u \in Units |-> IF u \in U THEN "slot" ELSE at[u]]
Turns(j, x) == job' = [job EXCEPT ![j] = x]

\* Units queue for their slots, artifacts end, nothing else moves a unit.
LEMMA QueueKeeps ==
  ASSUME MInv, NEW U \in SUBSET Units, \A u \in U : at[u] = "idle",
         Queues(U),
         UNCHANGED <<told, left, child, encoder, loop>>,
         stage' \in [Artifacts -> {"extract", "upload"} \cup ArtifactEnded],
         group' \in [Artifacts -> Nat],
         \A a \in Artifacts : group'[a] \in 1 .. Len(Groups[a]),
         job' \in [Jobs -> {"new"} \cup Open \cup JobEnded],
         dir' \subseteq dir, \A u \in dir' : ~Gone(u)',
         \A a \in Artifacts : stage[a] \in ArtifactEnded => stage'[a] \in ArtifactEnded,
         Winding'
  PROVE  Typed' /\ Staging' /\ Orphans' /\ SlotsKept' /\ RunningKept' /\ Loyal'
<1> USE DEF MInv
<1>1. \A u \in Units : at'[u] = IF u \in U THEN "slot" ELSE at[u]
  BY DEF Queues
<1>2. \A u \in Units : at[u] # "idle" => at'[u] = at[u]
  BY <1>1
<1>3. Typed'
  <2>1. at' \in [Units -> {"idle", "slot", "busy"} \cup Reaping \cup UnitEnded]
    BY UnitTypes DEF Queues
  <2> QED
    BY <2>1 DEF Typed
<1>4. Staging'
  <2> SUFFICES ASSUME NEW v \in dir' \ Undeletable
               PROVE  /\ at'[v] \in {"busy"} \cup Reaping \cup {"dropped"}
                      /\ at'[v] = "dropped" => v[2] = "mp4"
    BY DEF Staging
  <2>1. v \in Units /\ v \in dir
    BY UnitTypes
  <2>2. at[v] \in {"busy"} \cup Reaping \cup {"dropped"} /\ (at[v] = "dropped" => v[2] = "mp4")
    BY <2>1 DEF Staging
  <2>3. at'[v] = at[v]
    BY <1>2, <2>1, <2>2 DEF Reaping
  <2> QED
    BY <2>2, <2>3
<1>5. Orphans'
  <2> SUFFICES ASSUME NEW v \in Units
               PROVE  /\ at'[v] \in {"idle", "slot", "ok", "bad", "timeout"}
                            => child'[v] = "none"
                      /\ at'[v] = "cancelled" /\ child'[v] # "none"
                            => Way(v)' # "process"
                      /\ at'[v] = "dropped" /\ loop' = "running" => ~Live(v)'
    BY DEF Orphans
  <2>1. child'[v] = child[v] /\ Way(v)' = Way(v) /\ (Live(v)' <=> Live(v))
    BY DEF Way, Live
  <2>2. CASE v \in U
    BY <1>1, <2>1, <2>2 DEF Orphans
  <2>3. CASE v \notin U
    BY <1>1, <2>1, <2>3 DEF Orphans
  <2> QED
    BY <2>2, <2>3
<1>6. SlotsKept'
  <2>1. \A v \in Units : Holds(v)' => Holds(v)
    BY <1>1 DEF Holds, Reaping
  <2> QED
    BY <2>1, UsersLeave
<1>7. RunningKept'
  <2>1. \A v \in Units : Live(v)' /\ Way(v)' = "process" => Live(v) /\ Way(v) = "process"
    BY DEF Live, Way
  <2> QED
    BY <1>3, <1>5, <1>6, <2>1, RunningNext
<1>8. Loyal'
  <2> SUFFICES ASSUME NEW v \in Units, Owner(v[1]) \notin told,
                      stage'[Owner(v[1])] \notin ArtifactEnded
               PROVE  at'[v] \notin {"after cancel", "cancelled again", "cancelled", "dropped"}
    BY DEF Loyal
  <2>1. at[v] \notin {"after cancel", "cancelled again", "cancelled", "dropped"}
    BY UnitIs DEF Loyal
  <2> QED
    BY <1>1, <2>1
<1> QED
  BY <1>3, <1>4, <1>5, <1>6, <1>7, <1>8

\* One job that has not returned goes on, and some of its units queue.
LEMMA JobKeeps ==
  ASSUME MInv, NEW j \in Jobs, job[j] \notin JobEnded,
         NEW x \in {"run"} \cup JobEnded, Turns(j, x),
         NEW U \in SUBSET Units,
         \A u \in U : u[1] = j /\ u[2] # "put" /\ at[u] = "idle",
         Queues(U),
         UNCHANGED <<stage, group, told, left, child, dir, encoder, loop>>,
         x = "run" => loop = "running",
         x \in JobEnded =>
           /\ U = {}
           /\ \A u \in Units : u[1] = j /\ u[2] # "put" => at[u] \in UnitEnded \cup {"idle"}
  PROVE  MInv'
<1> USE DEF MInv
<1>1. \A u \in Units : at'[u] = IF u \in U THEN "slot" ELSE at[u]
  BY DEF Queues
<1>2. /\ job \in [Jobs -> {"new"} \cup Open \cup JobEnded]
      /\ job' \in [Jobs -> {"new"} \cup Open \cup JobEnded]
      /\ job'[j] = x /\ \A k \in Jobs : k # j => job'[k] = job[k]
  BY DEF Typed, Open, Turns
<1>3. Winding'
  <2> SUFFICES ASSUME loop # "running"
               PROVE  /\ \A u \in Units : at'[u] \notin {"slot", "busy"}
                      /\ \A k \in Jobs : /\ job'[k] # "run"
                                         /\ job'[k] = "new" => ~Created(k)'
    BY DEF Winding
  <2>1. x \in JobEnded /\ U = {}
    OBVIOUS
  <2>2. \A u \in Units : at'[u] \notin {"slot", "busy"}
    BY <1>1, <2>1 DEF Winding
  <2>3. \A k \in Jobs : Created(k)' <=> Created(k)
    BY DEF Created
  <2>4. x \notin {"new", "run"}
    BY <2>1 DEF JobEnded
  <2> QED
    BY <1>2, <2>2, <2>3, <2>4 DEF Winding
<1>4. /\ stage' \in [Artifacts -> {"extract", "upload"} \cup ArtifactEnded]
      /\ group' \in [Artifacts -> Nat]
      /\ \A a \in Artifacts : group'[a] \in 1 .. Len(Groups[a])
  BY DEF Typed
<1>5. \A u \in dir' : ~Gone(u)'
  BY DEF Staging, Gone, Ended
<1>6. Typed' /\ Staging' /\ Orphans' /\ SlotsKept' /\ RunningKept' /\ Loyal'
  BY <1>2, <1>3, <1>4, <1>5, QueueKeeps
<1>7. Jobwise'
  <2>1. ASSUME NEW u \in Units, u[2] # "put"
        PROVE  /\ job'[u[1]] = "new" => at'[u] = "idle"
               /\ job'[u[1]] \in JobEnded => at'[u] \in UnitEnded \cup {"idle"}
    <3>1. u[1] \in Jobs
      BY UnitIs
    <3>2. CASE u[1] = j
      <4>1. x # "new"
        BY DEF JobEnded
      <4> QED
        BY <1>1, <1>2, <2>1, <3>2, <4>1
    <3>3. CASE u[1] # j
      BY <1>1, <1>2, <2>1, <3>1, <3>3 DEF Jobwise
    <3> QED
      BY <3>2, <3>3
  <2>2. ASSUME NEW u \in Units, u[2] = "put", stage[Owner(u[1])] = "extract"
        PROVE  at'[u] = "idle"
    BY <1>1, <2>2 DEF Jobwise
  <2> QED
    BY <2>1, <2>2 DEF Jobwise
<1>8. \A k \in Jobs : job[k] = "done" => k # j /\ job'[k] = "done"
  BY <1>2 DEF JobEnded
<1>9. ASSUME NEW a \in Artifacts, NEW k \in JobsOf(a), stage[a] \in {"upload", "done"}
      PROVE  /\ k \in Jobs /\ k # j /\ job'[k] = "done"
             /\ \A s \in Steps(k) : at'[<<k, s>>] = at[<<k, s>>]
  <2>1. k \in Jobs /\ job[k] = "done"
    BY <1>9, Owners DEF Gatherings
  <2>2. k # j /\ job'[k] = "done"
    BY <1>8, <2>1
  <2>3. \A s \in Steps(k) : <<k, s>> \notin U /\ <<k, s>> \in Units
    BY <2>1, <2>2, UnitOf
  <2> QED
    BY <1>1, <2>1, <2>2, <2>3
<1>10. Gatherings'
  <2> SUFFICES ASSUME NEW a \in Artifacts
               PROVE  /\ \A i \in 1 .. Len(Groups[a]) : i < group[a] =>
                           \A k \in Groups[a][i] : job'[k] = "done"
                      /\ stage[a] \in {"upload", "done"} => \A k \in JobsOf(a) : job'[k] = "done"
                      /\ stage[a] = "upload" => \A k \in JobsOf(a) :
                           Outputs(k)' # {} => at'[<<k, "put">>] # "idle"
    BY DEF Gatherings
  <2>1. ASSUME NEW i \in 1 .. Len(Groups[a]), i < group[a], NEW k \in Groups[a][i]
        PROVE  job'[k] = "done"
    <3>1. k \in Jobs
      BY GroupJobs
    <3> QED
      BY <1>8, <2>1, <3>1 DEF Gatherings
  <2>2. ASSUME stage[a] = "upload", NEW k \in JobsOf(a), Outputs(k)' # {}
        PROVE  at'[<<k, "put">>] # "idle"
    <3>1. \A s \in Steps(k) : at'[<<k, s>>] = at[<<k, s>>]
      BY <1>9, <2>2
    <3>2. Outputs(k)' \subseteq Outputs(k)
      BY <3>1, UnitIs DEF Outputs, Begun
    <3>3. at[<<k, "put">>] # "idle"
      BY <2>2, <3>2 DEF Gatherings
    <3> QED
      BY <3>1, <3>3 DEF Steps
  <2> QED
    BY <1>9, <2>1, <2>2
<1>11. DoneIsComplete'
  <2> SUFFICES ASSUME NEW a \in Artifacts, stage[a] = "done", NEW v \in UnitsOf(a)
               PROVE  /\ ~Live(v) /\ v \notin dir \ Undeletable
                      /\ at'[v] \in {"idle", "ok", "bad", "timeout"}
                      /\ (v[2] # "put" /\ at'[v] = "ok" /\ v[2] # "demux")
                            => at'[<<v[1], "put">>] = "ok"
    BY DEF DoneIsComplete, Live
  <2>1. v[1] \in JobsOf(a) /\ v = <<v[1], v[2]>> /\ v[2] \in Steps(v[1])
    BY UnitIs DEF UnitsOf
  <2>2. "put" \in Steps(v[1])
    BY DEF Steps
  <2>3. \A s \in Steps(v[1]) : at'[<<v[1], s>>] = at[<<v[1], s>>]
    BY <1>9, <2>1
  <2>4. at'[v] = at[v] /\ at'[<<v[1], "put">>] = at[<<v[1], "put">>]
    BY <2>1, <2>2, <2>3
  <2> QED
    BY <2>4 DEF DoneIsComplete
<1> QED
  BY <1>3, <1>6, <1>7, <1>10, <1>11

\* What the job's steps have in common when they queue no unit.
LEMMA JobEnds ==
  ASSUME MInv, NEW j \in Jobs, job[j] \notin JobEnded,
         NEW x \in JobEnded, Turns(j, x),
         UNCHANGED <<stage, group, told, at, left, child, dir, encoder, loop>>,
         \A u \in Units : u[1] = j /\ u[2] # "put" => at[u] \in UnitEnded \cup {"idle"}
  PROVE  MInv'
<1> DEFINE U == {}
<1>1. Queues(U)
  BY UnitTypes DEF MInv, Queues
<1>2. x \in {"run"} \cup JobEnded /\ (x = "run" => loop = "running")
  BY DEF JobEnded
<1>3. U \in SUBSET Units /\ U = {}
  OBVIOUS
<1> HIDE DEF U
<1> QED
  BY <1>1, <1>2, <1>3, JobKeeps

\* Units that have ended, of those that have begun.
LEMMA BegunEnded ==
  ASSUME NEW j \in Jobs, UnitsEnded(j), NEW u \in Units, u[1] = j, u[2] # "put"
  PROVE  at[u] \in UnitEnded \cup {"idle"}
  BY DEF UnitsEnded, Begun

\* A job's first units are created.
LEMMA BeginKeeps ==
  ASSUME MInv, NEW j \in Jobs, Begin(j) PROVE MInv'
<1>1. /\ job[j] = "new" /\ Created(j)
      /\ UNCHANGED <<stage, group, told, left, child, dir, encoder, loop>>
  BY DEF Begin
<1>2. PICK U \in FirstUnits(j) :
        Turns(j, "run") /\ Queues(U)
  BY DEF Begin, Turns, Queues
<1>3. \A u \in U : u \in Units /\ u[1] = j /\ u[2] # "put"
  BY <1>2, UnitOf DEF FirstUnits, Steps, Encodings
<1>4. \A u \in U : at[u] = "idle"
  BY <1>1, <1>3 DEF MInv, Jobwise
<1>5. loop = "running"
  BY <1>1 DEF MInv, Winding
<1>6. "new" \notin JobEnded /\ "run" \notin JobEnded /\ U \in SUBSET Units
  BY <1>3 DEF JobEnded
<1> QED
  BY <1>1, <1>2, <1>3, <1>4, <1>5, <1>6, JobKeeps

\* A file there is nothing to do for.
LEMMA SkipFileKeeps ==
  ASSUME MInv, NEW j \in Jobs, SkipFile(j) PROVE MInv'
<1>1. \A u \in Units : u[1] = j /\ u[2] # "put" => at[u] \in UnitEnded \cup {"idle"}
  BY DEF SkipFile, MInv, Jobwise
<1>2. "new" \notin JobEnded /\ "done" \in JobEnded
  BY DEF JobEnded
<1>3. /\ job[j] = "new"
      /\ \E x \in JobEnded : Turns(j, x)
      /\ UNCHANGED <<stage, group, told, at, left, child, dir, encoder, loop>>
  BY <1>2 DEF SkipFile, Turns
<1> QED
  BY <1>1, <1>2, <1>3, JobEnds

\* A job goes on to its next units.
LEMMA ContinueKeeps ==
  ASSUME MInv, NEW j \in Jobs, Continue(j) PROVE MInv'
<1>1. /\ job[j] = "run"
      /\ Queues(NextUnits(j))
      /\ UNCHANGED <<stage, group, told, job, left, child, dir, encoder, loop>>
  BY DEF Continue, Queues
<1>2. ASSUME NEW u \in NextUnits(j)
      PROVE  u \in Units /\ u[1] = j /\ u[2] # "put" /\ at[u] = "idle"
  <2>1. CASE Begun(j) = {<<j, "decode">>} /\ u \in {<<j, s>> : s \in Encodings(j)}
    <3>1. <<j, "decode">> \in Units
      BY <2>1 DEF Begun
    <3>2. "decode" \in Steps(j)
      BY <3>1, UnitIs
    <3>3. Encodings(j) \subseteq Steps(j)
      BY <3>2 DEF Steps
    <3>4. u \in Units /\ u[1] = j /\ u[2] \in {"mp3", "flac"}
      BY <2>1, <3>3, UnitOf DEF Encodings
    <3>5. u \notin Begun(j)
      BY <2>1, <3>4
    <3> QED
      BY <3>4, <3>5 DEF Begun
  <2>2. CASE Begun(j) = {<<j, "demux">>} /\ u = <<j, "mp4">>
    <3>1. <<j, "demux">> \in Units
      BY <2>2 DEF Begun
    <3>2. "demux" \in Steps(j)
      BY <3>1, UnitIs
    <3>3. "mp4" \in Steps(j)
      BY <3>2 DEF Steps, Encodings
    <3>4. u \in Units /\ u[1] = j /\ u[2] = "mp4"
      BY <2>2, <3>3, UnitOf
    <3>5. u \notin Begun(j)
      BY <2>2, <3>4
    <3> QED
      BY <3>4, <3>5 DEF Begun
  <2>3. u \in {<<j, s>> : s \in Encodings(j)} \/ u = <<j, "mp4">>
    BY <1>2 DEF NextUnits
  <2> QED
    BY <1>2, <2>1, <2>2 DEF NextUnits
<1>3. loop = "running"
  BY <1>1 DEF MInv, Winding
<1>4. Turns(j, "run")
  BY <1>1 DEF MInv, Typed, Turns
<1>5. "run" \notin JobEnded /\ NextUnits(j) \in SUBSET Units
  BY <1>2 DEF JobEnded
<1> QED
  BY <1>1, <1>2, <1>3, <1>4, <1>5, JobKeeps

\* A job returns when its units have ended.
LEMMA ReturnKeeps ==
  ASSUME MInv, NEW j \in Jobs, Return(j) PROVE MInv'
<1>1. \A u \in Units : u[1] = j /\ u[2] # "put" => at[u] \in UnitEnded \cup {"idle"}
  BY BegunEnded DEF Return
<1>2. "run" \notin JobEnded /\ "done" \in JobEnded /\ "timeout" \in JobEnded
  BY DEF JobEnded
<1>3. /\ job[j] = "run"
      /\ \E x \in JobEnded : Turns(j, x)
      /\ UNCHANGED <<stage, group, told, at, left, child, dir, encoder, loop>>
  BY <1>2 DEF Return, Turns
<1> QED
  BY <1>1, <1>2, <1>3, JobEnds

\* A cancelled job ends when its units have ended.
LEMMA RaiseCancelledKeeps ==
  ASSUME MInv, NEW j \in Jobs, RaiseCancelled(j) PROVE MInv'
<1>1. \A u \in Units : u[1] = j /\ u[2] # "put" => at[u] \in UnitEnded \cup {"idle"}
  BY BegunEnded DEF RaiseCancelled
<1>2. "told" \notin JobEnded /\ "cancelled" \in JobEnded
  BY DEF JobEnded
<1>3. /\ job[j] = "told"
      /\ \E x \in JobEnded : Turns(j, x)
      /\ UNCHANGED <<stage, group, told, at, left, child, dir, encoder, loop>>
  BY <1>2 DEF RaiseCancelled, Turns
<1> QED
  BY <1>1, <1>2, <1>3, JobEnds
-----------------------------------------------------------------------------
(* The steps of an artifact.                                               *)

\* An artifact moves; no job and no unit does, but uploads that begin.
LEMMA ArtifactKeeps ==
  ASSUME MInv, NEW U \in SUBSET Units,
         \A u \in U : u[2] = "put" /\ at[u] = "idle"
                      /\ stage[Owner(u[1])] = "extract" /\ stage'[Owner(u[1])] = "upload",
         Queues(U),
         UNCHANGED <<told, job, left, child, encoder, loop>>,
         stage' \in [Artifacts -> {"extract", "upload"} \cup ArtifactEnded],
         group' \in [Artifacts -> Nat],
         \A a \in Artifacts : group'[a] \in 1 .. Len(Groups[a]),
         dir' \subseteq dir, \A u \in dir' : ~Gone(u)',
         \A a \in Artifacts : stage[a] \in ArtifactEnded => stage'[a] = stage[a],
         \A a \in Artifacts : stage'[a] = "extract" => stage[a] = "extract",
         Winding', Gatherings',
         \A a \in Artifacts : stage'[a] = "done" /\ stage[a] # "done" =>
            /\ stage[a] = "upload" /\ a \notin told
            /\ \A u \in UnitsOf(a) : u[2] = "put" /\ at[u] # "idle" => at[u] = "ok"
  PROVE  MInv'
<1> USE DEF MInv
<1>1. \A u \in Units : at'[u] = IF u \in U THEN "slot" ELSE at[u]
  BY DEF Queues
<1>2. Typed' /\ Staging' /\ Orphans' /\ SlotsKept' /\ RunningKept' /\ Loyal'
  <2>1. job' \in [Jobs -> {"new"} \cup Open \cup JobEnded]
    BY DEF Typed
  <2> QED
    BY <2>1, QueueKeeps
<1>3. Jobwise'
  <2>1. ASSUME NEW u \in Units, u[2] # "put"
        PROVE  /\ job'[u[1]] = "new" => at'[u] = "idle"
               /\ job'[u[1]] \in JobEnded => at'[u] \in UnitEnded \cup {"idle"}
    BY <1>1, <2>1 DEF Jobwise
  <2>2. ASSUME NEW u \in Units, u[2] = "put", stage'[Owner(u[1])] = "extract"
        PROVE  at'[u] = "idle"
    BY <1>1, <2>2, UnitIs DEF Jobwise
  <2> QED
    BY <2>1, <2>2 DEF Jobwise
<1>4. DoneIsComplete'
  <2> SUFFICES ASSUME NEW a \in Artifacts, stage'[a] = "done", NEW v \in UnitsOf(a)
               PROVE  /\ ~Live(v) /\ v \notin dir' \ Undeletable
                      /\ at'[v] \in {"idle", "ok", "bad", "timeout"}
                      /\ (v[2] # "put" /\ at'[v] = "ok" /\ v[2] # "demux")
                            => at'[<<v[1], "put">>] = "ok"
    BY DEF DoneIsComplete, Live
  <2>1. \A w \in UnitsOf(a) : at'[w] = at[w]
    BY <1>1 DEF UnitsOf
  <2>2. /\ v \in Units /\ v[1] \in JobsOf(a) /\ v[1] \in Jobs /\ Owner(v[1]) = a
        /\ v = <<v[1], v[2]>> /\ v[2] \in Steps(v[1])
    BY UnitIs DEF UnitsOf
  <2>3. <<v[1], "put">> \in UnitsOf(a)
    BY <2>2, UnitOf DEF UnitsOf, Steps
  <2>4. CASE stage[a] = "done"
    BY <2>1, <2>3, <2>4 DEF DoneIsComplete
  <2>5. CASE stage[a] # "done"
    <3>1. /\ stage[a] = "upload" /\ a \notin told
          /\ \A u \in UnitsOf(a) : u[2] = "put" /\ at[u] # "idle" => at[u] = "ok"
      BY <2>5
    <3>2. job[v[1]] = "done" /\ (Outputs(v[1]) # {} => at[<<v[1], "put">>] # "idle")
      BY <2>2, <3>1 DEF Gatherings
    <3>3. at[v] \notin {"after cancel", "cancelled again", "cancelled", "dropped"}
      BY <2>2, <3>1 DEF Loyal, ArtifactEnded
    <3>4. at[v] \in {"idle", "ok", "bad", "timeout"}
      <4>1. CASE v[2] = "put"
        BY <2>2, <3>1, <4>1
      <4>2. CASE v[2] # "put"
        BY <2>2, <3>2, <3>3, <4>2 DEF Jobwise, JobEnded, UnitEnded
      <4> QED
        BY <4>1, <4>2
    <3>5. ~Live(v) /\ v \notin dir' \ Undeletable
      BY <2>2, <3>4 DEF Orphans, Live, Staging, Reaping
    <3>6. ASSUME v[2] # "put", at[v] = "ok", v[2] # "demux"
          PROVE  at[<<v[1], "put">>] = "ok"
      <4>1. v \in Outputs(v[1])
        BY <2>2, <3>6 DEF Outputs, Begun
      <4> QED
        BY <2>3, <3>1, <3>2, <4>1
    <3> QED
      BY <2>1, <2>3, <3>1, <3>4, <3>5, <3>6
  <2> QED
    BY <2>4, <2>5
<1> QED
  BY <1>2, <1>3, <1>4

\* Nothing queues.
LEMMA NoneQueues ==
  ASSUME MInv, at' = at PROVE Queues({})
  BY UnitTypes DEF MInv, Queues

\* An artifact ends; only its last upload makes it done.
LEMMA EndArtifactKeeps ==
  ASSUME MInv, NEW a \in Artifacts, NEW how \in ArtifactEnded,
         EndArtifact(a, how), stage[a] \notin ArtifactEnded,
         how = "done" => /\ stage[a] = "upload" /\ a \notin told
                         /\ \A u \in Puts(a) : at[u] = "ok"
  PROVE  MInv'
<1> USE DEF MInv
<1>1. /\ UNCHANGED <<group, told, job, at, left, child, encoder, loop>>
      /\ dir' \subseteq dir
      /\ Workspace[a] = "removed" => dir' = dir \ UnitsOf(a)
  BY MediaAssumption DEF EndArtifact, Removed
<1>2. /\ stage' \in [Artifacts -> {"extract", "upload"} \cup ArtifactEnded]
      /\ stage'[a] = how /\ \A b \in Artifacts : b # a => stage'[b] = stage[b]
  BY DEF EndArtifact, Typed
<1>3. ASSUME NEW u \in dir' PROVE ~Gone(u)'
  <2>1. u \in Units /\ u \in dir /\ Owner(u[1]) \in Artifacts
    BY <1>1, UnitIs, UnitTypes
  <2>2. Owner(u[1]) = a => Workspace[a] # "removed"
    BY <1>1, <2>1 DEF UnitsOf
  <2> QED
    BY <1>2, <2>1, <2>2 DEF Gone, Ended, WorkspaceOf, Staging
<1>4. \A b \in Artifacts : stage[b] \in ArtifactEnded => stage'[b] = stage[b]
  BY <1>2
<1>5. \A b \in Artifacts : stage'[b] = "extract" => stage[b] = "extract"
  BY <1>2 DEF ArtifactEnded
<1>6. Winding'
  <2>1. \A j \in Jobs : Created(j)' <=> Created(j)
    BY <1>1 DEF Created
  <2>2. \A b \in Artifacts : stage[b] \in ArtifactEnded => stage'[b] \in ArtifactEnded
    BY <1>2
  <2> QED
    BY <1>1, <2>1, <2>2 DEF Winding
<1>7. Gatherings'
  <2>1. ASSUME NEW b \in Artifacts
        PROVE  /\ stage'[b] = "upload" => stage[b] = "upload"
               /\ stage'[b] = "done" => stage[b] \in {"upload", "done"}
    BY <1>2 DEF ArtifactEnded
  <2>2. \A j \in Jobs : Outputs(j)' = Outputs(j)
    BY <1>1 DEF Outputs, Begun
  <2> QED
    BY <1>1, <2>1, <2>2, Owners DEF Gatherings
<1>8. \A b \in Artifacts : stage'[b] = "done" /\ stage[b] # "done" =>
         /\ stage[b] = "upload" /\ b \notin told
         /\ \A u \in UnitsOf(b) : u[2] = "put" /\ at[u] # "idle" => at[u] = "ok"
  BY <1>1, <1>2 DEF Puts
<1>9. Queues({}) /\ {} \in SUBSET Units
  BY <1>1, NoneQueues
<1>10. /\ group' \in [Artifacts -> Nat]
       /\ \A b \in Artifacts : group'[b] \in 1 .. Len(Groups[b])
  BY <1>1 DEF Typed
<1> QED
  BY <1>1, <1>2, <1>3, <1>4, <1>5, <1>6, <1>7, <1>8, <1>9, <1>10, ArtifactKeeps

\* The ways an artifact ends before its upload.
LEMMA GatherEndsKeeps ==
  ASSUME MInv, NEW a \in Artifacts,
         GatherRaises(a) \/ CancelledLate(a) \/ CleanupFails(a)
  PROVE  MInv'
<1>1. stage[a] = "extract"
  BY DEF GatherRaises, CancelledLate, CleanupFails, Current, Gathered
<1>2. EndArtifact(a, "failed") \/ EndArtifact(a, "cancelled")
  BY DEF GatherRaises, CancelledLate, CleanupFails
<1>3. /\ "failed" \in ArtifactEnded /\ "cancelled" \in ArtifactEnded
      /\ "extract" \notin ArtifactEnded
  BY DEF ArtifactEnded
<1> QED
  BY <1>1, <1>2, <1>3, EndArtifactKeeps

\* The uploads of an artifact have ended, and so does the artifact.
LEMMA EndUploadKeeps ==
  ASSUME MInv, NEW a \in Artifacts, EndUpload(a) PROVE MInv'
<1> DEFINE how == IF a \in told THEN "cancelled"
                  ELSE IF \E u \in Puts(a) : at[u] # "ok" THEN "failed" ELSE "done"
<1>1. stage[a] = "upload" /\ EndArtifact(a, how)
  BY DEF EndUpload
<1>2. how \in ArtifactEnded /\ "upload" \notin ArtifactEnded
  BY DEF ArtifactEnded
<1>3. how = "done" => a \notin told /\ \A u \in Puts(a) : at[u] = "ok"
  OBVIOUS
<1> HIDE DEF how
<1> QED
  BY <1>1, <1>2, <1>3, EndArtifactKeeps

\* The group an artifact gathers is one of its own.
LEMMA CurrentJobs ==
  ASSUME Typed, NEW a \in Artifacts, NEW j \in Current(a)
  PROVE  j \in JobsOf(a) /\ j \in Jobs /\ Owner(j) = a
<1>1. group[a] \in 1 .. Len(Groups[a]) /\ j \in Groups[a][group[a]]
  BY DEF Current, Typed
<1> QED
  BY <1>1, GroupJobs, Owners

\* The next group of jobs of an artifact.
LEMMA NextGroupKeeps ==
  ASSUME MInv, NEW a \in Artifacts, NextGroup(a) PROVE MInv'
<1> USE DEF MInv
<1>1. /\ UNCHANGED <<stage, told, job, at, left, child, dir, encoder, loop>>
      /\ Gathered(a) /\ a \notin told /\ stage[a] = "extract"
      /\ group[a] < Len(Groups[a])
  BY DEF NextGroup, Gathered
<1>2. Len(Groups[a]) \in Nat /\ group[a] \in 1 .. Len(Groups[a])
  BY MediaAssumption, LenProperties DEF Typed
<1>3. /\ group' \in [Artifacts -> Nat]
      /\ group'[a] = group[a] + 1 /\ \A b \in Artifacts : b # a => group'[b] = group[b]
  BY <1>2 DEF NextGroup, Typed
<1>4. ASSUME NEW b \in Artifacts PROVE group'[b] \in 1 .. Len(Groups[b])
  <2>1. group[a] + 1 \in 1 .. Len(Groups[a])
    BY <1>1, <1>2
  <2>2. b # a => group[b] \in 1 .. Len(Groups[b])
    BY DEF Typed
  <2> QED
    BY <1>3, <2>1, <2>2
<1>5. loop = "running"
  BY <1>1 DEF Winding, ArtifactEnded
<1>6. Winding'
  BY <1>1, <1>5 DEF Winding
<1>7. Gatherings'
  <2>1. ASSUME NEW b \in Artifacts, NEW i \in 1 .. Len(Groups[b]), i < group'[b],
               NEW j \in Groups[b][i]
        PROVE  job[j] = "done"
    <3>1. CASE i < group[b]
      BY <2>1, <3>1 DEF Gatherings
    <3>2. CASE ~(i < group[b])
      <4>1. b = a /\ i = group[a]
        BY <1>2, <1>3, <2>1, <3>2
      <4> QED
        BY <1>1, <2>1, <4>1 DEF Gathered, Current
    <3> QED
      BY <3>1, <3>2
  <2>2. \A j \in Jobs : Outputs(j)' = Outputs(j)
    BY <1>1 DEF Outputs, Begun
  <2> QED
    BY <1>1, <2>1, <2>2, Owners DEF Gatherings
<1>8. Queues({}) /\ {} \in SUBSET Units
  BY <1>1, NoneQueues
<1>9. \A u \in dir' : ~Gone(u)'
  BY <1>1 DEF Gone, Ended, Staging
<1>10. stage' \in [Artifacts -> {"extract", "upload"} \cup ArtifactEnded]
  BY <1>1 DEF Typed
<1> QED
  BY <1>1, <1>3, <1>4, <1>6, <1>7, <1>8, <1>9, <1>10, ArtifactKeeps

\* The uploads of what was made are created.
LEMMA StartUploadKeeps ==
  ASSUME MInv, NEW a \in Artifacts, StartUpload(a) PROVE MInv'
<1> USE DEF MInv
<1> DEFINE U == {u \in UnitsOf(a) : u[2] = "put" /\ Outputs(u[1]) # {}}
<1>1. /\ UNCHANGED <<group, told, job, left, child, dir, encoder, loop>>
      /\ Gathered(a) /\ a \notin told /\ stage[a] = "extract"
      /\ group[a] = Len(Groups[a])
  BY DEF StartUpload, Gathered
<1>2. /\ stage' \in [Artifacts -> {"extract", "upload"} \cup ArtifactEnded]
      /\ stage'[a] = "upload" /\ \A b \in Artifacts : b # a => stage'[b] = stage[b]
  BY DEF StartUpload, Typed
<1>3. Queues(U) /\ U \in SUBSET Units
  BY DEF StartUpload, Queues, UnitsOf
<1>4. ASSUME NEW u \in U
      PROVE  /\ u[2] = "put" /\ at[u] = "idle"
             /\ stage[Owner(u[1])] = "extract" /\ stage'[Owner(u[1])] = "upload"
  <2>1. u \in Units /\ u[2] = "put" /\ Owner(u[1]) = a
    BY DEF UnitsOf
  <2> QED
    BY <1>1, <1>2, <2>1 DEF Jobwise
<1>5. Winding'
  BY <1>1 DEF Winding, ArtifactEnded
<1>6. ASSUME NEW j \in JobsOf(a) PROVE job[j] = "done"
  <2>1. PICK i \in DOMAIN Groups[a] : j \in Groups[a][i]
    BY DEF JobsOf
  <2>2. i \in 1 .. Len(Groups[a]) /\ Len(Groups[a]) \in Nat
    BY MediaAssumption, LenProperties
  <2>3. CASE i < group[a]
    BY <2>1, <2>2, <2>3 DEF Gatherings
  <2>4. CASE ~(i < group[a])
    <3>1. i = group[a]
      BY <1>1, <2>2, <2>4
    <3> QED
      BY <1>1, <2>1, <3>1 DEF Gathered, Current
  <2> QED
    BY <2>3, <2>4
<1>7. \A v \in Units : v[2] # "put" => at'[v] = at[v]
  BY <1>3 DEF Queues
<1>8. \A j \in Jobs : Outputs(j)' = Outputs(j)
  BY <1>7 DEF Outputs, Begun
<1>9. Gatherings'
  <2> SUFFICES ASSUME NEW b \in Artifacts
               PROVE  /\ \A i \in 1 .. Len(Groups[b]) : i < group'[b] =>
                           \A j \in Groups[b][i] : job'[j] = "done"
                      /\ stage'[b] \in {"upload", "done"} => \A j \in JobsOf(b) : job'[j] = "done"
                      /\ stage'[b] = "upload" => \A j \in JobsOf(b) :
                           Outputs(j)' # {} => at'[<<j, "put">>] # "idle"
    BY DEF Gatherings
  <2>1. \A i \in 1 .. Len(Groups[b]) : i < group'[b] => \A j \in Groups[b][i] : job'[j] = "done"
    BY <1>1 DEF Gatherings
  <2>2. stage'[b] \in {"upload", "done"} => \A j \in JobsOf(b) : job'[j] = "done"
    BY <1>1, <1>2, <1>6 DEF Gatherings
  <2>3. ASSUME stage'[b] = "upload", NEW j \in JobsOf(b), Outputs(j)' # {}
        PROVE  at'[<<j, "put">>] # "idle"
    <3>1. j \in Jobs /\ Owner(j) = b /\ Outputs(j) # {}
      BY <1>8, <2>3, Owners
    <3>2. <<j, "put">> \in Units
      BY <3>1, UnitOf DEF Steps
    <3>3. CASE b = a
      <4>1. <<j, "put">> \in U
        BY <3>1, <3>2, <3>3 DEF UnitsOf
      <4> QED
        BY <1>3, <3>2, <4>1 DEF Queues
    <3>4. CASE b # a
      <4>1. at[<<j, "put">>] # "idle"
        BY <1>2, <2>3, <3>1, <3>4 DEF Gatherings
      <4> QED
        BY <1>3, <3>2, <4>1 DEF Queues
    <3> QED
      BY <3>3, <3>4
  <2> QED
    BY <2>1, <2>2, <2>3
<1>10. \A u \in dir' : ~Gone(u)'
  <2> SUFFICES ASSUME NEW u \in dir PROVE ~Gone(u)'
    BY <1>1
  <2>1. u \in Units /\ ~Gone(u) /\ Owner(u[1]) \in Artifacts
    BY UnitTypes, UnitIs DEF Staging
  <2> QED
    BY <1>2, <2>1 DEF Gone, Ended, ArtifactEnded
<1>11. /\ group' \in [Artifacts -> Nat]
       /\ \A b \in Artifacts : group'[b] \in 1 .. Len(Groups[b])
       /\ \A b \in Artifacts : stage[b] \in ArtifactEnded => stage'[b] = stage[b]
       /\ \A b \in Artifacts : stage'[b] = "extract" => stage[b] = "extract"
       /\ \A b \in Artifacts : ~(stage'[b] = "done" /\ stage[b] # "done")
  BY <1>1, <1>2 DEF Typed, ArtifactEnded
<1> HIDE DEF U
<1> QED
  BY <1>1, <1>2, <1>3, <1>4, <1>5, <1>9, <1>10, <1>11, ArtifactKeeps
-----------------------------------------------------------------------------
(* The run.                                                                *)

\* What a cancellation makes of unit v: a way out that keeps its process
\* only where it goes on to reap it, or lets it go.
Stops(v) ==
  \/ at'[v] = at[v]
  \/ at[v] = "busy" /\ at'[v] = "after cancel"
  \/ at[v] = "slot" /\ at'[v] = "cancelled"
  \/ at[v] = "busy" /\ at'[v] = "cancelled" /\ Way(v) # "process" /\ v \notin dir' \ Undeletable
  \/ at[v] \in Reaping /\ at'[v] = "cancelled again"
  \/ at[v] \in Reaping /\ at'[v] = "dropped" /\ loop' # "running"
     /\ (v \in dir' \ Undeletable => Kept(v))

\* Cancelling any units keeps what the invariant says of their artifacts and slots.
LEMMA CancelKeeps ==
  ASSUME MInv,
         at' \in [Units -> {"idle", "slot", "busy"} \cup Reaping \cup UnitEnded],
         \A v \in Units : Stops(v),
         \A v \in Units : at'[v] # at[v] => \/ Owner(v[1]) \in told'
                                            \/ stage[Owner(v[1])] \in ArtifactEnded,
         told \subseteq told', told' \subseteq Artifacts,
         job' \in [Jobs -> {"new"} \cup Open \cup JobEnded],
         \A j \in Jobs : \/ job'[j] = job[j]
                         \/ job[j] = "new" /\ job'[j] = "cancelled"
                         \/ job[j] = "run" /\ job'[j] = "told",
         UNCHANGED <<stage, group, left, child, encoder>>, dir' \subseteq dir,
         loop' \in {"running", "teardown", "closed"}, loop = "running", Winding'
  PROVE  MInv'
<1> USE DEF MInv
<1>1. Typed'
  BY DEF Typed
<1>2. Staging'
  <2> SUFFICES ASSUME NEW v \in dir'
               PROVE  /\ ~Gone(v)'
                      /\ v \notin Undeletable =>
                           /\ at'[v] \in {"busy"} \cup Reaping \cup {"dropped"}
                           /\ at'[v] = "dropped" => v[2] = "mp4"
    BY DEF Staging
  <2>1. /\ v \in dir /\ v \in Units /\ ~Gone(v)'
        /\ v \notin Undeletable => /\ at[v] \in {"busy"} \cup Reaping \cup {"dropped"}
                                   /\ at[v] = "dropped" => v[2] = "mp4"
    BY UnitTypes DEF Staging, Gone, Ended
  <2>2. Stops(v)
    BY <2>1
  <2> QED
    BY <2>1, <2>2 DEF Stops, Kept, Reaping
<1>3. Orphans'
  <2> SUFFICES ASSUME NEW v \in Units
               PROVE  /\ at'[v] \in {"idle", "slot", "ok", "bad", "timeout"}
                            => child'[v] = "none"
                      /\ at'[v] = "cancelled" /\ child'[v] # "none"
                            => Way(v)' # "process"
                      /\ at'[v] = "dropped" /\ loop' = "running" => ~Live(v)'
    BY DEF Orphans
  <2>1. child'[v] = child[v] /\ Way(v)' = Way(v) /\ (Live(v)' <=> Live(v))
    BY DEF Way, Live
  <2>2. Stops(v)
    OBVIOUS
  <2>3. /\ at[v] \in {"idle", "slot", "ok", "bad", "timeout"} => child[v] = "none"
        /\ at[v] = "cancelled" /\ child[v] # "none" => Way(v) # "process"
        /\ at[v] = "dropped" => ~Live(v)
    BY DEF Orphans
  <2> QED
    BY <2>1, <2>2, <2>3 DEF Stops
<1>4. SlotsKept'
  <2>1. ASSUME NEW v \in Units, Holds(v)' PROVE Holds(v)
    <3>1. Stops(v)
      OBVIOUS
    <3> QED
      BY <2>1, <3>1 DEF Stops, Holds, Reaping
  <2> QED
    BY <2>1, UsersLeave
<1>5. RunningKept'
  <2>1. \A v \in Units : Live(v)' /\ Way(v)' = "process" => Live(v) /\ Way(v) = "process"
    BY DEF Live, Way
  <2> QED
    BY <1>1, <1>3, <1>4, <2>1, RunningNext
<1>6. ASSUME NEW v \in Units, at[v] \in UnitEnded \cup {"idle"} PROVE at'[v] = at[v]
  <2>1. Stops(v)
    OBVIOUS
  <2> QED
    BY <1>6, <2>1 DEF Stops, UnitEnded, Reaping
<1>7. Jobwise'
  <2>1. ASSUME NEW u \in Units, u[2] # "put"
        PROVE  /\ job'[u[1]] = "new" => at'[u] = "idle"
               /\ job'[u[1]] \in JobEnded => at'[u] \in UnitEnded \cup {"idle"}
    <3>1. u[1] \in Jobs
      BY UnitIs
    <3>2. /\ job'[u[1]] = "new" => job[u[1]] = "new"
          /\ job'[u[1]] \in JobEnded => job[u[1]] \in JobEnded \cup {"new"}
      BY <3>1 DEF JobEnded
    <3>3. /\ job[u[1]] = "new" => at[u] = "idle"
          /\ job[u[1]] \in JobEnded => at[u] \in UnitEnded \cup {"idle"}
      BY <2>1 DEF Jobwise
    <3> QED
      BY <1>6, <3>2, <3>3
  <2>2. ASSUME NEW u \in Units, u[2] = "put", stage'[Owner(u[1])] = "extract"
        PROVE  at'[u] = "idle"
    BY <1>6, <2>2 DEF Jobwise
  <2> QED
    BY <2>1, <2>2 DEF Jobwise
<1>8. Loyal'
  BY DEF Loyal
<1>9. \A j \in Jobs : job[j] = "done" => job'[j] = "done"
  OBVIOUS
<1>10. Gatherings'
  <2> SUFFICES ASSUME NEW a \in Artifacts
               PROVE  /\ \A i \in 1 .. Len(Groups[a]) : i < group[a] =>
                           \A j \in Groups[a][i] : job'[j] = "done"
                      /\ stage[a] \in {"upload", "done"} => \A j \in JobsOf(a) : job'[j] = "done"
                      /\ stage[a] = "upload" => \A j \in JobsOf(a) :
                           Outputs(j)' # {} => at'[<<j, "put">>] # "idle"
    BY DEF Gatherings
  <2>1. ASSUME NEW i \in 1 .. Len(Groups[a]), i < group[a], NEW j \in Groups[a][i]
        PROVE  job'[j] = "done"
    <3>1. j \in Jobs
      BY GroupJobs
    <3> QED
      BY <1>9, <2>1, <3>1 DEF Gatherings
  <2>2. ASSUME stage[a] \in {"upload", "done"}, NEW j \in JobsOf(a) PROVE job'[j] = "done"
    BY <1>9, <2>2, Owners DEF Gatherings
  <2>3. ASSUME stage[a] = "upload", NEW j \in JobsOf(a), Outputs(j)' # {}
        PROVE  at'[<<j, "put">>] # "idle"
    <3>1. j \in Jobs /\ job[j] = "done"
      BY <2>3, Owners DEF Gatherings
    <3>2. \A v \in Units : v[1] = j /\ v[2] # "put" => at'[v] = at[v]
      BY <1>6, <3>1 DEF Jobwise, JobEnded
    <3>3. Outputs(j)' \subseteq Outputs(j)
      BY <3>2 DEF Outputs, Begun
    <3>4. <<j, "put">> \in Units /\ at[<<j, "put">>] # "idle"
      BY <2>3, <3>1, <3>3, UnitOf DEF Gatherings, Steps
    <3>5. Stops(<<j, "put">>)
      BY <3>4
    <3> QED
      BY <3>4, <3>5 DEF Stops
  <2> QED
    BY <2>1, <2>2, <2>3
<1>11. DoneIsComplete'
  <2> SUFFICES ASSUME NEW a \in Artifacts, stage[a] = "done", NEW v \in UnitsOf(a)
               PROVE  /\ ~Live(v) /\ v \notin dir' \ Undeletable
                      /\ at'[v] \in {"idle", "ok", "bad", "timeout"}
                      /\ (v[2] # "put" /\ at'[v] = "ok" /\ v[2] # "demux")
                            => at'[<<v[1], "put">>] = "ok"
    BY DEF DoneIsComplete, Live
  <2>1. ASSUME NEW w \in UnitsOf(a) PROVE at'[w] = at[w]
    <3>1. w \in Units /\ at[w] \in {"idle", "ok", "bad", "timeout"}
      BY DEF DoneIsComplete, UnitsOf
    <3> QED
      BY <1>6, <3>1 DEF UnitEnded
  <2>2. <<v[1], "put">> \in UnitsOf(a)
    BY UnitIs, UnitOf DEF UnitsOf, Steps
  <2> QED
    BY <2>1, <2>2 DEF DoneIsComplete
<1> QED
  BY <1>1, <1>2, <1>3, <1>4, <1>5, <1>7, <1>8, <1>10, <1>11

\* A cancelled job that has begun, or was about to, is told.
LEMMA CancelledJobs ==
  ASSUME Typed, NEW J \in SUBSET Jobs,
         job' = [j \in Jobs |-> IF j \in J THEN CancelledJob(j) ELSE job[j]]
  PROVE  /\ job' \in [Jobs -> {"new"} \cup Open \cup JobEnded]
         /\ \A j \in Jobs : \/ job'[j] = job[j]
                            \/ job[j] = "new" /\ job'[j] = "cancelled"
                            \/ job[j] = "run" /\ job'[j] = "told"
<1>1. ASSUME NEW j \in Jobs
      PROVE  /\ job'[j] \in {"new"} \cup Open \cup JobEnded
             /\ \/ job'[j] = job[j]
                \/ job[j] = "new" /\ job'[j] = "cancelled"
                \/ job[j] = "run" /\ job'[j] = "told"
  <2>1. job[j] \in {"new"} \cup Open \cup JobEnded
    BY DEF Typed
  <2>2. \/ CancelledJob(j) = job[j]
        \/ job[j] = "new" /\ CancelledJob(j) = "cancelled"
        \/ job[j] = "run" /\ CancelledJob(j) = "told"
    BY DEF CancelledJob
  <2>3. job'[j] = CancelledJob(j) \/ job'[j] = job[j]
    OBVIOUS
  <2> QED
    BY <2>1, <2>2, <2>3 DEF Open, JobEnded
<1> QED
  BY <1>1

\* The coroutine of a unit is told in one of these ways.
LEMMA CancelledUnits ==
  ASSUME Typed, NEW v \in Units
  PROVE  /\ CancelledUnit(v) \in {"idle", "slot", "busy"} \cup Reaping \cup UnitEnded
         /\ \/ CancelledUnit(v) = at[v]
            \/ at[v] = "busy" /\ Way(v) = "process" /\ CancelledUnit(v) = "after cancel"
            \/ at[v] = "slot" /\ CancelledUnit(v) = "cancelled"
            \/ at[v] = "busy" /\ Way(v) # "process" /\ CancelledUnit(v) = "cancelled"
            \/ at[v] \in Reaping /\ CancelledUnit(v) = "cancelled again"
         /\ CancelledUnit(v) \notin {"slot", "busy"}
<1>1. at[v] \in {"idle", "slot", "busy"} \cup Reaping \cup UnitEnded
  BY UnitTypes
<1>2. CASE at[v] = "busy"
  BY <1>2 DEF CancelledUnit, Reaping, UnitEnded
<1>3. CASE at[v] = "slot"
  BY <1>3 DEF CancelledUnit, Reaping, UnitEnded
<1>4. CASE at[v] \in Reaping
  BY <1>4 DEF CancelledUnit, Reaping
<1>5. CASE at[v] \in {"idle"} \cup UnitEnded
  BY <1>5 DEF CancelledUnit, Reaping, UnitEnded
<1> QED
  BY <1>1, <1>2, <1>3, <1>4, <1>5

\* The pipeline is cancelled, and with it every artifact under way.
LEMMA CancelRunKeeps ==
  ASSUME MInv, CancelRun PROVE MInv'
<1> USE DEF MInv
<1> DEFINE J == UNION {Current(a) : a \in told'}
           U == (UNION {Begun(j) : j \in J}) \cup (UNION {Puts(a) : a \in told'})
<1>1. /\ loop = "running" /\ loop' = "running" /\ told = {}
      /\ told' = {a \in Artifacts : stage[a] \notin ArtifactEnded}
      /\ job' = [j \in Jobs |-> IF j \in J THEN CancelledJob(j) ELSE job[j]]
      /\ at' = [u \in Units |-> IF u \in U THEN CancelledUnit(u) ELSE at[u]]
      /\ dir' = Cleaned({u \in U : at[u] = "busy" /\ Way(u) # "process"})
      /\ UNCHANGED <<stage, group, left, child, encoder>>
  BY DEF CancelRun, CancelUnits
<1>2. \A a \in told' : \A j \in Current(a) : j \in Jobs /\ Owner(j) = a
  BY <1>1, CurrentJobs
<1>3. J \in SUBSET Jobs
  BY <1>2
<1>4. ASSUME NEW u \in U PROVE u \in Units /\ Owner(u[1]) \in told'
  <2> DEFINE A == UNION {Begun(j) : j \in J}
             B == UNION {Puts(a) : a \in told'}
  <2>0. u \in A \/ u \in B
    <3>1. U = A \cup B
      OBVIOUS
    <3> HIDE DEF A, B, U
    <3> QED
      BY <3>1
  <2>1. CASE u \in A
    <3>1. PICK j \in J : u \in Begun(j)
      BY <2>1
    <3>2. PICK a \in told' : j \in Current(a)
      BY <3>1
    <3>3. u \in Units /\ u[1] = j
      BY <3>1 DEF Begun
    <3> QED
      BY <1>2, <3>2, <3>3
  <2>2. CASE u \in B
    BY <2>2 DEF Puts, UnitsOf
  <2> HIDE DEF A, B
  <2> QED
    BY <2>0, <2>1, <2>2
<1> HIDE DEF J, U
<1>5. at' \in [Units -> {"idle", "slot", "busy"} \cup Reaping \cup UnitEnded]
  BY <1>1, CancelledUnits, UnitTypes
<1>6. ASSUME NEW v \in Units PROVE Stops(v)
  <2>1. CASE v \notin U
    BY <1>1, <2>1 DEF Stops
  <2>2. CASE v \in U
    <3>1. at'[v] = CancelledUnit(v)
      BY <1>1, <2>2
    <3>2. at[v] = "busy" /\ Way(v) # "process" => v \notin dir' \ Undeletable
      BY <1>1, <2>2 DEF Cleaned
    <3> QED
      BY <3>1, <3>2, CancelledUnits DEF Stops
  <2> QED
    BY <2>1, <2>2
<1>7. \A v \in Units : at'[v] # at[v] => Owner(v[1]) \in told'
  BY <1>1, <1>4
<1>8. /\ job' \in [Jobs -> {"new"} \cup Open \cup JobEnded]
      /\ \A j \in Jobs : \/ job'[j] = job[j]
                         \/ job[j] = "new" /\ job'[j] = "cancelled"
                         \/ job[j] = "run" /\ job'[j] = "told"
  BY <1>1, <1>3, CancelledJobs
<1>9. Winding'
  BY <1>1 DEF Winding
<1>10. told \subseteq told' /\ told' \subseteq Artifacts /\ dir' \subseteq dir
  BY <1>1 DEF Cleaned
<1> QED
  BY <1>1, <1>5, <1>6, <1>7, <1>8, <1>9, <1>10, CancelKeeps

\* asyncio.run begins to cancel every task.
LEMMA TeardownKeeps ==
  ASSUME MInv, Teardown PROVE MInv'
<1> USE DEF MInv
<1>1. /\ loop = "running" /\ loop' = "teardown"
      /\ told' = told \cup {a \in Artifacts : stage[a] \notin ArtifactEnded}
      /\ job' = [j \in Jobs |-> CancelledJob(j)]
      /\ at' = [u \in Units |-> IF at[u] \in Reaping THEN "dropped" ELSE CancelledUnit(u)]
      /\ dir' = Cleaned({u \in Units : \/ at[u] = "busy" /\ Way(u) # "process"
                                       \/ at[u] \in Reaping /\ ~Kept(u)})
      /\ UNCHANGED <<stage, group, left, child, encoder>>
  BY DEF Teardown
<1>2. at' \in [Units -> {"idle", "slot", "busy"} \cup Reaping \cup UnitEnded]
  BY <1>1, CancelledUnits DEF UnitEnded
<1>3. ASSUME NEW v \in Units
      PROVE  Stops(v) /\ at'[v] \notin {"slot", "busy"}
  <2>1. CASE at[v] \in Reaping
    <3>1. at'[v] = "dropped" /\ (v \in dir' \ Undeletable => Kept(v))
      BY <1>1, <2>1 DEF Cleaned
    <3> QED
      BY <1>1, <2>1, <3>1 DEF Stops
  <2>2. CASE at[v] \notin Reaping
    <3>1. at'[v] = CancelledUnit(v)
      BY <1>1, <2>2
    <3>2. at[v] = "busy" /\ Way(v) # "process" => v \notin dir' \ Undeletable
      BY <1>1 DEF Cleaned
    <3> QED
      BY <2>2, <3>1, <3>2, CancelledUnits DEF Stops
  <2> QED
    BY <2>1, <2>2
<1>4. ASSUME NEW v \in Units
      PROVE  Owner(v[1]) \in told' \/ stage[Owner(v[1])] \in ArtifactEnded
  BY <1>1, UnitIs
<1>5. job' = [j \in Jobs |-> IF j \in Jobs THEN CancelledJob(j) ELSE job[j]]
  BY <1>1
<1>6. /\ job' \in [Jobs -> {"new"} \cup Open \cup JobEnded]
      /\ \A j \in Jobs : \/ job'[j] = job[j]
                         \/ job[j] = "new" /\ job'[j] = "cancelled"
                         \/ job[j] = "run" /\ job'[j] = "told"
  BY <1>5, CancelledJobs
<1>7. told \subseteq told' /\ told' \subseteq Artifacts /\ dir' \subseteq dir
  BY <1>1 DEF Typed, Cleaned
<1>8. Winding'
  <2>1. ASSUME NEW j \in Jobs
        PROVE  job'[j] # "run" /\ (job'[j] = "new" => ~Created(j)')
    <3>1. job'[j] = CancelledJob(j)
      BY <1>1
    <3>2. Created(j)' <=> Created(j)
      BY <1>1 DEF Created
    <3> QED
      BY <3>1, <3>2 DEF CancelledJob
  <2>2. \A a \in Artifacts : stage'[a] \in ArtifactEnded \/ a \in told'
    BY <1>1
  <2> QED
    BY <1>3, <2>1, <2>2 DEF Winding
<1> QED
  BY <1>1, <1>2, <1>3, <1>4, <1>6, <1>7, <1>8, CancelKeeps

\* The loop closes; what it still waited for is let go.
LEMMA CloseKeeps ==
  ASSUME MInv, Close PROVE MInv'
<1> USE DEF MInv
<1>1. /\ loop = "teardown" /\ loop' = "closed"
      /\ stage' = stage /\ group' = group /\ told' = told /\ job' = job /\ at' = at
      /\ left' = left /\ child' = child /\ dir' = dir /\ encoder' = encoder
  BY DEF Close
<1>2. Typed' /\ Jobwise' /\ Loyal'
  BY <1>1 DEF Typed, Jobwise, Loyal
<1>3. Staging'
  BY <1>1 DEF Staging, Gone, Ended
<1>4. Orphans'
  BY <1>1 DEF Orphans, Way, Live
<1>5. SlotsKept'
  <2>1. \A v \in Units : Holds(v)' => Holds(v)
    BY <1>1 DEF Holds
  <2> QED
    BY <2>1, UsersLeave
<1>6. RunningKept'
  <2>1. \A v \in Units : Live(v)' /\ Way(v)' = "process" => Live(v) /\ Way(v) = "process"
    BY <1>1 DEF Live, Way
  <2> QED
    BY <1>2, <1>4, <1>5, <2>1, RunningNext
<1>7. Winding'
  <2>1. \A j \in Jobs : Created(j)' <=> Created(j)
    BY <1>1 DEF Created
  <2> QED
    BY <1>1, <2>1 DEF Winding
<1>8. Gatherings'
  <2>1. \A j : Outputs(j)' = Outputs(j)
    BY <1>1 DEF Outputs, Begun
  <2> QED
    BY <1>1, <2>1 DEF Gatherings
<1>9. DoneIsComplete'
  BY <1>1 DEF DoneIsComplete, Live
<1> QED
  BY <1>2, <1>3, <1>4, <1>5, <1>6, <1>7, <1>8, <1>9
-----------------------------------------------------------------------------
(* The invariant.                                                          *)

\* The loop is closed when every artifact has ended.
Shut == loop = "closed" => \A a \in Artifacts : stage[a] \in ArtifactEnded

\* The invariant holds at the start.
LEMMA InitInv == Init => MInv /\ Shut
<1> SUFFICES ASSUME Init PROVE MInv /\ Shut
  OBVIOUS
<1> USE DEF Init
<1>1. \A a \in Artifacts : Len(Groups[a]) \in Nat \ {0}
  BY MediaAssumption, EmptySeq
<1>2. << >> \in Seq(Ways)
  OBVIOUS
<1>3. Typed
  BY <1>1, <1>2 DEF Typed
<1>4. \A u \in Units : ~Holds(u) /\ ~Live(u)
  BY DEF Holds, Live, Reaping
<1>5. SlotsKept
  <2> SUFFICES ASSUME NEW u \in Units
               PROVE  /\ IsFiniteSet(Users(u))
                      /\ Cardinality(Users(u)) <= Slots[Semaphore(u)]
    BY DEF SlotsKept
  <2>1. Users(u) = {}
    BY <1>4 DEF Users, Rivals
  <2> QED
    BY <2>1, FS_EmptySet, Semaphores
<1>6. RunningKept
  <2> SUFFICES ASSUME NEW u \in Units
               PROVE  /\ IsFiniteSet(Running(u))
                      /\ Cardinality(Running(u)) <= Slots[Semaphore(u)]
    BY DEF RunningKept
  <2>1. Running(u) = {}
    BY <1>4 DEF Running, Processes
  <2> QED
    BY <2>1, FS_EmptySet, Semaphores
<1>7. Staging /\ Winding /\ Shut
  BY DEF Staging, Winding, Shut
<1>8. Orphans /\ Loyal
  BY DEF Orphans, Loyal
<1>9. Jobwise
  BY UnitIs DEF Jobwise, JobEnded
<1>10. Gatherings
  <2> SUFFICES ASSUME NEW a \in Artifacts, NEW i \in 1 .. Len(Groups[a]), i < group[a]
               PROVE  FALSE
    BY DEF Gatherings
  <2> QED
    BY <1>1
<1>11. DoneIsComplete
  BY DEF DoneIsComplete
<1> QED
  BY <1>3, <1>5, <1>6, <1>7, <1>8, <1>9, <1>10, <1>11 DEF MInv

\* Every step keeps the invariant.
LEMMA NextInv == MInv /\ [Next]_vars => MInv'
<1> SUFFICES ASSUME MInv, [Next]_vars PROVE MInv'
  OBVIOUS
<1>1. CASE \E u \in Units : UnitStep(u) \/ Exit(u)
  BY <1>1, EnterKeeps, SucceedKeeps, FailKeeps, TimeOutKeeps, GraceKeeps, ReapedKeeps,
     ExitKeeps DEF UnitStep
<1>2. CASE \E j \in Jobs : JobStep(j)
  BY <1>2, BeginKeeps, SkipFileKeeps, ContinueKeeps, ReturnKeeps, RaiseCancelledKeeps
     DEF JobStep
<1>3. CASE \E a \in Artifacts : ArtifactStep(a)
  BY <1>3, NextGroupKeeps, GatherEndsKeeps, StartUploadKeeps, EndUploadKeeps
     DEF ArtifactStep
<1>4. CASE CancelRun \/ Teardown \/ Close
  BY <1>4, CancelRunKeeps, TeardownKeeps, CloseKeeps
<1>5. CASE UNCHANGED vars
  <2>1. /\ UNCHANGED <<told, left, child, encoder, loop, at, stage, group, job, dir>>
    BY <1>5 DEF vars
  <2>2. Typed' /\ Staging' /\ Orphans' /\ Jobwise' /\ Loyal'
    BY <2>1 DEF MInv, Typed, Staging, Gone, Ended, Orphans, Live, Way, Jobwise, Loyal
  <2>3. SlotsKept' /\ RunningKept'
    <3>1. \A u \in Units : Users(u)' = Users(u) /\ Running(u)' = Running(u)
      BY <2>1 DEF Users, Holds, Running, Processes, Live, Way
    <3> QED
      BY <3>1 DEF MInv, SlotsKept, RunningKept
  <2>4. Winding' /\ Gatherings' /\ DoneIsComplete'
    <3>1. \A j \in Jobs : /\ Created(j)' <=> Created(j)
                          /\ Outputs(j)' = Outputs(j)
      BY <2>1 DEF Created, Outputs, Begun
    <3> QED
      BY <2>1, <3>1, Owners DEF MInv, Winding, Gatherings, DoneIsComplete, Live
  <2> QED
    BY <2>2, <2>3, <2>4 DEF MInv
<1> QED
  BY <1>1, <1>2, <1>3, <1>4, <1>5 DEF Next

\* Artifacts stay ended, and the loop closes on ended artifacts only.
LEMMA NextShut == MInv /\ Shut /\ [Next]_vars => Shut'
<1> SUFFICES ASSUME MInv, Shut, [Next]_vars PROVE Shut'
  OBVIOUS
<1>1. stage \in [Artifacts -> {"extract", "upload"} \cup ArtifactEnded]
  BY DEF MInv, Typed
<1>2. CASE Close
  BY <1>2 DEF Close, Shut
<1>3. CASE UNCHANGED <<stage, loop>>
  BY <1>3 DEF Shut
<1>4. CASE CancelRun \/ Teardown
  BY <1>4 DEF CancelRun, Teardown, Shut
<1>5. CASE \E a \in Artifacts : ArtifactStep(a)
  <2>1. PICK a \in Artifacts : ArtifactStep(a)
    BY <1>5
  <2>2. CASE NextGroup(a)
    BY <1>3, <2>2 DEF NextGroup
  <2>3. CASE StartUpload(a)
    BY <2>3 DEF StartUpload, Gathered, Shut, ArtifactEnded
  <2>4. CASE \E how \in ArtifactEnded : EndArtifact(a, how)
    BY <1>1, <2>4 DEF EndArtifact, Shut
  <2>5. CASE GatherRaises(a) \/ CancelledLate(a) \/ CleanupFails(a) \/ EndUpload(a)
    <3>1. EndArtifact(a, "failed") \/ EndArtifact(a, "cancelled") \/ EndArtifact(a, "done")
      BY <2>5 DEF GatherRaises, CancelledLate, CleanupFails, EndUpload
    <3> QED
      BY <2>4, <3>1 DEF ArtifactEnded
  <2> QED
    BY <2>1, <2>2, <2>3, <2>5 DEF ArtifactStep
<1>6. CASE \E u \in Units : UnitStep(u) \/ Exit(u)
  BY <1>3, <1>6 DEF UnitStep, Enter, Succeed, Fail, TimeOut, Grace, Reaped, Exit
<1>7. CASE \E j \in Jobs : JobStep(j)
  BY <1>3, <1>7 DEF JobStep, Begin, SkipFile, Continue, Return, RaiseCancelled
<1>8. CASE UNCHANGED vars
  BY <1>3, <1>8 DEF vars
<1> QED
  BY <1>2, <1>4, <1>5, <1>6, <1>7, <1>8 DEF Next

\* The invariant holds in every state: units, jobs and artifacts go through
\* their coroutines as above.
THEOREM MediaInvariance == Spec => [](MInv /\ Shut)
<1>1. MInv /\ Shut /\ [Next]_vars => (MInv /\ Shut)'
  BY NextInv, NextShut
<1> QED
  BY InitInv, <1>1, PTL DEF Spec

\* Type correctness.
THEOREM MediaTypes == Spec => []TypeOK
<1>1. MInv => TypeOK
  <2> SUFFICES ASSUME Typed PROVE TypeOK
    BY DEF MInv
  <2>1. \A a \in Artifacts : group[a] \in DOMAIN Groups[a]
    BY MediaAssumption DEF Typed
  <2> QED
    BY <2>1 DEF Typed, TypeOK
<1> QED
  BY <1>1, MediaInvariance, PTL

\* However jobs fail, time out and are cancelled, there are never more external
\* processes of a kind than its semaphore allows (external_process.py), not
\* even when the teardown lets go of those being terminated.
THEOREM ProcessesBounded == Spec => []ChildrenBounded
<1>1. MInv => ChildrenBounded
  BY DEF MInv, RunningKept, Running, ChildrenBounded
<1> QED
  BY <1>1, MediaInvariance, PTL

\* Staging directories go with the unit that made them, but those rmtree leaves
\* and a transcode's whose termination is cancelled; when the run is over, such a
\* one is left only in a persistent workspace (pipeline/__init__.py), or where the
\* removal of the artifact's own directory failed.
THEOREM StagingCleared == Spec => []StagingRemoved
<1>1. MInv /\ Shut => StagingRemoved
  <2> SUFFICES ASSUME MInv, Shut PROVE StagingRemoved
    OBVIOUS
  <2>1. \A u \in dir \ Undeletable : at[u] \in UnitEnded => at[u] = "dropped" /\ u[2] = "mp4"
    BY DEF MInv, Staging, Reaping, UnitEnded
  <2>2. ASSUME loop = "closed", NEW u \in dir PROVE WorkspaceOf(u) # "removed"
    <3>1. u \in Units /\ Owner(u[1]) \in Artifacts /\ ~Gone(u)
      BY UnitIs DEF MInv, Typed, Staging
    <3> QED
      BY <2>2, <3>1 DEF Shut, Gone, Ended
  <2> QED
    BY <2>1, <2>2 DEF StagingRemoved
<1> QED
  BY <1>1, MediaInvariance, PTL

\* An artifact is done only when nothing works on it and every output of its
\* jobs is whole and uploaded, whatever was cancelled meanwhile.
THEOREM DoneArtifacts == Spec => []DoneIsComplete
<1>1. MInv => DoneIsComplete
  BY DEF MInv
<1> QED
  BY <1>1, MediaInvariance, PTL
=============================================================================
