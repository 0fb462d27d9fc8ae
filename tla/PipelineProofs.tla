--------------------------- MODULE PipelineProofs ---------------------------
(***************************************************************************)
(* What run_pipeline guarantees for every list of items and every number   *)
(* of workers.  The inductive invariant places each unresolved item in     *)
(* exactly one queue or worker, ties the booked progress to that place,    *)
(* and ties every temporary file to the place of the item it belongs to.   *)
(***************************************************************************)
EXTENDS Pipeline, FiniteSetTheorems, SequenceTheorems, TLAPS

\* The items of a queue, and that none is in it twice.
ItemsOf(q) == ToSet(q) \ {Sentinel}

Distinct(q) == \A j, k \in DOMAIN q : q[j] = q[k] /\ q[j] # Sentinel => j = k

\* The steps of the program of each stage.
StagePcs(s) ==
  CASE s = "download" -> {"idle", "reserve", "fetch", "put_extract", "exited", "dead", "cancelled"}
    [] s = "extract" -> {"idle", "claimed", "extract", "put_upload", "cleanup", "exited", "cancelled"}
    [] s = "upload" -> {"idle", "upload", "exited", "cancelled"}

\* The workers have been cancelled and unwind; the run has ended otherwise than by
\* returning.
Cancelling == main \in {"cancelling", "abandoning"}
Raised == main \in {"aborted", "abandoned"}

\* A second cancellation has made the run lose its drain for good.
Forsaken == main \in {"abandoning", "abandoned"}

\* Each worker runs the program of its stage, holds an item exactly while it
\* works on one, and is cancelled by nobody but the cancelling run.
WorkersInv ==
  /\ \A s \in Stages : \A w \in StageWorkers(s) : pc[w] \in StagePcs(s)
  /\ \A w \in Workers : pc[w] \in {"idle", "exited"} => item[w] = NoItem
  /\ \A w \in Workers : pc[w] = "dead" => item[w] \in Undeletable
  /\ \A w \in Workers : pc[w] = "cancelled" => Cancelling \/ Raised

\* No item is at two places.
Once ==
  /\ \A s \in Stages : Distinct(queue[s])
  /\ \A v, w \in Workers : item[v] = item[w] /\ item[v] # NoItem => v = w
  /\ \A w \in Workers, s \in Stages : item[w] \notin ItemsOf(queue[s])

\* An unresolved item is at some place.
Somewhere ==
  ~Raised =>
    \A i \in Items : \/ progress[i] \in Outcomes
                     \/ \E s \in Stages : i \in ItemsOf(queue[s])
                     \/ \E w \in Workers : item[w] = i

PublishedExact == published = {i \in Items : progress[i] = "succeeded"}

\* Who answers for a temporary bundle: a worker still on its way to removing it,
\* the extract queue, or a worker that was cut on that way; nobody, if the item
\* waits for extraction in a run that will not drain its queues.
BundleOwned(i) ==
  \/ i \in Undeletable
  \/ i \in ItemsOf(queue["extract"])
  \/ \E w \in Workers :
       /\ item[w] = i
       /\ \/ pc[w] \in {"reserve", "fetch", "put_extract", "claimed", "extract", "cleanup"}
          \/ /\ pc[w] = "cancelled"
             /\ progress[i] \in {"download_running", "extract_running", "failed"}
  \/ Forsaken /\ progress[i] = "extract_waiting"

StagingOwned(i) ==
  \/ i \in Unremovable
  \/ i \in ItemsOf(queue["upload"])
  \/ \E w \in Workers :
       /\ item[w] = i
       /\ \/ pc[w] \in {"extract", "put_upload", "cleanup", "upload"}
          \/ pc[w] = "cancelled" /\ progress[i] \in {"extract_running", "failed"}

FilesOwned ==
  /\ \A i \in tempBundle : BundleOwned(i)
  /\ \A i \in staging : StagingOwned(i)

\* Where run_pipeline can be once it has joined stage s, while it is not stopped.
AfterJoin(s) ==
  CASE s = "download" -> {"extracts", "uploads", "gather", "completed"}
    [] s = "extract" -> {"uploads", "gather", "completed"}
    [] s = "upload" -> {"gather", "completed"}

\* A joined stage stays drained; at the end every worker is gone.
Joined ==
  /\ \A s \in Stages : main \in AfterJoin(s) =>
       /\ queue[s] = <<>>
       /\ \A w \in StageWorkers(s) : pc[w] \in {"idle", "exited", "dead"}
  /\ main = "completed" => \A w \in Workers : pc[w] = "exited"
  /\ Raised => AllGone
  /\ main = "aborted" => queue["extract"] = <<>> /\ queue["upload"] = <<>>

IInv ==
  /\ TypeOK /\ WorkersInv /\ Once /\ ProgressTracksWork
  /\ Somewhere /\ FailedTasksExact /\ PublishedExact
  /\ FilesOwned /\ Joined
-----------------------------------------------------------------------------
(* The queues as sequences.                                                *)

\* The sequence without its k-th entry.
LEMMA RemoveAtEntries ==
  ASSUME NEW S, NEW q \in Seq(S), NEW k \in 1..Len(q)
  PROVE  /\ RemoveAt(q, k) \in Seq(S) /\ Len(RemoveAt(q, k)) = Len(q) - 1
         /\ \A j \in 1..(Len(q) - 1) : RemoveAt(q, k)[j] = IF j < k THEN q[j] ELSE q[j + 1]
<1> DEFINE a == SubSeq(q, 1, k - 1)
           b == SubSeq(q, k + 1, Len(q))
<1>1. Len(q) \in Nat /\ k \in Nat /\ k >= 1 /\ k <= Len(q)
  OBVIOUS
<1>2. /\ a \in Seq(S) /\ Len(a) = k - 1
      /\ \A j \in 1..(k - 1) : a[j] = q[j]
  <2>1. \A j \in 1..(k - 1) : q[j] \in S
    BY <1>1, ElementOfSeq
  <2> QED BY <1>1, <2>1, SubSeqProperties
<1>3. /\ b \in Seq(S) /\ Len(b) = Len(q) - k
      /\ \A j \in 1..(Len(q) - k) : b[j] = q[k + j]
  <2>1. \A j \in (k + 1)..Len(q) : q[j] \in S
    BY <1>1, ElementOfSeq
  <2>2. /\ b \in Seq(S) /\ Len(b) = IF k + 1 <= Len(q) THEN Len(q) - (k + 1) + 1 ELSE 0
        /\ \A j \in 1..(Len(q) - (k + 1) + 1) : b[j] = q[(k + 1) + j - 1]
    BY <1>1, <2>1, SubSeqProperties
  <2> HIDE DEF b
  <2> QED BY <1>1, <2>2
<1> HIDE DEF a, b
<1>4. /\ a \o b \in Seq(S) /\ Len(a \o b) = Len(a) + Len(b)
      /\ \A j \in 1..(Len(a) + Len(b)) : (a \o b)[j] = IF j <= Len(a) THEN a[j] ELSE b[j - Len(a)]
  BY <1>2, <1>3, ConcatProperties
<1>5. /\ Len(a \o b) = Len(q) - 1
      /\ \A j \in 1..(Len(q) - 1) : (a \o b)[j] = IF j < k THEN q[j] ELSE q[j + 1]
  BY <1>1, <1>2, <1>3, <1>4
<1> QED BY <1>4, <1>5 DEF RemoveAt, a, b

\* Taking the k-th entry out of a queue takes that item out and nothing else.
LEMMA RemoveItems ==
  ASSUME NEW q \in Seq(Items \cup {Sentinel}), NEW k \in DOMAIN q, Distinct(q)
  PROVE  /\ RemoveAt(q, k) \in Seq(Items \cup {Sentinel})
         /\ ItemsOf(RemoveAt(q, k)) = ItemsOf(q) \ {q[k]}
         /\ Distinct(RemoveAt(q, k))
<1> DEFINE r == RemoveAt(q, k)
<1>1. k \in 1..Len(q) /\ Len(q) \in Nat
  OBVIOUS
<1>2. r \in Seq(Items \cup {Sentinel}) /\ Len(r) = Len(q) - 1
  BY <1>1, RemoveAtEntries
<1>3. \A j \in 1..Len(r) : r[j] = IF j < k THEN q[j] ELSE q[j + 1]
  BY <1>1, <1>2, RemoveAtEntries
<1>4. DOMAIN r = 1..Len(r) /\ DOMAIN q = 1..Len(q)
  BY <1>2
<1> HIDE DEF r
<1>5. \A j \in DOMAIN r : \E l \in DOMAIN q : l # k /\ r[j] = q[l]
  BY <1>1, <1>2, <1>3, <1>4
<1>6. \A l \in DOMAIN q : l # k => \E j \in DOMAIN r : r[j] = q[l]
  <2> SUFFICES ASSUME NEW l \in DOMAIN q, l # k PROVE \E j \in DOMAIN r : r[j] = q[l]
    OBVIOUS
  <2>1. CASE l < k
    BY <2>1, <1>1, <1>2, <1>3, <1>4
  <2>2. CASE l > k
    <3>1. l - 1 \in DOMAIN r /\ ~(l - 1 < k) /\ (l - 1) + 1 = l
      BY <2>2, <1>1, <1>2, <1>4
    <3> QED BY <3>1, <1>3, <1>4
  <2> QED BY <2>1, <2>2, <1>1, <1>4
<1>7. ItemsOf(r) = ItemsOf(q) \ {q[k]}
  BY <1>5, <1>6 DEF ItemsOf, ToSet, Distinct
<1>8. Distinct(r)
  <2> SUFFICES ASSUME NEW i \in DOMAIN r, NEW j \in DOMAIN r, r[i] = r[j], r[i] # Sentinel
               PROVE  i = j
    BY DEF Distinct
  <2> DEFINE at(n) == IF n < k THEN n ELSE n + 1
  <2>1. at(i) \in DOMAIN q /\ at(j) \in DOMAIN q
    BY <1>1, <1>2, <1>4
  <2>2. r[i] = q[at(i)] /\ r[j] = q[at(j)]
    BY <1>3, <1>4
  <2>3. at(i) = at(j)
    BY <2>1, <2>2 DEF Distinct
  <2> QED BY <2>3, <1>1, <1>2, <1>4
<1> QED BY <1>2, <1>7, <1>8 DEF r

\* The head is the first entry.
LEMMA TailItems ==
  ASSUME NEW q \in Seq(Items \cup {Sentinel}), q # <<>>, Distinct(q)
  PROVE  /\ Tail(q) \in Seq(Items \cup {Sentinel})
         /\ 1 \in DOMAIN q /\ Head(q) = q[1] /\ Tail(q) = RemoveAt(q, 1)
         /\ ItemsOf(Tail(q)) = ItemsOf(q) \ {Head(q)}
         /\ Distinct(Tail(q))
<1>1. 1 \in DOMAIN q /\ Head(q) = q[1] /\ Len(q) \in Nat /\ Len(q) >= 1
  OBVIOUS
<1>2. Tail(q) \in Seq(Items \cup {Sentinel}) /\ Len(Tail(q)) = Len(q) - 1
  BY <1>1
<1>3. RemoveAt(q, 1) \in Seq(Items \cup {Sentinel}) /\ Len(RemoveAt(q, 1)) = Len(q) - 1
  BY <1>1, RemoveAtEntries
<1>4. \A j \in 1..(Len(q) - 1) : Tail(q)[j] = RemoveAt(q, 1)[j]
  <2>1. \A j \in 1..(Len(q) - 1) : RemoveAt(q, 1)[j] = q[j + 1]
    BY <1>1, RemoveAtEntries
  <2> QED BY <1>1, <1>2, <2>1, HeadTailProperties
<1>5. Tail(q) = RemoveAt(q, 1)
  BY <1>2, <1>3, <1>4, SeqEqual
<1> QED BY <1>1, <1>5, RemoveItems

\* Appending an item the queue does not have, or a sentinel.
LEMMA AppendItems ==
  ASSUME NEW q \in Seq(Items \cup {Sentinel}), Distinct(q),
         NEW i \in Items \cup {Sentinel}, i \notin ItemsOf(q)
  PROVE  /\ Append(q, i) \in Seq(Items \cup {Sentinel})
         /\ ItemsOf(Append(q, i)) = ItemsOf(q) \cup ({i} \ {Sentinel})
         /\ Distinct(Append(q, i))
<1> DEFINE r == Append(q, i)
<1>1. r \in Seq(Items \cup {Sentinel}) /\ Len(r) = Len(q) + 1 /\ Len(q) \in Nat
  OBVIOUS
<1>2. /\ \A j \in DOMAIN q : j \in DOMAIN r /\ r[j] = q[j]
      /\ Len(q) + 1 \in DOMAIN r /\ r[Len(q) + 1] = i
      /\ \A j \in DOMAIN r : j \in DOMAIN q \/ j = Len(q) + 1
  BY <1>1
<1> HIDE DEF r
<1>3. ItemsOf(r) = ItemsOf(q) \cup ({i} \ {Sentinel})
  BY <1>2 DEF ItemsOf, ToSet
<1>4. \A j \in DOMAIN q : q[j] # Sentinel => q[j] # i
  BY DEF ItemsOf, ToSet
<1>5. Distinct(r)
  BY <1>2, <1>4 DEF Distinct
<1> QED BY <1>1, <1>3, <1>5 DEF r
-----------------------------------------------------------------------------
(* Types.                                                                  *)

\* The workers of a stage are workers, and there are finitely many of them.
LEMMA StageWorkersType ==
  \A s \in Stages : StageWorkers(s) \subseteq Workers /\ Cardinality(StageWorkers(s)) \in Nat
<1>1. \A s \in Stages : StageWorkers(s) \subseteq Workers
  BY DEF Stages, StageWorkers, Workers
<1>2. ASSUME NEW s \in Stages PROVE Cardinality(StageWorkers(s)) \in Nat
  BY <1>1, PipelineAssumption, FS_Subset, FS_CardinalityType
<1> QED BY <1>1, <1>2

\* The initial state has its types.
LEMMA InitType == Init => TypeOK
<1> SUFFICES ASSUME Init PROVE TypeOK
  OBVIOUS
<1>1. extractQueue \in {"plain", "open", "closed"} /\ sentinels \in Nat
  BY PipelineAssumption DEF Init
<1>2. Cardinality(Downloaders) \in Nat /\ NItems \in Nat
  BY StageWorkersType, PipelineAssumption DEF Stages, StageWorkers
<1>3. queue \in [Stages -> Seq(Items \cup {Sentinel})]
  <2> DEFINE q(k) == IF k <= NItems THEN k ELSE Sentinel
             n == NItems + Cardinality(Downloaders)
  <2>1. n \in Nat /\ \A k \in 1..n : q(k) \in Items \cup {Sentinel}
    BY <1>2 DEF Items
  <2>2. [k \in 1..n |-> q(k)] \in Seq(Items \cup {Sentinel})
    <3> HIDE DEF n, q
    <3> QED BY <2>1, IsASeq
  <2>3. <<>> \in Seq(Items \cup {Sentinel})
    OBVIOUS
  <2> QED BY <2>2, <2>3 DEF Init
<1>4. pc \in [Workers -> Pcs] /\ item \in [Workers -> Items \cup {NoItem}]
  BY DEF Init, Pcs
<1>5. \A w \in Workers : pc[w] \in Working => item[w] \in Items
  BY DEF Init, Working, Pcs
<1>6. progress \in [Items -> StageStates \cup Outcomes] /\ failedTasks \in Seq(Items)
  BY DEF Init, StageStates
<1> QED BY <1>1, <1>3, <1>4, <1>5, <1>6 DEF Init, TypeOK

\* A step of worker w to p with item i keeps the types of pc and item.
LEMMA AtType ==
  ASSUME TypeOK, NEW w \in Workers, NEW p \in Pcs, NEW i \in Items \cup {NoItem},
         p \in Working => i \in Items, At(w, p, i)
  PROVE  /\ pc' \in [Workers -> Pcs] /\ item' \in [Workers -> Items \cup {NoItem}]
         /\ \A v \in Workers : pc'[v] \in Working => item'[v] \in Items
         /\ pc'[w] = p /\ item'[w] = i
         /\ \A v \in Workers \ {w} : pc'[v] = pc[v] /\ item'[v] = item[v]
BY DEF TypeOK, At

\* Booking a transition or an outcome keeps the type of progress and touches no
\* other item.
LEMMA BookType ==
  ASSUME TypeOK, NEW i \in Items
  PROVE  /\ \A e \in StageStates, n \in StageStates :
              /\ Transition(i, e, n) \in [Items -> StageStates \cup Outcomes]
              /\ Transition(i, e, n)[i] = IF progress[i] = e THEN n ELSE progress[i]
              /\ \A j \in Items \ {i} : Transition(i, e, n)[j] = progress[j]
         /\ \A o \in Outcomes :
              /\ Finish(i, o) \in [Items -> StageStates \cup Outcomes]
              /\ Finish(i, o)[i] = IF progress[i] \in Outcomes THEN progress[i] ELSE o
              /\ \A j \in Items \ {i} : Finish(i, o)[j] = progress[j]
BY DEF TypeOK, Transition, Finish

\* The new queue of stage s keeps the type of queue.
LEMMA QueueType ==
  ASSUME TypeOK, NEW s \in Stages, NEW q \in Seq(Items \cup {Sentinel}),
         queue' = [queue EXCEPT ![s] = q]
  PROVE  /\ queue' \in [Stages -> Seq(Items \cup {Sentinel})]
         /\ queue'[s] = q /\ \A t \in Stages \ {s} : queue'[t] = queue[t]
BY DEF TypeOK
-----------------------------------------------------------------------------
(* One step of one worker, as far as the places of the items go.           *)

\* Worker w makes a step that concerns item i alone; NoItem stands for none.
Touches(w, i) ==
  /\ \A v \in Workers \ {w} :
       pc'[v] = pc[v] /\ item'[v] = item[v] /\ (item[v] = i => i = NoItem)
  /\ item[w] \in {i, NoItem} /\ item'[w] \in {i, NoItem}
  /\ \A j \in Items \ {i} : progress'[j] = progress[j]
  /\ \A s \in Stages :
       Distinct(queue'[s]) /\ ItemsOf(queue'[s]) \ {i} = ItemsOf(queue[s]) \ {i}
  /\ main' = main

\* The step leaves item i at one place at most, booked as that place demands.
Lands(w, i) ==
  /\ pc'[w] \in Working => item'[w] = i /\ progress'[i] = PhaseOf(pc'[w])
  /\ pc'[w] \in {"idle", "exited"} => item'[w] = NoItem
  /\ item'[w] # NoItem => \A s \in Stages : i \notin ItemsOf(queue'[s])
  /\ \A s \in Stages : i \in ItemsOf(queue'[s]) => progress'[i] = WaitingState(s)
  /\ i \in Items => \/ progress'[i] \in Outcomes
                    \/ item'[w] = i
                    \/ \E s \in Stages : i \in ItemsOf(queue'[s])

\* ProgressTracksWork, in terms of the items of the queues.
LEMMA QueuesTracked ==
  (\A s \in Stages : \A k \in DOMAIN queue[s] :
       queue[s][k] # Sentinel => progress[queue[s][k]] = WaitingState(s))
  <=> \A s \in Stages : \A i \in ItemsOf(queue[s]) : progress[i] = WaitingState(s)
BY DEF ItemsOf, ToSet

\* Only items are in the queues, apart from the sentinels.
LEMMA ItemsOfType ==
  TypeOK => \A s \in Stages : ItemsOf(queue[s]) \subseteq Items /\ NoItem \notin ItemsOf(queue[s])
<1> SUFFICES ASSUME TypeOK, NEW s \in Stages
             PROVE  ItemsOf(queue[s]) \subseteq Items /\ NoItem \notin ItemsOf(queue[s])
  OBVIOUS
<1>1. queue[s] \in Seq(Items \cup {Sentinel})
  BY DEF TypeOK
<1>2. \A k \in DOMAIN queue[s] : queue[s][k] \in Items \cup {Sentinel}
  BY <1>1
<1> QED BY <1>2 DEF ItemsOf, ToSet, Sentinel, NoItem

\* Such a step keeps every item at one place, and its progress true.
LEMMA StepPlaces ==
  ASSUME IInv, TypeOK', NEW w \in Workers, NEW i \in Items \cup {NoItem},
         Touches(w, i), Lands(w, i)
  PROVE  Once' /\ ProgressTracksWork' /\ Somewhere'
<1>1. \A s \in Stages : NoItem \notin ItemsOf(queue'[s])
  BY DEF ItemsOf, Sentinel, NoItem
<1>2. NoItem \notin Items
  BY PipelineAssumption DEF Items, NoItem
<1>3. Once'
  <2>1. \A s \in Stages : Distinct(queue'[s])
    BY DEF Touches
  <2>2. ASSUME NEW u \in Workers, NEW v \in Workers, item'[u] = item'[v], item'[v] # NoItem
        PROVE  u = v
    <3>1. CASE u # w /\ v # w
      BY <2>2, <3>1 DEF Touches, IInv, Once
    <3>2. CASE u = w /\ v # w
      BY <2>2, <3>2 DEF Touches
    <3>3. CASE u # w /\ v = w
      BY <2>2, <3>3 DEF Touches
    <3> QED BY <3>1, <3>2, <3>3
  <2>3. ASSUME NEW v \in Workers, NEW s \in Stages PROVE item'[v] \notin ItemsOf(queue'[s])
    <3>1. CASE v = w
      BY <3>1, <1>1 DEF Touches, Lands
    <3>2. CASE v # w
      <4>1. item'[v] = item[v] /\ (item[v] = i => item[v] = NoItem)
        BY <3>2 DEF Touches
      <4>2. item[v] \notin ItemsOf(queue[s])
        BY DEF IInv, Once
      <4> QED BY <4>1, <4>2, <1>1 DEF Touches
    <3> QED BY <3>1, <3>2
  <2> QED BY <2>1, <2>2, <2>3 DEF Once
<1>4. ProgressTracksWork'
  <2>1. ASSUME NEW v \in Workers, pc'[v] \in Working
        PROVE  progress'[item'[v]] = PhaseOf(pc'[v])
    <3>1. CASE v = w
      BY <3>1, <2>1 DEF Lands
    <3>2. CASE v # w
      <4>1. /\ pc'[v] = pc[v] /\ item'[v] = item[v] /\ item'[v] \in Items
            /\ (item[v] = i => i = NoItem)
        BY <2>1, <3>2 DEF Touches, TypeOK
      <4>2. progress'[item[v]] = progress[item[v]]
        BY <4>1, <1>2 DEF Touches
      <4> QED BY <2>1, <4>1, <4>2 DEF IInv, ProgressTracksWork
    <3> QED BY <3>1, <3>2
  <2>2. ASSUME NEW s \in Stages, NEW j \in ItemsOf(queue'[s])
        PROVE  progress'[j] = WaitingState(s)
    <3>1. CASE j = i
      BY <3>1 DEF Lands
    <3>2. CASE j # i
      <4>1. j \in ItemsOf(queue[s]) /\ j \in Items
        BY <3>2, ItemsOfType DEF Touches, IInv
      <4>2. progress'[j] = progress[j]
        BY <3>2, <4>1 DEF Touches
      <4> QED BY <4>1, <4>2, QueuesTracked DEF IInv, ProgressTracksWork
    <3> QED BY <3>1, <3>2
  <2>3. \A s \in Stages : \A k \in DOMAIN queue'[s] :
           queue'[s][k] # Sentinel => progress'[queue'[s][k]] = WaitingState(s)
    BY <2>2 DEF ItemsOf, ToSet
  <2> QED BY <2>1, <2>3 DEF ProgressTracksWork
<1>5. Somewhere'
  <2> SUFFICES ASSUME NEW j \in Items, ~Raised'
               PROVE  \/ progress'[j] \in Outcomes
                      \/ \E s \in Stages : j \in ItemsOf(queue'[s])
                      \/ \E v \in Workers : item'[v] = j
    BY DEF Somewhere
  <2>0. ~Raised
    BY DEF Touches, Raised, control
  <2>1. CASE j = i
    BY <2>1 DEF Lands
  <2>2. CASE j # i
    <3>1. \/ progress[j] \in Outcomes
          \/ \E s \in Stages : j \in ItemsOf(queue[s])
          \/ \E v \in Workers : item[v] = j
      BY <2>0 DEF IInv, Somewhere
    <3>2. CASE progress[j] \in Outcomes
      BY <2>2, <3>2 DEF Touches
    <3>3. CASE \E s \in Stages : j \in ItemsOf(queue[s])
      BY <2>2, <3>3 DEF Touches
    <3>4. ASSUME NEW v \in Workers, item[v] = j PROVE item'[v] = j
      <4>1. v # w
        BY <2>2, <3>4, <1>2 DEF Touches
      <4> QED BY <3>4, <4>1 DEF Touches
    <3> QED BY <3>1, <3>2, <3>3, <3>4
  <2> QED BY <2>1, <2>2
<1> QED BY <1>3, <1>4, <1>5

\* The workers keep to the programs of their stages.
LEMMA StepWorkers ==
  ASSUME IInv, NEW s \in Stages, NEW w \in StageWorkers(s), NEW i,
         Touches(w, i), Lands(w, i), pc'[w] \in StagePcs(s) \ {"cancelled"},
         pc'[w] = "dead" => item'[w] \in Undeletable
  PROVE  WorkersInv'
<1>1. w \in Workers
  BY StageWorkersType
<1>2. \A t \in Stages : \A v \in StageWorkers(t) : pc'[v] \in StagePcs(t)
  <2> SUFFICES ASSUME NEW t \in Stages, NEW v \in StageWorkers(t) PROVE pc'[v] \in StagePcs(t)
    OBVIOUS
  <2>1. CASE v = w
    <3>1. t = s
      BY <2>1, PipelineAssumption DEF Stages, StageWorkers
    <3> QED BY <2>1, <3>1
  <2>2. CASE v # w
    <3>1. pc'[v] = pc[v]
      BY <2>2, StageWorkersType DEF Touches
    <3> QED BY <3>1 DEF IInv, WorkersInv
  <2> QED BY <2>1, <2>2
<1>3. \A v \in Workers : pc'[v] \in {"idle", "exited"} => item'[v] = NoItem
  BY DEF IInv, WorkersInv, Touches, Lands
<1>4. \A v \in Workers : pc'[v] = "dead" => item'[v] \in Undeletable
  BY DEF IInv, WorkersInv, Touches
<1>5. \A v \in Workers : pc'[v] = "cancelled" => Cancelling' \/ Raised'
  BY DEF IInv, WorkersInv, Touches, Cancelling, Raised
<1> QED BY <1>2, <1>3, <1>4, <1>5 DEF WorkersInv
-----------------------------------------------------------------------------
(* The kinds of worker steps.                                              *)

\* An idle worker of stage s takes the k-th entry of its queue and goes to p.
LEMMA TakeStep ==
  ASSUME IInv, NEW s \in Stages, NEW w \in StageWorkers(s), pc[w] = "idle",
         NEW k \in DOMAIN queue[s], NEW i, i = queue[s][k], i # Sentinel,
         NEW p \in Working, At(w, p, i),
         queue' = [queue EXCEPT ![s] = RemoveAt(queue[s], k)],
         progress' = Transition(i, WaitingState(s), PhaseOf(p)),
         PhaseOf(p) \in StageStates, UNCHANGED <<control, failedTasks, files>>
  PROVE  i \in Items /\ TypeOK' /\ Touches(w, i) /\ Lands(w, i)
<1>1. w \in Workers /\ TypeOK /\ p \in Pcs
  BY StageWorkersType DEF IInv, Working
<1>2. queue[s] \in Seq(Items \cup {Sentinel}) /\ Distinct(queue[s])
  BY DEF IInv, TypeOK, Once
<1>3. i \in ItemsOf(queue[s]) /\ i \in Items
  BY <1>1, ItemsOfType DEF ItemsOf, ToSet
<1>4. /\ RemoveAt(queue[s], k) \in Seq(Items \cup {Sentinel})
      /\ ItemsOf(RemoveAt(queue[s], k)) = ItemsOf(queue[s]) \ {i}
      /\ Distinct(RemoveAt(queue[s], k))
  BY <1>2, RemoveItems
<1>5. /\ queue' \in [Stages -> Seq(Items \cup {Sentinel})]
      /\ ItemsOf(queue'[s]) = ItemsOf(queue[s]) \ {i} /\ Distinct(queue'[s])
      /\ \A t \in Stages \ {s} : queue'[t] = queue[t]
  BY <1>1, <1>4, QueueType
<1>6. /\ pc' \in [Workers -> Pcs] /\ item' \in [Workers -> Items \cup {NoItem}]
      /\ \A v \in Workers : pc'[v] \in Working => item'[v] \in Items
      /\ pc'[w] = p /\ item'[w] = i
      /\ \A v \in Workers \ {w} : pc'[v] = pc[v] /\ item'[v] = item[v]
  BY <1>1, <1>3, AtType
<1>7. progress[i] = WaitingState(s) /\ WaitingState(s) \in StageStates
  BY <1>3, QueuesTracked DEF IInv, ProgressTracksWork, WaitingState, Stages, StageStates
<1>8. /\ progress' \in [Items -> StageStates \cup Outcomes] /\ progress'[i] = PhaseOf(p)
      /\ \A j \in Items \ {i} : progress'[j] = progress[j]
  BY <1>1, <1>3, <1>7, BookType
<1>9. \A t \in Stages \ {s} : i \notin ItemsOf(queue[t])
  <2>1. \A t \in Stages : i \in ItemsOf(queue[t]) => WaitingState(t) = WaitingState(s)
    BY <1>7, QueuesTracked DEF IInv, ProgressTracksWork
  <2> QED BY <2>1 DEF WaitingState, Stages
<1>10. TypeOK'
  BY <1>1, <1>5, <1>6, <1>8 DEF TypeOK, control, files
<1>11. Touches(w, i)
  <2>1. \A v \in Workers : item[v] # i
    BY <1>3 DEF IInv, Once
  <2>2. item[w] = NoItem
    BY <1>1 DEF IInv, WorkersInv
  <2>3. \A t \in Stages : Distinct(queue'[t])
                          /\ ItemsOf(queue'[t]) \ {i} = ItemsOf(queue[t]) \ {i}
    BY <1>5 DEF IInv, Once
  <2> QED BY <1>6, <1>8, <2>1, <2>2, <2>3 DEF Touches, control
<1>12. Lands(w, i)
  <2>1. \A t \in Stages : i \notin ItemsOf(queue'[t])
    BY <1>5, <1>9
  <2>2. p \notin {"idle", "exited"}
    BY DEF Working
  <2> QED BY <1>6, <1>8, <2>1, <2>2 DEF Lands
<1> QED BY <1>3, <1>10, <1>11, <1>12

\* What is known of the item a worker is working on.
LEMMA HeldItem ==
  ASSUME IInv, NEW w \in Workers, pc[w] \in Working
  PROVE  /\ item[w] \in Items /\ item[w] # NoItem
         /\ progress[item[w]] = PhaseOf(pc[w])
         /\ \A v \in Workers \ {w} : item[v] # item[w]
         /\ \A s \in Stages : item[w] \notin ItemsOf(queue[s])
BY DEF IInv, TypeOK, ProgressTracksWork, Once, Items, NoItem

\* The values that the steps below leave to the action.
BooksAndFilesType ==
  /\ failedTasks' \in Seq(Items)
  /\ tempBundle' \subseteq Items \ CachedBundle
  /\ staging' \subseteq Items \ SharedOutput
  /\ published' \subseteq Items

\* A worker goes on to p with the item it has, or, with the item booked as
\* resolved, becomes idle.
LEMMA GoOnStep ==
  ASSUME IInv, NEW w \in Workers, pc[w] \in Working, NEW p \in Pcs, NEW i,
         \/ p \in Working /\ i = item[w] /\ progress'[item[w]] = PhaseOf(p)
         \/ p = "dead" /\ i = item[w]
         \/ p = "idle" /\ i = NoItem /\ progress'[item[w]] \in Outcomes,
         At(w, p, i), progress' \in [Items -> StageStates \cup Outcomes],
         \A j \in Items \ {item[w]} : progress'[j] = progress[j],
         BooksAndFilesType, UNCHANGED <<control, queue>>
  PROVE  TypeOK' /\ Touches(w, item[w]) /\ Lands(w, item[w])
<1>1. /\ item[w] \in Items /\ item[w] # NoItem
      /\ \A v \in Workers \ {w} : item[v] # item[w]
      /\ \A s \in Stages : item[w] \notin ItemsOf(queue[s])
  BY HeldItem
<1>2. i \in Items \cup {NoItem} /\ (p \in Working => i \in Items)
  BY <1>1 DEF Working
<1>3. /\ pc' \in [Workers -> Pcs] /\ item' \in [Workers -> Items \cup {NoItem}]
      /\ \A v \in Workers : pc'[v] \in Working => item'[v] \in Items
      /\ pc'[w] = p /\ item'[w] = i
      /\ \A v \in Workers \ {w} : pc'[v] = pc[v] /\ item'[v] = item[v]
  BY <1>2, AtType DEF IInv
<1>4. TypeOK'
  BY <1>3 DEF IInv, TypeOK, control, BooksAndFilesType
<1>5. Touches(w, item[w])
  BY <1>1, <1>3 DEF Touches, control, IInv, Once
<1>6. "dead" \notin Working /\ "idle" \notin Working /\ "exited" \notin Working
  BY DEF Working
<1>7. p \in Working \cup {"dead"} => item'[w] = item[w]
  BY <1>3, <1>6
<1>8. item[w] \in Items => \/ progress'[item[w]] \in Outcomes
                           \/ item'[w] = item[w]
  BY <1>3, <1>7
<1>9. Lands(w, item[w])
  BY <1>1, <1>3, <1>6, <1>8 DEF Lands
<1> QED BY <1>4, <1>5, <1>9

\* A worker puts its item at the end of the queue of stage s and becomes idle.
LEMMA PutStep ==
  ASSUME IInv, NEW w \in Workers, pc[w] \in Working, NEW s \in Stages,
         PhaseOf(pc[w]) = WaitingState(s), At(w, "idle", NoItem),
         queue' = [queue EXCEPT ![s] = Append(queue[s], item[w])],
         UNCHANGED <<control, books, files>>
  PROVE  TypeOK' /\ Touches(w, item[w]) /\ Lands(w, item[w])
<1>1. /\ item[w] \in Items /\ item[w] # NoItem
      /\ progress[item[w]] = WaitingState(s)
      /\ \A v \in Workers \ {w} : item[v] # item[w]
      /\ \A t \in Stages : item[w] \notin ItemsOf(queue[t])
  BY HeldItem
<1>2. queue[s] \in Seq(Items \cup {Sentinel}) /\ Distinct(queue[s])
  BY DEF IInv, TypeOK, Once
<1>3. /\ Append(queue[s], item[w]) \in Seq(Items \cup {Sentinel})
      /\ ItemsOf(Append(queue[s], item[w])) = ItemsOf(queue[s]) \cup {item[w]}
      /\ Distinct(Append(queue[s], item[w]))
  BY <1>1, <1>2, AppendItems DEF Sentinel, NoItem
<1>4. /\ queue' \in [Stages -> Seq(Items \cup {Sentinel})]
      /\ ItemsOf(queue'[s]) = ItemsOf(queue[s]) \cup {item[w]} /\ Distinct(queue'[s])
      /\ \A t \in Stages \ {s} : queue'[t] = queue[t]
  BY <1>3, QueueType DEF IInv
<1>5. /\ pc' \in [Workers -> Pcs] /\ item' \in [Workers -> Items \cup {NoItem}]
      /\ \A v \in Workers : pc'[v] \in Working => item'[v] \in Items
      /\ pc'[w] = "idle" /\ item'[w] = NoItem
      /\ \A v \in Workers \ {w} : pc'[v] = pc[v] /\ item'[v] = item[v]
  <2>1. "idle" \in Pcs /\ "idle" \notin Working
    BY DEF Pcs, Working
  <2> QED BY <2>1, AtType DEF IInv
<1>6. TypeOK'
  BY <1>4, <1>5 DEF IInv, TypeOK, control, books, files
<1>7. Touches(w, item[w])
  <2>1. \A t \in Stages : Distinct(queue'[t])
             /\ ItemsOf(queue'[t]) \ {item[w]} = ItemsOf(queue[t]) \ {item[w]}
    BY <1>4 DEF IInv, Once
  <2> QED BY <1>1, <1>5, <2>1 DEF Touches, control, books
<1>8. Lands(w, item[w])
  <2>1. pc'[w] \notin Working
    BY <1>5 DEF Working
  <2>2. \A t \in Stages : item[w] \in ItemsOf(queue'[t]) => t = s
    BY <1>1, <1>4
  <2>3. progress'[item[w]] = WaitingState(s)
    BY <1>1 DEF books
  <2> QED BY <1>4, <1>5, <2>1, <2>2, <2>3 DEF Lands
<1> QED BY <1>6, <1>7, <1>8

\* An idle worker leaves, and takes at most a sentinel.
LEMMA LeaveStep ==
  ASSUME IInv, NEW w \in Workers, pc[w] = "idle", At(w, "exited", NoItem),
         queue' \in [Stages -> Seq(Items \cup {Sentinel})],
         \A s \in Stages : ItemsOf(queue'[s]) = ItemsOf(queue[s]) /\ Distinct(queue'[s]),
         UNCHANGED <<control, books, files>>
  PROVE  TypeOK' /\ Touches(w, NoItem) /\ Lands(w, NoItem)
<1>1. /\ pc' \in [Workers -> Pcs] /\ item' \in [Workers -> Items \cup {NoItem}]
      /\ \A v \in Workers : pc'[v] \in Working => item'[v] \in Items
      /\ pc'[w] = "exited" /\ item'[w] = NoItem
      /\ \A v \in Workers \ {w} : pc'[v] = pc[v] /\ item'[v] = item[v]
  <2>1. "exited" \in Pcs /\ "exited" \notin Working
    BY DEF Pcs, Working
  <2> QED BY <2>1, AtType DEF IInv
<1>2. TypeOK'
  BY <1>1 DEF IInv, TypeOK, control, books, files
<1>3. item[w] = NoItem
  BY DEF IInv, WorkersInv
<1>4. Touches(w, NoItem)
  BY <1>1, <1>3 DEF Touches, control, books
<1>5. Lands(w, NoItem)
  <2>1. pc'[w] \notin Working
    BY <1>1 DEF Working
  <2>2. NoItem \notin Items
    BY DEF Items, NoItem
  <2>3. \A s \in Stages : NoItem \notin ItemsOf(queue'[s])
    BY DEF ItemsOf, Sentinel, NoItem
  <2> QED BY <1>1, <2>1, <2>2, <2>3 DEF Lands
<1> QED BY <1>2, <1>4, <1>5
-----------------------------------------------------------------------------
(* The other parts of the invariant, under one step of one worker.         *)

\* Nothing is queued for or worked on by a stage that was joined.
LEMMA NotJoined ==
  ASSUME IInv, NEW s \in Stages, NEW w \in StageWorkers(s),
         pc[w] \in Working \/ queue[s] # <<>>
  PROVE  main \notin AfterJoin(s)
BY DEF IInv, Joined, Working

\* Stages are joined in order.
LEMMA JoinOrder ==
  /\ AfterJoin("upload") \subseteq AfterJoin("extract")
  /\ AfterJoin("extract") \subseteq AfterJoin("download")
BY DEF AfterJoin

\* A worker that steps has not been joined, so the joins stay true.
LEMMA StepJoined ==
  ASSUME IInv, Live, NEW s \in Stages, NEW w \in StageWorkers(s), NEW i, Touches(w, i),
         main \notin AfterJoin(s) \/ pc'[w] = "exited",
         \A t \in Stages : queue'[t] = queue[t] \/ main \notin AfterJoin(t)
  PROVE  Joined'
<1>1. main' = main /\ main \notin {"completed", "aborted", "abandoned"}
  BY DEF Touches, Live
<1>2. ASSUME NEW t \in Stages, main \in AfterJoin(t)
      PROVE  /\ queue'[t] = <<>>
             /\ \A v \in StageWorkers(t) : pc'[v] \in {"idle", "exited", "dead"}
  <2>1. queue[t] = <<>> /\ \A v \in StageWorkers(t) : pc[v] \in {"idle", "exited", "dead"}
    BY <1>2 DEF IInv, Joined
  <2>2. queue'[t] = queue[t]
    BY <1>2
  <2>3. ASSUME NEW v \in StageWorkers(t) PROVE pc'[v] \in {"idle", "exited", "dead"}
    <3>1. CASE v = w
      <4>1. t = s
        BY <3>1, PipelineAssumption DEF Stages, StageWorkers
      <4> QED BY <4>1, <3>1, <1>2
    <3>2. CASE v # w
      <4>1. pc'[v] = pc[v]
        BY <3>2, StageWorkersType DEF Touches
      <4> QED BY <4>1, <2>1
    <3> QED BY <3>1, <3>2
  <2> QED BY <2>1, <2>2, <2>3
<1> QED BY <1>1, <1>2 DEF Joined, Raised

\* The files of the items the step does not concern stay owned.
LEMMA StepFiles ==
  ASSUME IInv, NEW w \in Workers, NEW i, Touches(w, i),
         tempBundle' \subseteq tempBundle \cup {i}, staging' \subseteq staging \cup {i},
         i \in tempBundle' => BundleOwned(i)', i \in staging' => StagingOwned(i)'
  PROVE  FilesOwned'
<1>1. tempBundle \subseteq Items /\ staging \subseteq Items /\ NoItem \notin Items
  BY DEF IInv, TypeOK, Items, NoItem
<1>2. "extract" \in Stages /\ "upload" \in Stages
  BY DEF Stages
<1>3. ASSUME NEW j \in Items \ {i}, NEW v \in Workers, item[v] = j
      PROVE  v # w /\ pc'[v] = pc[v] /\ item'[v] = j /\ progress'[j] = progress[j]
  <2>1. v # w
    BY <1>1, <1>3 DEF Touches
  <2> QED BY <1>3, <2>1 DEF Touches
<1>4. ASSUME NEW j \in tempBundle', j # i PROVE BundleOwned(j)'
  <2>1. j \in tempBundle /\ j \in Items \ {i} /\ BundleOwned(j)
    BY <1>1, <1>4 DEF IInv, FilesOwned
  <2>2. j \in ItemsOf(queue["extract"]) => j \in ItemsOf(queue'["extract"])
    BY <1>2, <1>4 DEF Touches
  <2>3. progress'[j] = progress[j] /\ main' = main
    BY <2>1 DEF Touches
  <2> QED BY <1>3, <2>1, <2>2, <2>3 DEF BundleOwned, Forsaken
<1>5. ASSUME NEW j \in staging', j # i PROVE StagingOwned(j)'
  <2>1. j \in staging /\ j \in Items \ {i} /\ StagingOwned(j)
    BY <1>1, <1>5 DEF IInv, FilesOwned
  <2>2. j \in ItemsOf(queue["upload"]) => j \in ItemsOf(queue'["upload"])
    BY <1>2, <1>5 DEF Touches
  <2> QED BY <1>3, <2>1, <2>2 DEF StagingOwned
<1> QED BY <1>4, <1>5 DEF FilesOwned

\* An item in the hands of one worker is in no queue and no other hands.
LEMMA OwnedByHolder ==
  ASSUME IInv, Live, NEW w \in Workers, pc[w] \in Working
  PROVE  /\ item[w] \in tempBundle \ Undeletable =>
              pc[w] \in {"reserve", "fetch", "put_extract", "claimed", "extract", "cleanup"}
         /\ item[w] \in staging \ Unremovable =>
              pc[w] \in {"extract", "put_upload", "cleanup", "upload"}
<1>1. /\ \A v \in Workers : item[v] = item[w] => v = w
      /\ \A s \in Stages : item[w] \notin ItemsOf(queue[s])
  BY HeldItem
<1>2. "cancelled" \notin Working /\ "extract" \in Stages /\ "upload" \in Stages
  BY DEF Working, Stages
<1>3. item[w] \in tempBundle => BundleOwned(item[w])
  BY DEF IInv, FilesOwned
<1>4. item[w] \in staging => StagingOwned(item[w])
  BY DEF IInv, FilesOwned
<1>5. ASSUME item[w] \in tempBundle \ Undeletable
      PROVE  pc[w] \in {"reserve", "fetch", "put_extract", "claimed", "extract", "cleanup"}
  BY <1>1, <1>2, <1>3, <1>5 DEF BundleOwned, Live, Forsaken
<1>6. ASSUME item[w] \in staging \ Unremovable
      PROVE  pc[w] \in {"extract", "put_upload", "cleanup", "upload"}
  BY <1>1, <1>2, <1>4, <1>6 DEF StagingOwned
<1> QED BY <1>5, <1>6

\* An item in one queue is in no other and in nobody's hands.
LEMMA OwnedByQueue ==
  ASSUME IInv, Live, NEW s \in Stages, NEW i \in ItemsOf(queue[s])
  PROVE  /\ i \in tempBundle \ Undeletable => s = "extract"
         /\ i \in staging \ Unremovable => s = "upload"
<1>1. \A v \in Workers : item[v] # i
  BY DEF IInv, Once
<1>2. \A t \in Stages : i \in ItemsOf(queue[t]) => t = s
  <2>1. \A t \in Stages : i \in ItemsOf(queue[t]) => WaitingState(t) = WaitingState(s)
    BY QueuesTracked DEF IInv, ProgressTracksWork
  <2> QED BY <2>1 DEF WaitingState, Stages
<1>3. "extract" \in Stages /\ "upload" \in Stages
  BY DEF Stages
<1> QED BY <1>1, <1>2, <1>3 DEF IInv, FilesOwned, BundleOwned, StagingOwned, Live, Forsaken

\* The books: unresolved items stay unbooked, a failure and a success are booked
\* once.
LEMMA BooksKept ==
  ASSUME IInv, NEW i, progress[i] \notin Outcomes, progress'[i] \notin Outcomes,
         \A j \in Items \ {i} : progress'[j] = progress[j],
         failedTasks' = failedTasks, published' = published
  PROVE  FailedTasksExact' /\ PublishedExact'
<1>1. {j \in Items : progress'[j] = "failed"} = {j \in Items : progress[j] = "failed"}
  BY DEF Outcomes
<1>2. {j \in Items : progress'[j] = "succeeded"} = {j \in Items : progress[j] = "succeeded"}
  BY DEF Outcomes
<1> QED BY <1>1, <1>2 DEF IInv, FailedTasksExact, PublishedExact

\* Booking an item as failed: it was open, and the books stay exact.
LEMMA BooksFailed ==
  ASSUME IInv, NEW i \in Items, progress[i] \notin Outcomes, progress'[i] = "failed",
         \A j \in Items \ {i} : progress'[j] = progress[j],
         failedTasks' = Append(failedTasks, i), published' = published
  PROVE  /\ failedTasks' \in Seq(Items) /\ ToSet(failedTasks') = ToSet(failedTasks) \cup {i}
         /\ i \notin ToSet(failedTasks) \cup published
         /\ FailedTasksExact' /\ PublishedExact'
<1>1. failedTasks \in Seq(Items) /\ IsInjective(failedTasks)
  BY DEF IInv, TypeOK, FailedTasksExact
<1>2. i \notin ToSet(failedTasks) \cup published
  BY DEF IInv, FailedTasksExact, PublishedExact, Outcomes
<1>3. /\ failedTasks' \in Seq(Items) /\ Len(failedTasks') = Len(failedTasks) + 1
      /\ \A k \in 1..Len(failedTasks) : failedTasks'[k] = failedTasks[k]
      /\ failedTasks'[Len(failedTasks) + 1] = i
  BY <1>1, AppendProperties
<1>4. /\ DOMAIN failedTasks' = DOMAIN failedTasks \cup {Len(failedTasks) + 1}
      /\ DOMAIN failedTasks = 1..Len(failedTasks)
  BY <1>1, <1>3
<1>5. ToSet(failedTasks') = ToSet(failedTasks) \cup {i}
  BY <1>3, <1>4 DEF ToSet
<1>6. IsInjective(failedTasks')
  <2>1. \A k \in DOMAIN failedTasks : failedTasks[k] # i
    BY <1>2 DEF ToSet
  <2> QED BY <1>1, <1>3, <1>4, <2>1 DEF IsInjective
<1>7. {j \in Items : progress'[j] = "failed"} = {j \in Items : progress[j] = "failed"} \cup {i}
  OBVIOUS
<1>8. {j \in Items : progress'[j] = "succeeded"} = {j \in Items : progress[j] = "succeeded"}
  BY DEF Outcomes
<1> QED BY <1>2, <1>3, <1>5, <1>6, <1>7, <1>8 DEF IInv, FailedTasksExact, PublishedExact

\* Booking an item as published: it was open, and the books stay exact.
LEMMA BooksSucceeded ==
  ASSUME IInv, NEW i \in Items, progress[i] \notin Outcomes, progress'[i] = "succeeded",
         \A j \in Items \ {i} : progress'[j] = progress[j],
         failedTasks' = failedTasks, published' = published \cup {i}
  PROVE  /\ i \notin ToSet(failedTasks) \cup published
         /\ FailedTasksExact' /\ PublishedExact'
<1>1. i \notin ToSet(failedTasks) \cup published
  BY DEF IInv, FailedTasksExact, PublishedExact, Outcomes
<1>2. {j \in Items : progress'[j] = "failed"} = {j \in Items : progress[j] = "failed"}
  BY DEF Outcomes
<1>3. {j \in Items : progress'[j] = "succeeded"}
        = {j \in Items : progress[j] = "succeeded"} \cup {i}
  OBVIOUS
<1> QED BY <1>1, <1>2, <1>3 DEF IInv, FailedTasksExact, PublishedExact

\* Nothing is booked.
LEMMA BooksSame ==
  ASSUME IInv, UNCHANGED <<books, published>> PROVE FailedTasksExact' /\ PublishedExact'
BY DEF IInv, books, FailedTasksExact, PublishedExact
-----------------------------------------------------------------------------
(* The steps of the workers, action by action.                             *)

\* What an action of a worker of stage s has left to show.
LEMMA WorkerKeepsInv ==
  ASSUME IInv, Live, NEW s \in Stages, NEW w \in StageWorkers(s),
         NEW i \in Items \cup {NoItem}, TypeOK', Touches(w, i), Lands(w, i),
         pc'[w] \in StagePcs(s) \ {"cancelled"},
         pc'[w] = "dead" => item'[w] \in Undeletable,
         pc[w] \in Working \/ queue[s] # <<>> \/ pc'[w] = "exited",
         \A t \in Stages : queue'[t] = queue[t] \/ main \notin AfterJoin(t),
         tempBundle' \subseteq tempBundle \cup {i}, staging' \subseteq staging \cup {i},
         i \in tempBundle' => BundleOwned(i)', i \in staging' => StagingOwned(i)',
         FailedTasksExact', PublishedExact'
  PROVE  IInv'
<1>1. w \in Workers
  BY StageWorkersType
<1>2. Once' /\ ProgressTracksWork' /\ Somewhere'
  BY <1>1, StepPlaces
<1>3. WorkersInv'
  BY StepWorkers
<1>4. FilesOwned'
  BY <1>1, StepFiles
<1>5. Joined'
  BY NotJoined, StepJoined
<1> QED BY <1>2, <1>3, <1>4, <1>5 DEF IInv

\* An idle worker that takes an item keeps the invariant.
LEMMA TakeInv ==
  ASSUME IInv, Live, NEW s \in Stages, NEW w \in StageWorkers(s), pc[w] = "idle",
         NEW k \in DOMAIN queue[s], NEW i, i = queue[s][k], i # Sentinel,
         NEW p \in Working \cap StagePcs(s), At(w, p, i),
         s = "extract" => p = "claimed", s = "upload" => p = "upload",
         queue' = [queue EXCEPT ![s] = RemoveAt(queue[s], k)],
         progress' = Transition(i, WaitingState(s), PhaseOf(p)),
         PhaseOf(p) \in StageStates, UNCHANGED <<control, failedTasks, files>>
  PROVE  IInv'
<1>1. i \in Items /\ TypeOK' /\ Touches(w, i) /\ Lands(w, i)
  BY TakeStep
<1>2. pc'[w] = p /\ item'[w] = i /\ w \in Workers
  BY StageWorkersType DEF At, IInv, TypeOK
<1>3. i \in ItemsOf(queue[s]) /\ queue[s] # <<>>
  <2>1. queue[s] \in Seq(Items \cup {Sentinel})
    BY DEF IInv, TypeOK
  <2> QED BY <2>1 DEF ItemsOf, ToSet
<1>4. tempBundle' = tempBundle /\ staging' = staging
  BY DEF files
<1>5. i \in tempBundle' => BundleOwned(i)'
  <2>1. i \in tempBundle \ Undeletable => p = "claimed"
    BY <1>3, OwnedByQueue
  <2> QED BY <1>2, <1>4, <2>1 DEF BundleOwned
<1>6. i \in staging' => StagingOwned(i)'
  <2>1. i \in staging \ Unremovable => p = "upload"
    BY <1>3, OwnedByQueue
  <2> QED BY <1>2, <1>4, <2>1 DEF StagingOwned
<1>7. FailedTasksExact' /\ PublishedExact'
  <2>1. progress[i] = WaitingState(s) /\ WaitingState(s) \in StageStates
    BY <1>3, QueuesTracked DEF IInv, ProgressTracksWork, WaitingState, Stages, StageStates
  <2>2. progress'[i] = PhaseOf(p) /\ \A j \in Items \ {i} : progress'[j] = progress[j]
    BY <1>1, <2>1, BookType DEF IInv
  <2>3. StageStates \cap Outcomes = {}
    BY DEF StageStates, Outcomes
  <2> QED BY <2>1, <2>2, <2>3, BooksKept DEF files
<1>8. \A t \in Stages : queue'[t] = queue[t] \/ main \notin AfterJoin(t)
  BY <1>3, NotJoined DEF IInv, TypeOK
<1>9. pc'[w] \in StagePcs(s) \ {"cancelled"} /\ pc'[w] # "dead"
  BY <1>2 DEF Working
<1> QED BY <1>1, <1>3, <1>4, <1>5, <1>6, <1>7, <1>8, <1>9, WorkerKeepsInv

\* A download worker takes a task from its queue.
LEMMA DownloadGetInv ==
  ASSUME IInv, NEW w \in Downloaders, DownloadGet(w) PROVE IInv'
<1> PICK i : i = Head(queue["download"])
  OBVIOUS
<1>1. /\ Live /\ pc[w] = "idle" /\ queue["download"] # <<>>
      /\ i # Sentinel /\ At(w, "reserve", i)
      /\ UNCHANGED <<control, failedTasks, files>>
  BY DEF DownloadGet
<1>2. "download" \in Stages /\ w \in StageWorkers("download")
  BY DEF Stages, StageWorkers
<1>3. /\ 1 \in DOMAIN queue["download"] /\ i = queue["download"][1]
      /\ queue' = [queue EXCEPT !["download"] = RemoveAt(queue["download"], 1)]
  BY <1>1, <1>2, TailItems DEF IInv, TypeOK, Once, DownloadGet
<1>4. "reserve" \in Working \cap StagePcs("download") /\ PhaseOf("reserve") \in StageStates
  BY DEF PhaseOf, Working, Pcs, StagePcs, StageStates
<1>5. progress' = Transition(i, WaitingState("download"), PhaseOf("reserve"))
  BY DEF DownloadGet, WaitingState, PhaseOf
<1> QED BY <1>1, <1>2, <1>3, <1>4, <1>5, TakeInv

\* An extract worker claims an artifact.
LEMMA ClaimInv ==
  ASSUME IInv, NEW w \in Extractors, Claim(w) PROVE IInv'
<1> PICK k \in FirstAdmissible :
       /\ queue["extract"][k] # Sentinel
       /\ queue' = [queue EXCEPT !["extract"] = RemoveAt(@, k)]
       /\ At(w, "claimed", queue["extract"][k])
       /\ progress' = Transition(queue["extract"][k], "extract_waiting", "extract_running")
  BY DEF Claim
<1> PICK i : i = queue["extract"][k]
  OBVIOUS
<1>1. /\ Live /\ pc[w] = "idle" /\ i # Sentinel /\ At(w, "claimed", i)
      /\ UNCHANGED <<control, failedTasks, files>>
  BY DEF Claim
<1>2. "extract" \in Stages /\ w \in StageWorkers("extract")
  BY DEF Stages, StageWorkers
<1>3. k \in DOMAIN queue["extract"]
  BY DEF FirstAdmissible
<1>4. "claimed" \in Working \cap StagePcs("extract") /\ PhaseOf("claimed") \in StageStates
  BY DEF PhaseOf, Working, Pcs, StagePcs, StageStates
<1>5. progress' = Transition(i, WaitingState("extract"), PhaseOf("claimed"))
  BY DEF WaitingState, PhaseOf
<1>6. queue' = [queue EXCEPT !["extract"] = RemoveAt(queue["extract"], k)]
  OBVIOUS
<1> QED BY <1>1, <1>2, <1>3, <1>4, <1>5, <1>6, TakeInv

\* An upload worker takes an artifact from its queue.
LEMMA UploadGetInv ==
  ASSUME IInv, NEW w \in Uploaders, UploadGet(w) PROVE IInv'
<1> PICK i : i = Head(queue["upload"])
  OBVIOUS
<1>1. /\ Live /\ pc[w] = "idle" /\ queue["upload"] # <<>>
      /\ i # Sentinel /\ At(w, "upload", i)
      /\ UNCHANGED <<control, failedTasks, files>>
  BY DEF UploadGet
<1>2. "upload" \in Stages /\ w \in StageWorkers("upload")
  BY DEF Stages, StageWorkers
<1>3. /\ 1 \in DOMAIN queue["upload"] /\ i = queue["upload"][1]
      /\ queue' = [queue EXCEPT !["upload"] = RemoveAt(queue["upload"], 1)]
  BY <1>1, <1>2, TailItems DEF IInv, TypeOK, Once, UploadGet
<1>4. "upload" \in Working \cap StagePcs("upload") /\ PhaseOf("upload") \in StageStates
  BY DEF PhaseOf, Working, Pcs, StagePcs, StageStates
<1>5. progress' = Transition(i, WaitingState("upload"), PhaseOf("upload"))
  BY DEF UploadGet, WaitingState, PhaseOf
<1> QED BY <1>1, <1>2, <1>3, <1>4, <1>5, TakeInv
\* A worker that goes on with its item, or is done with it, keeps the invariant.
LEMMA GoOnInv ==
  ASSUME IInv, Live, NEW s \in Stages, NEW w \in StageWorkers(s), pc[w] \in Working,
         NEW i, i = item[w], NEW p \in StagePcs(s),
         \/ p \in Working /\ At(w, p, i) /\ progress'[i] = PhaseOf(p)
         \/ p = "dead" /\ At(w, p, i) /\ i \in Undeletable
         \/ p = "idle" /\ At(w, p, NoItem) /\ progress'[i] \in Outcomes,
         progress' \in [Items -> StageStates \cup Outcomes],
         \A j \in Items \ {i} : progress'[j] = progress[j],
         BooksAndFilesType, UNCHANGED <<control, queue>>,
         tempBundle' \subseteq tempBundle \cup {i}, staging' \subseteq staging \cup {i},
         i \in tempBundle' \ Undeletable =>
           p \in {"reserve", "fetch", "put_extract", "claimed", "extract", "cleanup"},
         i \in staging' \ Unremovable => p \in {"extract", "put_upload", "cleanup", "upload"},
         FailedTasksExact', PublishedExact'
  PROVE  IInv'
<1>1. w \in Workers /\ i \in Items /\ item[w] = i
  BY StageWorkersType, HeldItem
<1>2. PICK h : At(w, p, h) /\ (p = "idle" => h = NoItem) /\ (p # "idle" => h = i)
  BY DEF Working
<1>3. p \in Pcs /\ p # "exited" /\ p # "cancelled"
  BY DEF Working, Pcs
<1>4. /\ \/ p \in Working /\ h = item[w] /\ progress'[item[w]] = PhaseOf(p)
         \/ p = "dead" /\ h = item[w]
         \/ p = "idle" /\ h = NoItem /\ progress'[item[w]] \in Outcomes
      /\ \A j \in Items \ {item[w]} : progress'[j] = progress[j]
  <2>1. "idle" \notin Working
    BY DEF Working
  <2> QED BY <1>1, <1>2, <2>1
<1>5. TypeOK' /\ Touches(w, item[w]) /\ Lands(w, item[w])
  BY <1>1, <1>2, <1>3, <1>4, GoOnStep
<1>6. TypeOK' /\ Touches(w, i) /\ Lands(w, i)
  BY <1>1, <1>5
<1>7. pc'[w] = p /\ item'[w] = h
  BY <1>1, <1>2 DEF At, IInv, TypeOK
<1>8. i \in tempBundle' => BundleOwned(i)'
  BY <1>1, <1>2, <1>7 DEF BundleOwned
<1>9. i \in staging' => StagingOwned(i)'
  BY <1>1, <1>2, <1>7 DEF StagingOwned
<1>10. pc'[w] \in StagePcs(s) \ {"cancelled"}
  BY <1>3, <1>7
<1>11. pc'[w] = "dead" => item'[w] \in Undeletable
  BY <1>2, <1>7 DEF Working
<1>12. \A t \in Stages : queue'[t] = queue[t]
  OBVIOUS
<1> QED BY <1>1, <1>6, <1>8, <1>9, <1>10, <1>11, <1>12, WorkerKeepsInv

\* The item of a worker of stage s, and what is booked for it.
LEMMA WorkingFacts ==
  ASSUME IInv, NEW s \in Stages, NEW w \in StageWorkers(s), pc[w] \in Working
  PROVE  /\ w \in Workers /\ item[w] \in Items
         /\ progress[item[w]] = PhaseOf(pc[w])
         /\ failedTasks \in Seq(Items) /\ tempBundle \subseteq Items \ CachedBundle
         /\ staging \subseteq Items \ SharedOutput /\ published \subseteq Items
         /\ Unlinked(item[w]) \subseteq tempBundle
         /\ item[w] \in Unlinked(item[w]) => item[w] \in Undeletable
         /\ Cleared(item[w]) \subseteq staging
         /\ item[w] \in Cleared(item[w]) => item[w] \in Unremovable
BY StageWorkersType, HeldItem DEF IInv, TypeOK, Unlinked, Cleared

\* A download worker reserves its staging file.
LEMMA ReserveInv ==
  ASSUME IInv, NEW w \in Downloaders, Reserve(w) PROVE IInv'
<1> PICK i : i = item[w]
  OBVIOUS
<1>1. /\ Live /\ pc[w] = "reserve" /\ At(w, "fetch", i)
      /\ tempBundle' = tempBundle \cup ({i} \ CachedBundle)
      /\ UNCHANGED <<control, queue, books, staging, published>>
  BY DEF Reserve
<1>2. "download" \in Stages /\ w \in StageWorkers("download") /\ pc[w] \in Working
  BY <1>1 DEF Stages, StageWorkers, Working, Pcs
<1>3. /\ i \in Items /\ progress[i] = PhaseOf("reserve")
      /\ staging \subseteq Items \ SharedOutput /\ tempBundle \subseteq Items \ CachedBundle
      /\ failedTasks \in Seq(Items) /\ published \subseteq Items
  BY <1>1, <1>2, WorkingFacts
<1>4. "fetch" \in StagePcs("download") /\ "fetch" \in Working
      /\ PhaseOf("fetch") = PhaseOf("reserve")
  BY DEF StagePcs, Working, Pcs, PhaseOf
<1>5. i \notin staging \ Unremovable
  BY <1>1, <1>2, StageWorkersType, OwnedByHolder
<1>6. FailedTasksExact' /\ PublishedExact'
  BY <1>1, BooksSame
<1>7. BooksAndFilesType
  BY <1>1, <1>3 DEF BooksAndFilesType, books
<1>8. progress' = progress /\ staging' = staging /\ progress \in [Items -> StageStates \cup Outcomes]
  BY <1>1 DEF books, IInv, TypeOK
<1> QED BY <1>1, <1>2, <1>3, <1>4, <1>5, <1>6, <1>7, <1>8, GoOnInv

\* The bundle is on disk.
LEMMA FetchedInv ==
  ASSUME IInv, NEW w \in Downloaders, Fetched(w) PROVE IInv'
<1> PICK i : i = item[w]
  OBVIOUS
<1>1. /\ Live /\ pc[w] = "fetch" /\ At(w, "put_extract", i)
      /\ progress' = Transition(i, "download_running", "extract_waiting")
      /\ UNCHANGED <<control, queue, failedTasks, files>>
  BY DEF Fetched
<1>2. "download" \in Stages /\ w \in StageWorkers("download") /\ pc[w] \in Working
  BY <1>1 DEF Stages, StageWorkers, Working, Pcs
<1>3. /\ i \in Items /\ progress[i] = PhaseOf("fetch")
      /\ staging \subseteq Items \ SharedOutput /\ tempBundle \subseteq Items \ CachedBundle
      /\ failedTasks \in Seq(Items) /\ published \subseteq Items
  BY <1>1, <1>2, WorkingFacts
<1>4. /\ "put_extract" \in StagePcs("download") /\ "put_extract" \in Working
      /\ PhaseOf("fetch") = "download_running" /\ PhaseOf("put_extract") = "extract_waiting"
      /\ {"download_running", "extract_waiting"} \subseteq StageStates
      /\ StageStates \cap Outcomes = {}
  BY DEF StagePcs, Working, Pcs, PhaseOf, StageStates, Outcomes
<1>5. i \notin staging \ Unremovable
  BY <1>1, <1>2, StageWorkersType, OwnedByHolder
<1>6. /\ progress' \in [Items -> StageStates \cup Outcomes] /\ progress'[i] = "extract_waiting"
      /\ \A j \in Items \ {i} : progress'[j] = progress[j]
  BY <1>1, <1>3, <1>4, BookType DEF IInv
<1>7. FailedTasksExact' /\ PublishedExact'
  BY <1>1, <1>3, <1>4, <1>6, BooksKept DEF files
<1>8. BooksAndFilesType
  BY <1>1, <1>3 DEF BooksAndFilesType, files
<1>9. tempBundle' = tempBundle /\ staging' = staging
  BY <1>1 DEF files
<1> QED BY <1>1, <1>2, <1>3, <1>4, <1>5, <1>6, <1>7, <1>8, <1>9, GoOnInv

\* A download that fails is booked and its file removed.
LEMMA DownloadFailInv ==
  ASSUME IInv, NEW w \in Downloaders, DownloadFail(w) PROVE IInv'
<1> PICK i : i = item[w]
  OBVIOUS
<1>1. /\ Live /\ pc[w] \in {"reserve", "fetch"} /\ At(w, "idle", NoItem)
      /\ i \notin tempBundle \cap Undeletable /\ tempBundle' = Unlinked(i)
      /\ failedTasks' = Append(failedTasks, i) /\ progress' = Finish(i, "failed")
      /\ UNCHANGED <<control, queue, staging, published>>
  BY DEF DownloadFail
<1>2. "download" \in Stages /\ w \in StageWorkers("download") /\ pc[w] \in Working
  BY <1>1 DEF Stages, StageWorkers, Working, Pcs
<1>3. /\ i \in Items /\ progress[i] = PhaseOf(pc[w])
      /\ staging \subseteq Items \ SharedOutput /\ tempBundle \subseteq Items \ CachedBundle
      /\ failedTasks \in Seq(Items) /\ published \subseteq Items
      /\ Unlinked(i) \subseteq tempBundle /\ (i \in Unlinked(i) => i \in Undeletable)
  BY <1>2, WorkingFacts
<1>4. "idle" \in StagePcs("download") /\ PhaseOf(pc[w]) \notin Outcomes /\ "failed" \in Outcomes
  BY <1>1 DEF StagePcs, PhaseOf, Outcomes
<1>5. i \notin staging \ Unremovable
  BY <1>1, <1>2, StageWorkersType, OwnedByHolder
<1>6. /\ progress' \in [Items -> StageStates \cup Outcomes] /\ progress'[i] = "failed"
      /\ \A j \in Items \ {i} : progress'[j] = progress[j]
  BY <1>1, <1>3, <1>4, BookType DEF IInv
<1>7. FailedTasksExact' /\ PublishedExact' /\ failedTasks' \in Seq(Items)
  BY <1>1, <1>3, <1>4, <1>6, BooksFailed
<1>8. BooksAndFilesType
  BY <1>1, <1>3, <1>7 DEF BooksAndFilesType
<1> QED BY <1>1, <1>2, <1>3, <1>4, <1>5, <1>6, <1>7, <1>8, GoOnInv

\* A download whose error handler raises.
LEMMA DownloadDieInv ==
  ASSUME IInv, NEW w \in Downloaders, DownloadDie(w) PROVE IInv'
<1> PICK i : i = item[w]
  OBVIOUS
<1>1. /\ Live /\ pc[w] = "fetch" /\ At(w, "dead", i) /\ i \in Undeletable
      /\ UNCHANGED <<control, queue, books, files>>
  BY DEF DownloadDie
<1>2. "download" \in Stages /\ w \in StageWorkers("download") /\ pc[w] \in Working
  BY <1>1 DEF Stages, StageWorkers, Working, Pcs
<1>3. /\ staging \subseteq Items \ SharedOutput /\ tempBundle \subseteq Items \ CachedBundle
      /\ failedTasks \in Seq(Items) /\ published \subseteq Items
  BY <1>2, WorkingFacts
<1>4. "dead" \in StagePcs("download")
  BY DEF StagePcs
<1>5. i \notin staging \ Unremovable
  BY <1>1, <1>2, StageWorkersType, OwnedByHolder
<1>6. FailedTasksExact' /\ PublishedExact'
  BY <1>1, BooksSame DEF files
<1>7. BooksAndFilesType
  BY <1>1, <1>3 DEF BooksAndFilesType, books, files
<1>8. /\ progress' = progress /\ tempBundle' = tempBundle /\ staging' = staging
      /\ progress \in [Items -> StageStates \cup Outcomes]
  BY <1>1 DEF books, files, IInv, TypeOK
<1> QED BY <1>1, <1>2, <1>4, <1>5, <1>6, <1>7, <1>8, GoOnInv

\* The extractor creates its directory.
LEMMA StartExtractInv ==
  ASSUME IInv, NEW w \in Extractors, StartExtract(w) PROVE IInv'
<1> PICK i : i = item[w]
  OBVIOUS
<1>1. /\ Live /\ pc[w] = "claimed" /\ At(w, "extract", i)
      /\ staging' = staging \cup ({i} \ SharedOutput)
      /\ UNCHANGED <<control, queue, books, tempBundle, published>>
  BY DEF StartExtract
<1>2. "extract" \in Stages /\ w \in StageWorkers("extract") /\ pc[w] \in Working
  BY <1>1 DEF Stages, StageWorkers, Working, Pcs
<1>3. /\ i \in Items /\ progress[i] = PhaseOf("claimed")
      /\ staging \subseteq Items \ SharedOutput /\ tempBundle \subseteq Items \ CachedBundle
      /\ failedTasks \in Seq(Items) /\ published \subseteq Items
  BY <1>1, <1>2, WorkingFacts
<1>4. /\ "extract" \in StagePcs("extract") /\ "extract" \in Working
      /\ PhaseOf("extract") = PhaseOf("claimed")
  BY DEF StagePcs, Working, Pcs, PhaseOf
<1>5. FailedTasksExact' /\ PublishedExact'
  BY <1>1, BooksSame
<1>6. BooksAndFilesType
  BY <1>1, <1>3 DEF BooksAndFilesType, books
<1>7. /\ progress' = progress /\ tempBundle' = tempBundle
      /\ progress \in [Items -> StageStates \cup Outcomes]
  BY <1>1 DEF books, IInv, TypeOK
<1> QED BY <1>1, <1>2, <1>3, <1>4, <1>5, <1>6, <1>7, GoOnInv

\* The extraction ends and its bundle is removed.
LEMMA ExtractedInv ==
  ASSUME IInv, NEW w \in Extractors, Extracted(w) PROVE IInv'
<1> PICK i : i = item[w]
  OBVIOUS
<1>1. /\ Live /\ pc[w] = "extract" /\ At(w, "put_upload", i)
      /\ tempBundle' = Unlinked(i)
      /\ progress' = Transition(i, "extract_running", "upload_waiting")
      /\ UNCHANGED <<control, queue, failedTasks, staging, published>>
  BY DEF Extracted
<1>2. "extract" \in Stages /\ w \in StageWorkers("extract") /\ pc[w] \in Working
  BY <1>1 DEF Stages, StageWorkers, Working, Pcs
<1>3. /\ i \in Items /\ progress[i] = PhaseOf("extract")
      /\ staging \subseteq Items \ SharedOutput /\ tempBundle \subseteq Items \ CachedBundle
      /\ failedTasks \in Seq(Items) /\ published \subseteq Items
      /\ Unlinked(i) \subseteq tempBundle /\ (i \in Unlinked(i) => i \in Undeletable)
  BY <1>1, <1>2, WorkingFacts
<1>4. /\ "put_upload" \in StagePcs("extract") /\ "put_upload" \in Working
      /\ PhaseOf("extract") = "extract_running" /\ PhaseOf("put_upload") = "upload_waiting"
      /\ {"extract_running", "upload_waiting"} \subseteq StageStates
      /\ StageStates \cap Outcomes = {}
  BY DEF StagePcs, Working, Pcs, PhaseOf, StageStates, Outcomes
<1>5. /\ progress' \in [Items -> StageStates \cup Outcomes] /\ progress'[i] = "upload_waiting"
      /\ \A j \in Items \ {i} : progress'[j] = progress[j]
  BY <1>1, <1>3, <1>4, BookType DEF IInv
<1>6. FailedTasksExact' /\ PublishedExact'
  BY <1>1, <1>3, <1>4, <1>5, BooksKept
<1>7. BooksAndFilesType
  BY <1>1, <1>3 DEF BooksAndFilesType
<1> QED BY <1>1, <1>2, <1>3, <1>4, <1>5, <1>6, <1>7, GoOnInv

\* An extraction that fails is booked.
LEMMA ExtractFailInv ==
  ASSUME IInv, NEW w \in Extractors, ExtractFail(w) PROVE IInv'
<1> PICK i : i = item[w]
  OBVIOUS
<1>1. /\ Live /\ pc[w] = "extract" /\ At(w, "cleanup", i)
      /\ progress' = Finish(i, "failed") /\ failedTasks' = Append(failedTasks, i)
      /\ UNCHANGED <<control, queue, files>>
  BY DEF ExtractFail
<1>2. "extract" \in Stages /\ w \in StageWorkers("extract") /\ pc[w] \in Working
  BY <1>1 DEF Stages, StageWorkers, Working, Pcs
<1>3. /\ i \in Items /\ progress[i] = PhaseOf("extract")
      /\ staging \subseteq Items \ SharedOutput /\ tempBundle \subseteq Items \ CachedBundle
      /\ failedTasks \in Seq(Items) /\ published \subseteq Items
  BY <1>1, <1>2, WorkingFacts
<1>4. /\ "cleanup" \in StagePcs("extract") /\ "cleanup" \in Working
      /\ PhaseOf("extract") \notin Outcomes /\ PhaseOf("cleanup") = "failed"
      /\ "failed" \in Outcomes
  BY DEF StagePcs, Working, Pcs, PhaseOf, Outcomes
<1>5. /\ progress' \in [Items -> StageStates \cup Outcomes] /\ progress'[i] = "failed"
      /\ \A j \in Items \ {i} : progress'[j] = progress[j]
  BY <1>1, <1>3, <1>4, BookType DEF IInv
<1>6. FailedTasksExact' /\ PublishedExact' /\ failedTasks' \in Seq(Items)
  BY <1>1, <1>3, <1>4, <1>5, BooksFailed DEF files
<1>7. BooksAndFilesType
  BY <1>1, <1>3, <1>6 DEF BooksAndFilesType, files
<1>8. tempBundle' = tempBundle /\ staging' = staging
  BY <1>1 DEF files
<1> QED BY <1>1, <1>2, <1>3, <1>4, <1>5, <1>6, <1>7, <1>8, GoOnInv

\* What a failed extraction left is removed.
LEMMA ExtractCleanupInv ==
  ASSUME IInv, NEW w \in Extractors, ExtractCleanup(w) PROVE IInv'
<1> PICK i : i = item[w]
  OBVIOUS
<1>1. /\ Live /\ pc[w] = "cleanup" /\ At(w, "idle", NoItem)
      /\ tempBundle' = Unlinked(i) /\ staging' = Cleared(i)
      /\ UNCHANGED <<control, queue, books, published>>
  BY DEF ExtractCleanup
<1>2. "extract" \in Stages /\ w \in StageWorkers("extract") /\ pc[w] \in Working
  BY <1>1 DEF Stages, StageWorkers, Working, Pcs
<1>3. /\ i \in Items /\ progress[i] = PhaseOf("cleanup")
      /\ staging \subseteq Items \ SharedOutput /\ tempBundle \subseteq Items \ CachedBundle
      /\ failedTasks \in Seq(Items) /\ published \subseteq Items
      /\ Unlinked(i) \subseteq tempBundle /\ (i \in Unlinked(i) => i \in Undeletable)
      /\ Cleared(i) \subseteq staging /\ (i \in Cleared(i) => i \in Unremovable)
  BY <1>1, <1>2, WorkingFacts
<1>4. "idle" \in StagePcs("extract") /\ PhaseOf("cleanup") \in Outcomes
  BY DEF StagePcs, PhaseOf, Outcomes
<1>5. FailedTasksExact' /\ PublishedExact'
  BY <1>1, BooksSame
<1>6. BooksAndFilesType
  BY <1>1, <1>3 DEF BooksAndFilesType, books
<1>7. progress' = progress /\ progress \in [Items -> StageStates \cup Outcomes]
  BY <1>1 DEF books, IInv, TypeOK
<1> QED BY <1>1, <1>2, <1>3, <1>4, <1>5, <1>6, <1>7, GoOnInv

\* An upload that ends publishes its item.
LEMMA UploadedInv ==
  ASSUME IInv, NEW w \in Uploaders, Uploaded(w) PROVE IInv'
<1> PICK i : i = item[w]
  OBVIOUS
<1>1. /\ Live /\ pc[w] = "upload" /\ At(w, "idle", NoItem)
      /\ published' = published \cup {i} /\ progress' = Finish(i, "succeeded")
      /\ staging' = Cleared(i)
      /\ UNCHANGED <<control, queue, failedTasks, tempBundle>>
  BY DEF Uploaded
<1>2. "upload" \in Stages /\ w \in StageWorkers("upload") /\ pc[w] \in Working
  BY <1>1 DEF Stages, StageWorkers, Working, Pcs
<1>3. /\ i \in Items /\ progress[i] = PhaseOf("upload")
      /\ staging \subseteq Items \ SharedOutput /\ tempBundle \subseteq Items \ CachedBundle
      /\ failedTasks \in Seq(Items) /\ published \subseteq Items
      /\ Cleared(i) \subseteq staging /\ (i \in Cleared(i) => i \in Unremovable)
  BY <1>1, <1>2, WorkingFacts
<1>4. /\ "idle" \in StagePcs("upload") /\ PhaseOf("upload") \notin Outcomes
      /\ "succeeded" \in Outcomes
  BY DEF StagePcs, PhaseOf, Outcomes
<1>5. i \notin tempBundle \ Undeletable
  BY <1>1, <1>2, StageWorkersType, OwnedByHolder
<1>6. /\ progress' \in [Items -> StageStates \cup Outcomes] /\ progress'[i] = "succeeded"
      /\ \A j \in Items \ {i} : progress'[j] = progress[j]
  BY <1>1, <1>3, <1>4, BookType DEF IInv
<1>7. FailedTasksExact' /\ PublishedExact'
  BY <1>1, <1>3, <1>4, <1>6, BooksSucceeded
<1>8. BooksAndFilesType
  BY <1>1, <1>3 DEF BooksAndFilesType
<1> QED BY <1>1, <1>2, <1>3, <1>4, <1>5, <1>6, <1>7, <1>8, GoOnInv

\* An upload that fails is booked.
LEMMA UploadFailInv ==
  ASSUME IInv, NEW w \in Uploaders, UploadFail(w) PROVE IInv'
<1> PICK i : i = item[w]
  OBVIOUS
<1>1. /\ Live /\ pc[w] = "upload" /\ At(w, "idle", NoItem)
      /\ failedTasks' = Append(failedTasks, i) /\ progress' = Finish(i, "failed")
      /\ staging' = Cleared(i)
      /\ UNCHANGED <<control, queue, tempBundle, published>>
  BY DEF UploadFail
<1>2. "upload" \in Stages /\ w \in StageWorkers("upload") /\ pc[w] \in Working
  BY <1>1 DEF Stages, StageWorkers, Working, Pcs
<1>3. /\ i \in Items /\ progress[i] = PhaseOf("upload")
      /\ staging \subseteq Items \ SharedOutput /\ tempBundle \subseteq Items \ CachedBundle
      /\ failedTasks \in Seq(Items) /\ published \subseteq Items
      /\ Cleared(i) \subseteq staging /\ (i \in Cleared(i) => i \in Unremovable)
  BY <1>1, <1>2, WorkingFacts
<1>4. /\ "idle" \in StagePcs("upload") /\ PhaseOf("upload") \notin Outcomes
      /\ "failed" \in Outcomes
  BY DEF StagePcs, PhaseOf, Outcomes
<1>5. i \notin tempBundle \ Undeletable
  BY <1>1, <1>2, StageWorkersType, OwnedByHolder
<1>6. /\ progress' \in [Items -> StageStates \cup Outcomes] /\ progress'[i] = "failed"
      /\ \A j \in Items \ {i} : progress'[j] = progress[j]
  BY <1>1, <1>3, <1>4, BookType DEF IInv
<1>7. FailedTasksExact' /\ PublishedExact' /\ failedTasks' \in Seq(Items)
  BY <1>1, <1>3, <1>4, <1>6, BooksFailed
<1>8. BooksAndFilesType
  BY <1>1, <1>3, <1>7 DEF BooksAndFilesType
<1> QED BY <1>1, <1>2, <1>3, <1>4, <1>5, <1>6, <1>7, <1>8, GoOnInv

\* A worker of stage s hands its item to the queue of stage t.
LEMMA HandOverInv ==
  ASSUME IInv, Live, NEW s \in Stages, NEW w \in StageWorkers(s),
         NEW t \in Stages, AfterJoin(t) \subseteq AfterJoin(s),
         \/ pc[w] = "put_extract" /\ s = "download" /\ t = "extract"
         \/ pc[w] = "put_upload" /\ s = "extract" /\ t = "upload",
         At(w, "idle", NoItem),
         queue' = [queue EXCEPT ![t] = Append(queue[t], item[w])],
         UNCHANGED <<control, books, files>>
  PROVE  IInv'
<1> PICK i : i = item[w]
  OBVIOUS
<1>1. /\ pc[w] \in Working /\ PhaseOf(pc[w]) = WaitingState(t) /\ w \in Workers
      /\ "idle" \in StagePcs(s)
  BY StageWorkersType DEF Working, Pcs, PhaseOf, WaitingState, StagePcs
<1>2. TypeOK' /\ Touches(w, item[w]) /\ Lands(w, item[w]) /\ i \in Items
  BY <1>1, PutStep, HeldItem
<1>3. pc'[w] = "idle" /\ tempBundle' = tempBundle /\ staging' = staging
  BY <1>1 DEF At, IInv, TypeOK, files
<1>4. FailedTasksExact' /\ PublishedExact'
  BY BooksSame DEF files
<1>5. i \in ItemsOf(queue'[t]) /\ \A u \in Stages \ {t} : queue'[u] = queue[u]
  <2>1. queue[t] \in Seq(Items \cup {Sentinel}) /\ Distinct(queue[t])
    BY DEF IInv, TypeOK, Once
  <2>2. i \notin ItemsOf(queue[t]) /\ i # Sentinel
    BY <1>1, HeldItem DEF NoItem, Sentinel
  <2>3. Append(queue[t], i) \in Seq(Items \cup {Sentinel}) /\ i \in ItemsOf(Append(queue[t], i))
    BY <1>2, <2>1, <2>2, AppendItems
  <2> QED BY <2>3, QueueType DEF IInv
<1>6. i \in tempBundle' => BundleOwned(i)'
  <2>1. i \in tempBundle \ Undeletable => t = "extract"
    BY <1>1, OwnedByHolder
  <2> QED BY <1>3, <1>5, <2>1 DEF BundleOwned
<1>7. i \in staging' => StagingOwned(i)'
  <2>1. i \in staging \ Unremovable => t = "upload"
    BY <1>1, OwnedByHolder
  <2> QED BY <1>3, <1>5, <2>1 DEF StagingOwned
<1>8. \A u \in Stages : queue'[u] = queue[u] \/ main \notin AfterJoin(u)
  BY <1>1, <1>5, NotJoined
<1>9. Touches(w, i) /\ Lands(w, i)
  BY <1>2
<1> QED BY <1>1, <1>2, <1>3, <1>4, <1>6, <1>7, <1>8, <1>9, WorkerKeepsInv

\* A downloaded bundle is put in the extract queue.
LEMMA PutExtractInv ==
  ASSUME IInv, NEW w \in Downloaders, PutExtract(w) PROVE IInv'
<1>1. "download" \in Stages /\ "extract" \in Stages /\ w \in StageWorkers("download")
  BY DEF Stages, StageWorkers
<1>2. /\ Live /\ pc[w] = "put_extract" /\ At(w, "idle", NoItem)
      /\ queue' = [queue EXCEPT !["extract"] = Append(queue["extract"], item[w])]
      /\ UNCHANGED <<control, books, files>>
  BY DEF PutExtract
<1> QED BY <1>1, <1>2, JoinOrder, HandOverInv

\* An extraction is put in the upload queue.
LEMMA PutUploadInv ==
  ASSUME IInv, NEW w \in Extractors, PutUpload(w) PROVE IInv'
<1>1. "extract" \in Stages /\ "upload" \in Stages /\ w \in StageWorkers("extract")
  BY DEF Stages, StageWorkers
<1>2. /\ Live /\ pc[w] = "put_upload" /\ At(w, "idle", NoItem)
      /\ queue' = [queue EXCEPT !["upload"] = Append(queue["upload"], item[w])]
      /\ UNCHANGED <<control, books, files>>
  BY DEF PutUpload
<1> QED BY <1>1, <1>2, JoinOrder, HandOverInv

\* A worker leaves its loop.
LEMMA LeaveInv ==
  ASSUME IInv, Live, NEW s \in Stages, NEW w \in StageWorkers(s), pc[w] = "idle",
         At(w, "exited", NoItem), queue' \in [Stages -> Seq(Items \cup {Sentinel})],
         \A t \in Stages : ItemsOf(queue'[t]) = ItemsOf(queue[t]) /\ Distinct(queue'[t]),
         \A t \in Stages : queue'[t] = queue[t] \/ queue[t] # <<>>,
         UNCHANGED <<control, books, files>>
  PROVE  IInv'
<1>1. w \in Workers
  BY StageWorkersType
<1>2. TypeOK' /\ Touches(w, NoItem) /\ Lands(w, NoItem)
  BY <1>1, LeaveStep
<1>3. pc'[w] = "exited" /\ tempBundle' = tempBundle /\ staging' = staging
  BY <1>1 DEF At, IInv, TypeOK, files
<1>4. NoItem \notin tempBundle /\ NoItem \notin staging
  BY DEF IInv, TypeOK, Items, NoItem
<1>5. \A t \in Stages : queue'[t] = queue[t] \/ main \notin AfterJoin(t)
  BY DEF IInv, Joined
<1>6. "exited" \in StagePcs(s)
  BY DEF Stages, StagePcs
<1>7. FailedTasksExact' /\ PublishedExact'
  BY BooksSame DEF files
<1> QED BY <1>1, <1>2, <1>3, <1>4, <1>5, <1>6, <1>7, WorkerKeepsInv

\* A worker that takes a sentinel leaves.
LEMMA TakeSentinelInv ==
  ASSUME IInv, NEW s \in Stages, NEW w \in StageWorkers(s), TakeSentinel(s, w) PROVE IInv'
<1>1. /\ Live /\ pc[w] = "idle" /\ At(w, "exited", NoItem)
      /\ queue[s] # <<>> /\ Head(queue[s]) = Sentinel
      /\ queue' = [queue EXCEPT ![s] = Tail(queue[s])]
      /\ UNCHANGED <<control, books, files>>
  BY DEF TakeSentinel
<1>2. queue[s] \in Seq(Items \cup {Sentinel}) /\ \A t \in Stages : Distinct(queue[t])
  BY DEF IInv, TypeOK, Once
<1>3. /\ Tail(queue[s]) \in Seq(Items \cup {Sentinel})
      /\ ItemsOf(Tail(queue[s])) = ItemsOf(queue[s]) /\ Distinct(Tail(queue[s]))
  BY <1>1, <1>2, TailItems DEF ItemsOf
<1>4. /\ queue' \in [Stages -> Seq(Items \cup {Sentinel})] /\ queue'[s] = Tail(queue[s])
      /\ \A t \in Stages \ {s} : queue'[t] = queue[t]
  BY <1>1, <1>3, QueueType DEF IInv
<1> QED BY <1>1, <1>2, <1>3, <1>4, LeaveInv

\* An extract worker leaves a closed scheduler.
LEMMA ClaimNoneInv ==
  ASSUME IInv, NEW w \in Extractors, ClaimNone(w) PROVE IInv'
<1>1. "extract" \in Stages /\ w \in StageWorkers("extract")
  BY DEF Stages, StageWorkers
<1>2. /\ Live /\ pc[w] = "idle" /\ At(w, "exited", NoItem)
      /\ queue' = queue /\ UNCHANGED <<control, books, files>>
  BY DEF ClaimNone
<1>3. /\ queue \in [Stages -> Seq(Items \cup {Sentinel})]
      /\ \A t \in Stages : Distinct(queue[t])
  BY DEF IInv, TypeOK, Once
<1> QED BY <1>1, <1>2, <1>3, LeaveInv
-----------------------------------------------------------------------------
(* The steps of run_pipeline.                                              *)

\* Until it cancels its workers, a stage that drained has no worker at work.
LEMMA DrainedStage ==
  ASSUME IInv, NEW s \in Stages, Drained(s), ~Cancelling, ~Raised
  PROVE  queue[s] = <<>> /\ \A w \in StageWorkers(s) : pc[w] \in {"idle", "exited", "dead"}
<1>1. ASSUME NEW w \in StageWorkers(s) PROVE pc[w] \in {"idle", "exited", "dead"}
  <2>1. w \in Workers /\ pc[w] \in Pcs
    BY StageWorkersType DEF IInv, TypeOK
  <2>2. pc[w] # "cancelled"
    BY <2>1 DEF IInv, WorkersInv
  <2>3. CASE pc[w] \in Working
    <3>1. item[w] # NoItem /\ pc[w] \notin {"dead", "cancelled"}
      BY <2>1, <2>3, HeldItem DEF Working
    <3>2. item[w] \in Held(StageWorkers(s))
      BY <3>1 DEF Held
    <3> QED BY <3>2 DEF Drained
  <2> QED BY <2>1, <2>2, <2>3 DEF Working
<1> QED BY <1>1 DEF Drained

\* A step of run_pipeline that moves nothing but its own control.
LEMMA RunMoves ==
  ASSUME IInv, UNCHANGED <<queue, pc, item, books, files>>,
         main \in {"downloads", "extracts", "uploads", "gather", "stopping"},
         main' \in {"extracts", "uploads", "gather", "stopping", "leaving", "completed"},
         sentinels' \in Nat, extractQueue' \in {"plain", "open", "closed"}, Joined'
  PROVE  IInv'
<1>1. TypeOK'
  BY DEF IInv, TypeOK, books, files
<1>2. WorkersInv'
  BY DEF IInv, WorkersInv, Cancelling, Raised
<1>3. Once' /\ ProgressTracksWork'
  BY DEF IInv, Once, ProgressTracksWork, books
<1>4. Somewhere'
  BY DEF IInv, Somewhere, books, Raised
<1>5. FailedTasksExact' /\ PublishedExact'
  BY BooksSame DEF files
<1>6. FilesOwned'
  BY DEF IInv, FilesOwned, BundleOwned, StagingOwned, files, books, Forsaken
<1> QED BY <1>1, <1>2, <1>3, <1>4, <1>5, <1>6 DEF IInv

\* The next stage is joined.
LEMMA JoinInv ==
  ASSUME IInv, NEW s \in Stages, Drained(s), UNCHANGED <<queue, pc, item, books, files>>,
         \/ s = "download" /\ main = "downloads" /\ main' = "extracts"
         \/ s = "extract" /\ main = "extracts" /\ main' = "uploads"
         \/ s = "upload" /\ main = "uploads" /\ main' = "gather",
         sentinels' \in Nat, extractQueue' \in {"plain", "open", "closed"}
  PROVE  IInv'
<1>1. queue[s] = <<>> /\ \A w \in StageWorkers(s) : pc[w] \in {"idle", "exited", "dead"}
  BY DrainedStage DEF Cancelling, Raised
<1>2. \A t \in Stages : main' \in AfterJoin(t) => t = s \/ main \in AfterJoin(t)
  BY DEF Stages, AfterJoin
<1>3. Joined'
  BY <1>1, <1>2 DEF IInv, Joined, Raised
<1> QED BY <1>3, RunMoves

\* run_pipeline has joined the download workers.
LEMMA DownloadsJoinedInv == ASSUME IInv, DownloadsJoined PROVE IInv'
<1>1. "download" \in Stages
  BY DEF Stages
<1> QED BY <1>1, JoinInv DEF DownloadsJoined, IInv, TypeOK

\* run_pipeline has joined the extract workers.
LEMMA ExtractsJoinedInv == ASSUME IInv, ExtractsJoined PROVE IInv'
<1>1. "extract" \in Stages
  BY DEF Stages
<1>2. extractQueue' \in {"plain", "open", "closed"}
  BY DEF ExtractsJoined
<1> QED BY <1>1, <1>2, JoinInv DEF ExtractsJoined

\* run_pipeline has joined the upload workers.
LEMMA UploadsJoinedInv == ASSUME IInv, UploadsJoined PROVE IInv'
<1>1. "upload" \in Stages
  BY DEF Stages
<1> QED BY <1>1, JoinInv DEF UploadsJoined, IInv, TypeOK

\* run_pipeline returns.
LEMMA CompleteInv == ASSUME IInv, Complete PROVE IInv'
<1>1. \A t \in Stages : main' \in AfterJoin(t) /\ main \in AfterJoin(t)
  BY DEF Complete, Stages, AfterJoin
<1>2. Joined'
  BY <1>1 DEF IInv, Joined, Complete, Raised
<1> QED BY <1>2, RunMoves DEF Complete, IInv, TypeOK

\* A failure or a cancellation stops the pipeline.
LEMMA StopInv == ASSUME IInv, Stop PROVE IInv'
<1>1. \A t \in Stages : main' \notin AfterJoin(t)
  BY DEF Stop, Stages, AfterJoin
<1>2. Joined'
  BY <1>1 DEF IInv, Joined, Stop, Raised
<1> QED BY <1>2, RunMoves DEF Stop, IInv, TypeOK

\* The handler is left before it has cancelled the workers.
LEMMA LeavingInv ==
  ASSUME IInv, main = "stopping", main' = "leaving",
         UNCHANGED <<sentinels, extractQueue, queue, pc, item, books, files>>
  PROVE  IInv'
<1>1. \A t \in Stages : main' \notin AfterJoin(t)
  BY DEF Stages, AfterJoin
<1>2. Joined'
  BY <1>1 DEF Joined, Raised
<1> QED BY <1>2, RunMoves DEF IInv, TypeOK

\* From one stage of the cancellation to the next, while pc changes at most by idle
\* workers that are gone: nothing else has moved.
LEMMA CancelMoves ==
  ASSUME IInv, UNCHANGED <<sentinels, extractQueue, queue, item, books, files>>,
         ~Raised, ~Forsaken \/ Forsaken',
         main' \in {"cancelling", "abandoning", "abandoned"}, main' = "abandoned" => AllGone',
         \A w \in Workers : pc'[w] = pc[w] \/ (pc[w] = "idle" /\ pc'[w] = "cancelled"),
         pc' \in [Workers -> Pcs]
  PROVE  IInv'
<1>1. UNCHANGED <<progress, failedTasks, tempBundle, staging, published>>
  BY DEF books, files
<1>2. "cancelled" \notin Working /\ "idle" \notin Working
  BY DEF Working
<1>3. TypeOK'
  BY <1>1, <1>2 DEF IInv, TypeOK
<1>4. WorkersInv'
  <2>1. \A s \in Stages : "cancelled" \in StagePcs(s)
    BY DEF Stages, StagePcs
  <2>2. \A s \in Stages : \A w \in StageWorkers(s) : pc'[w] \in StagePcs(s)
    BY <2>1, StageWorkersType DEF IInv, WorkersInv
  <2>3. Cancelling' \/ Raised'
    BY DEF Cancelling, Raised
  <2> QED BY <2>2, <2>3 DEF IInv, WorkersInv
<1>5. Once'
  BY DEF IInv, Once
<1>6. ProgressTracksWork'
  <2>1. \A w \in Workers : pc'[w] \in Working => pc'[w] = pc[w]
    BY <1>2
  <2> QED BY <1>1, <2>1 DEF IInv, ProgressTracksWork
<1>7. Somewhere'
  BY <1>1 DEF IInv, Somewhere
<1>8. FailedTasksExact' /\ PublishedExact'
  BY BooksSame DEF files
<1>9. \A i : BundleOwned(i) => BundleOwned(i)'
  BY <1>1 DEF BundleOwned, Forsaken
<1>10. \A i : StagingOwned(i) => StagingOwned(i)'
  BY <1>1 DEF StagingOwned
<1>11. FilesOwned'
  BY <1>1, <1>9, <1>10 DEF IInv, FilesOwned
<1>12. Joined'
  <2>1. \A t \in Stages : main' \notin AfterJoin(t)
    BY DEF Stages, AfterJoin
  <2> QED BY <2>1 DEF Joined, Raised
<1> QED BY <1>3, <1>4, <1>5, <1>6, <1>7, <1>8, <1>11, <1>12 DEF IInv

\* The workers still running are cancelled, by run_pipeline or after it.
LEMMA CancelTasksInv == ASSUME IInv, CancelTasks \/ LoopCancels PROVE IInv'
<1>1. /\ main \in {"stopping", "leaving"} /\ main' \in {"cancelling", "abandoning"}
      /\ pc' = [w \in Workers |-> IF pc[w] = "idle" THEN "cancelled" ELSE pc[w]]
      /\ UNCHANGED <<sentinels, extractQueue, queue, item, books, files>>
  BY DEF CancelTasks, LoopCancels, CancelAll
<1>2. pc' \in [Workers -> Pcs]
  BY <1>1 DEF IInv, TypeOK, Pcs
<1>3. ~Raised /\ ~Forsaken
  BY <1>1 DEF Raised, Forsaken
<1> QED BY <1>1, <1>2, <1>3, CancelMoves

\* A second cancellation of run_pipeline in its handler.
LEMMA CancelledAgainInv == ASSUME IInv, CancelledAgain PROVE IInv'
<1>1. UNCHANGED <<sentinels, extractQueue, queue, pc, item, books, files>>
  BY DEF CancelledAgain
<1>2. CASE main = "stopping" /\ main' = "leaving"
  BY <1>1, <1>2, LeavingInv
<1>3. CASE main = "cancelling" /\ main' = "abandoning"
  <2>1. ~Raised /\ ~Forsaken /\ pc' \in [Workers -> Pcs]
    BY <1>1, <1>3 DEF Raised, Forsaken, IInv, TypeOK
  <2> QED BY <1>1, <1>3, <2>1, CancelMoves
<1> QED BY <1>2, <1>3 DEF CancelledAgain

\* The run ends without its drain.
LEMMA AbandonedInv == ASSUME IInv, Abandoned PROVE IInv'
<1>1. /\ main = "abandoning" /\ main' = "abandoned" /\ AllGone
      /\ UNCHANGED <<sentinels, extractQueue, queue, pc, item, books, files>>
  BY DEF Abandoned
<1>2. ~Raised /\ Forsaken' /\ AllGone' /\ pc' \in [Workers -> Pcs]
  BY <1>1 DEF Raised, Forsaken, AllGone, IInv, TypeOK
<1> QED BY <1>1, <1>2, CancelMoves

\* One more sentinel in the queue of a stage that is not joined yet.
LEMMA PutSentinelInv ==
  ASSUME IInv, NEW s \in Stages, NEW cap, PutSentinel(s, cap),
         main \notin AfterJoin(s), main \notin {"aborted", "abandoned", "completed"}
  PROVE  IInv'
<1>1. /\ queue' = [queue EXCEPT ![s] = Append(queue[s], Sentinel)]
      /\ sentinels' = sentinels + 1
      /\ UNCHANGED <<main, extractQueue, pc, item, books, files>>
  BY DEF PutSentinel
<1>2. queue[s] \in Seq(Items \cup {Sentinel}) /\ \A t \in Stages : Distinct(queue[t])
  BY DEF IInv, TypeOK, Once
<1>3. /\ Append(queue[s], Sentinel) \in Seq(Items \cup {Sentinel})
      /\ ItemsOf(Append(queue[s], Sentinel)) = ItemsOf(queue[s])
      /\ Distinct(Append(queue[s], Sentinel))
  <2>1. Sentinel \notin ItemsOf(queue[s]) /\ Sentinel \in Items \cup {Sentinel}
    BY DEF ItemsOf
  <2> QED BY <1>2, <2>1, AppendItems
<1>4. /\ queue' \in [Stages -> Seq(Items \cup {Sentinel})]
      /\ queue'[s] = Append(queue[s], Sentinel) /\ \A t \in Stages \ {s} : queue'[t] = queue[t]
  BY <1>1, <1>3, QueueType DEF IInv
<1>5. \A t \in Stages : ItemsOf(queue'[t]) = ItemsOf(queue[t]) /\ Distinct(queue'[t])
  BY <1>2, <1>3, <1>4
<1>6. TypeOK'
  BY <1>1, <1>4 DEF IInv, TypeOK, books, files
<1>7. WorkersInv'
  BY <1>1 DEF IInv, WorkersInv, Cancelling, Raised
<1>8. Once'
  BY <1>1, <1>5 DEF IInv, Once
<1>9. ProgressTracksWork'
  <2>1. \A t \in Stages : \A j \in ItemsOf(queue'[t]) : progress'[j] = WaitingState(t)
    BY <1>1, <1>5, QueuesTracked DEF IInv, ProgressTracksWork, books
  <2>2. \A t \in Stages : \A k \in DOMAIN queue'[t] :
           queue'[t][k] # Sentinel => progress'[queue'[t][k]] = WaitingState(t)
    BY <2>1 DEF ItemsOf, ToSet
  <2> QED BY <1>1, <2>2 DEF IInv, ProgressTracksWork, books
<1>10. Somewhere'
  BY <1>1, <1>5 DEF IInv, Somewhere, books, Raised
<1>11. FailedTasksExact' /\ PublishedExact'
  BY <1>1, BooksSame DEF files
<1>12. FilesOwned'
  <2>1. ItemsOf(queue'["extract"]) = ItemsOf(queue["extract"])
        /\ ItemsOf(queue'["upload"]) = ItemsOf(queue["upload"])
    BY <1>5 DEF Stages
  <2> QED BY <1>1, <2>1 DEF IInv, FilesOwned, BundleOwned, StagingOwned, files, books, Forsaken
<1>13. Joined'
  BY <1>1, <1>4 DEF IInv, Joined, Raised
<1> QED BY <1>6, <1>7, <1>8, <1>9, <1>10, <1>11, <1>12, <1>13 DEF IInv

\* run_pipeline puts a sentinel for each worker of the next stage.
LEMMA SentinelsInv ==
  ASSUME IInv, PutExtractSentinel \/ PutUploadSentinel PROVE IInv'
<1>1. "extract" \in Stages /\ "upload" \in Stages
      /\ "extracts" \notin AfterJoin("extract") /\ "uploads" \notin AfterJoin("upload")
  BY DEF Stages, AfterJoin
<1>2. CASE PutExtractSentinel
  BY <1>1, <1>2, PutSentinelInv DEF PutExtractSentinel
<1>3. CASE PutUploadSentinel
  BY <1>1, <1>3, PutSentinelInv DEF PutUploadSentinel
<1> QED BY <1>2, <1>3

\* A cancelled worker leaves at most the files of its own item behind.
LEMMA CancelWorkerInv ==
  ASSUME IInv, NEW w \in Workers, CancelWorker(w) PROVE IInv'
<1> PICK i : i = item[w]
  OBVIOUS
<1>1. /\ main \in {"cancelling", "abandoning"} /\ pc[w] \in Working
      /\ pc' = [pc EXCEPT ![w] = "cancelled"]
      /\ tempBundle' \in BundleAfterCancel(w) /\ staging' \in StagingAfterCancel(w)
      /\ UNCHANGED <<control, queue, item, books, published>>
  BY DEF CancelWorker
<1>2. /\ TypeOK /\ i \in Items
      /\ tempBundle \subseteq Items \ CachedBundle /\ staging \subseteq Items \ SharedOutput
      /\ NoItem \notin Items
  BY <1>1 DEF IInv, TypeOK, Items, NoItem
<1>3. Unlinked(i) \subseteq tempBundle /\ (i \in Unlinked(i) => i \in Undeletable)
  BY DEF Unlinked
<1>4. Cleared(i) \subseteq staging /\ (i \in Cleared(i) => i \in Unremovable)
  BY DEF Cleared
<1>5. pc' \in [Workers -> Pcs] /\ pc'[w] = "cancelled"
      /\ \A v \in Workers \ {w} : pc'[v] = pc[v]
  BY <1>1, <1>2 DEF TypeOK, Pcs
<1>6. /\ tempBundle' \subseteq Items \ CachedBundle
      /\ tempBundle' \subseteq tempBundle \cup {i}
      /\ i \in tempBundle' \ Undeletable =>
           \/ pc[w] \in {"reserve", "claimed", "fetch", "extract", "cleanup"}
           \/ pc[w] = "put_extract" /\ main = "abandoning"
  <2>1. CASE pc[w] = "reserve"
    BY <1>1, <1>2, <2>1 DEF BundleAfterCancel
  <2>2. CASE pc[w] = "claimed"
    BY <1>1, <1>2, <2>2 DEF BundleAfterCancel
  <2>3. CASE pc[w] \in {"fetch", "extract", "cleanup"}
    BY <1>1, <1>2, <1>3, <2>3 DEF BundleAfterCancel
  <2>4. CASE pc[w] = "put_extract" /\ main = "abandoning"
    BY <1>1, <1>2, <1>3, <2>4 DEF BundleAfterCancel
  <2>5. CASE /\ pc[w] \notin {"reserve", "claimed", "fetch", "extract", "cleanup"}
             /\ ~(pc[w] = "put_extract" /\ main = "abandoning")
    <3>1. tempBundle' = Unlinked(i)
      BY <1>1, <2>5 DEF BundleAfterCancel
    <3> QED BY <1>2, <1>3, <3>1
  <2> QED BY <2>1, <2>2, <2>3, <2>4, <2>5
<1>7. /\ staging' \subseteq staging
      /\ i \in staging' \ Unremovable => pc[w] \in {"extract", "cleanup"}
  <2>1. CASE pc[w] \in {"extract", "cleanup"}
    BY <1>1, <1>4, <2>1 DEF StagingAfterCancel
  <2>2. CASE pc[w] \notin {"extract", "cleanup"}
    BY <1>1, <1>4, <2>2 DEF StagingAfterCancel
  <2> QED BY <2>1, <2>2
<1>8. TypeOK'
  <2>1. \A v \in Workers : pc'[v] \in Working => item'[v] \in Items
    BY <1>1, <1>2, <1>5 DEF TypeOK, Working
  <2> QED BY <1>1, <1>2, <1>5, <1>6, <1>7, <2>1 DEF TypeOK, control, books
<1>9. WorkersInv'
  <2>1. \A s \in Stages : "cancelled" \in StagePcs(s)
    BY DEF Stages, StagePcs
  <2>2. \A s \in Stages : \A v \in StageWorkers(s) : pc'[v] \in StagePcs(s)
    BY <1>5, <2>1, StageWorkersType DEF IInv, WorkersInv
  <2> QED BY <1>1, <1>5, <2>2 DEF IInv, WorkersInv, control, Working, Cancelling
<1>10. Once'
  BY <1>1 DEF IInv, Once
<1>11. ProgressTracksWork'
  <2>1. \A v \in Workers : pc'[v] \in Working => pc'[v] = pc[v]
    BY <1>5 DEF Working
  <2> QED BY <1>1, <2>1 DEF IInv, ProgressTracksWork, books
<1>12. Somewhere'
  BY <1>1 DEF IInv, Somewhere, control, books, Raised
<1>13. FailedTasksExact' /\ PublishedExact'
  BY <1>1, BooksSame
<1>14. progress' = progress /\ progress[i] = PhaseOf(pc[w]) /\ main' = main
  BY <1>1, HeldItem DEF books, control
<1>15. ASSUME NEW j \in tempBundle' PROVE BundleOwned(j)'
  <2>1. CASE j = i
    <3>1. CASE j \in Undeletable
      BY <3>1 DEF BundleOwned
    <3>2. CASE j \notin Undeletable
      <4>1. item'[w] = j
        BY <1>1, <2>1
      <4>2. CASE pc[w] \in {"reserve", "claimed", "fetch", "extract", "cleanup"}
        <5>1. progress'[j] \in {"download_running", "extract_running", "failed"}
          BY <1>14, <2>1, <4>2 DEF PhaseOf
        <5> QED BY <1>5, <4>1, <5>1 DEF BundleOwned
      <4>3. CASE pc[w] = "put_extract" /\ main = "abandoning"
        <5>1. progress'[j] = "extract_waiting" /\ Forsaken'
          BY <1>14, <2>1, <4>3 DEF PhaseOf, Forsaken
        <5> QED BY <5>1 DEF BundleOwned
      <4> QED BY <1>6, <1>15, <2>1, <3>2, <4>2, <4>3
    <3> QED BY <3>1, <3>2
  <2>2. CASE j # i
    <3>1. BundleOwned(j)
      BY <1>6, <1>15, <2>2 DEF IInv, FilesOwned
    <3>2. \A v \in Workers : item[v] = j => pc'[v] = pc[v] /\ item'[v] = item[v]
      BY <1>1, <1>5, <2>2
    <3> QED BY <1>1, <1>14, <3>1, <3>2 DEF BundleOwned, Forsaken
  <2> QED BY <2>1, <2>2
<1>16. ASSUME NEW j \in staging' PROVE StagingOwned(j)'
  <2>1. CASE j = i
    <3>1. CASE j \in Unremovable
      BY <3>1 DEF StagingOwned
    <3>2. CASE j \notin Unremovable
      <4>1. pc[w] \in {"extract", "cleanup"}
        BY <1>7, <1>16, <2>1, <3>2
      <4>2. progress'[j] \in {"extract_running", "failed"}
        BY <1>14, <2>1, <4>1 DEF PhaseOf
      <4>3. item'[w] = j
        BY <1>1, <2>1
      <4> QED BY <1>5, <4>2, <4>3 DEF StagingOwned
    <3> QED BY <3>1, <3>2
  <2>2. CASE j # i
    <3>1. StagingOwned(j)
      BY <1>7, <1>16, <2>2 DEF IInv, FilesOwned
    <3>2. \A v \in Workers : item[v] = j => pc'[v] = pc[v] /\ item'[v] = item[v]
      BY <1>1, <1>5, <2>2
    <3> QED BY <1>1, <1>14, <3>1, <3>2 DEF StagingOwned
  <2> QED BY <2>1, <2>2
<1>17. Joined'
  <2>1. \A t \in Stages : main \notin AfterJoin(t)
    BY <1>1 DEF Stages, AfterJoin
  <2> QED BY <1>1, <2>1 DEF Joined, control, Raised
<1> QED BY <1>8, <1>9, <1>10, <1>11, <1>12, <1>13, <1>15, <1>16, <1>17
        DEF IInv, FilesOwned

\* The run ends by giving up what is queued: what loses its place in a queue loses
\* its files too, or waits for an extraction nobody will make.
LEMMA GiveUpInv ==
  ASSUME IInv, main = "cancelling", AllGone, main' \in {"aborted", "abandoned"},
         UNCHANGED <<sentinels, extractQueue, pc, item, books, published>>,
         queue' \in [Stages -> Seq(Items \cup {Sentinel})],
         \A s \in Stages : Distinct(queue'[s]) /\ ItemsOf(queue'[s]) \subseteq ItemsOf(queue[s]),
         tempBundle' \subseteq tempBundle, staging' \subseteq staging,
         main' = "aborted" => queue'["extract"] = <<>> /\ queue'["upload"] = <<>>,
         main' = "abandoned" \/ tempBundle' \cap ItemsOf(queue["extract"]) \subseteq Undeletable,
         \/ ItemsOf(queue'["upload"]) = ItemsOf(queue["upload"])
         \/ staging' \cap ItemsOf(queue["upload"]) \subseteq Unremovable
  PROVE  IInv'
<1>1. "extract" \in Stages /\ Raised' /\ (main' = "abandoned" => Forsaken') /\ ~Forsaken
  BY DEF Stages, Raised, Forsaken
<1>2. TypeOK'
  BY DEF IInv, TypeOK, books
<1>3. WorkersInv'
  BY <1>1 DEF IInv, WorkersInv
<1>4. Once'
  BY DEF IInv, Once
<1>5. \A t \in Stages : \A j \in ItemsOf(queue[t]) : progress[j] = WaitingState(t)
  BY QueuesTracked DEF IInv, ProgressTracksWork
<1>6. ProgressTracksWork'
  <2>1. \A t \in Stages : \A j \in ItemsOf(queue'[t]) : progress'[j] = WaitingState(t)
    BY <1>5 DEF books
  <2>2. \A t \in Stages : \A k \in DOMAIN queue'[t] :
           queue'[t][k] # Sentinel => progress'[queue'[t][k]] = WaitingState(t)
    BY <2>1 DEF ItemsOf, ToSet
  <2> QED BY <2>2 DEF IInv, ProgressTracksWork, books
<1>7. Somewhere'
  BY <1>1 DEF Somewhere
<1>8. FailedTasksExact' /\ PublishedExact'
  BY BooksSame
<1>9. ASSUME NEW j \in tempBundle' PROVE BundleOwned(j)'
  <2>1. BundleOwned(j)
    BY <1>9 DEF IInv, FilesOwned
  <2>2. CASE j \in ItemsOf(queue["extract"])
    <3>1. CASE main' = "abandoned"
      <4>1. progress'[j] = "extract_waiting"
        BY <1>1, <1>5, <2>2 DEF WaitingState, books
      <4> QED BY <1>1, <3>1, <4>1 DEF BundleOwned
    <3>2. CASE main' # "abandoned"
      <4>1. j \in Undeletable
        BY <1>9, <2>2, <3>2
      <4> QED BY <4>1 DEF BundleOwned
    <3> QED BY <3>1, <3>2
  <2>3. CASE j \notin ItemsOf(queue["extract"])
    BY <1>1, <2>1, <2>3 DEF BundleOwned, books
  <2> QED BY <2>2, <2>3
<1>10. ASSUME NEW j \in staging' PROVE StagingOwned(j)'
  <2>1. StagingOwned(j)
    BY <1>10 DEF IInv, FilesOwned
  <2>2. j \in ItemsOf(queue["upload"]) => j \in ItemsOf(queue'["upload"]) \cup Unremovable
    BY <1>10
  <2> QED BY <2>1, <2>2 DEF StagingOwned, books
<1>11. Joined'
  <2>1. \A t \in Stages : main' \notin AfterJoin(t)
    BY DEF Stages, AfterJoin
  <2> QED BY <2>1 DEF Joined, AllGone
<1> QED BY <1>2, <1>3, <1>4, <1>6, <1>7, <1>8, <1>9, <1>10, <1>11 DEF IInv, FilesOwned

\* The drained queues take their files with them.
LEMMA DrainQueuesInv == ASSUME IInv, DrainQueues PROVE IInv'
<1> DEFINE queued == ToSet(queue["extract"]) \cup ToSet(queue["upload"])
<1>1. /\ main = "cancelling" /\ main' = "aborted" /\ AllGone
      /\ tempBundle' = tempBundle \ (queued \ Undeletable)
      /\ staging' = staging \ (queued \ Unremovable)
      /\ queue' = [queue EXCEPT !["extract"] = <<>>, !["upload"] = <<>>]
      /\ UNCHANGED <<sentinels, extractQueue, pc, item, books, published>>
  BY DEF DrainQueues
<1>2. ItemsOf(queue["extract"]) \subseteq queued /\ ItemsOf(queue["upload"]) \subseteq queued
  BY DEF ItemsOf
<1> HIDE DEF queued
<1>3. /\ queue' \in [Stages -> Seq(Items \cup {Sentinel})]
      /\ queue'["extract"] = <<>> /\ queue'["upload"] = <<>>
      /\ queue'["download"] = queue["download"]
  <2>1. queue \in [Stages -> Seq(Items \cup {Sentinel})] /\ <<>> \in Seq(Items \cup {Sentinel})
    BY DEF IInv, TypeOK
  <2> HIDE DEF IInv
  <2> QED BY <1>1, <2>1 DEF Stages
<1>4. Distinct(<<>>) /\ ItemsOf(<<>>) = {}
  BY DEF Distinct, ItemsOf, ToSet
<1>5. \A s \in Stages : /\ Distinct(queue'[s])
                        /\ ItemsOf(queue'[s]) \subseteq ItemsOf(queue[s])
  BY <1>3, <1>4 DEF IInv, Once, Stages
<1>6. tempBundle' \cap ItemsOf(queue["extract"]) \subseteq Undeletable
  BY <1>1, <1>2
<1>7. staging' \cap ItemsOf(queue["upload"]) \subseteq Unremovable
  BY <1>1, <1>2
<1> QED BY <1>1, <1>3, <1>5, <1>6, <1>7, GiveUpInv

\* The end of a sequence without duplicates has some of its items, and no duplicates.
LEMMA EndItems ==
  ASSUME NEW q \in Seq(Items \cup {Sentinel}), NEW k \in DOMAIN q, Distinct(q)
  PROVE  /\ SubSeq(q, k + 1, Len(q)) \in Seq(Items \cup {Sentinel})
         /\ Distinct(SubSeq(q, k + 1, Len(q)))
         /\ ItemsOf(SubSeq(q, k + 1, Len(q))) \subseteq ItemsOf(q)
<1> DEFINE r == SubSeq(q, k + 1, Len(q))
<1>1. Len(q) \in Nat /\ k \in 1..Len(q) /\ DOMAIN q = 1..Len(q)
  OBVIOUS
<1>2. /\ r \in Seq(Items \cup {Sentinel}) /\ Len(r) = Len(q) - k
      /\ \A j \in 1..(Len(q) - k) : r[j] = q[k + j]
  <2>1. \A j \in (k + 1)..Len(q) : q[j] \in Items \cup {Sentinel}
    BY <1>1, ElementOfSeq
  <2>2. /\ r \in Seq(Items \cup {Sentinel})
        /\ Len(r) = IF k + 1 <= Len(q) THEN Len(q) - (k + 1) + 1 ELSE 0
        /\ \A j \in 1..(Len(q) - (k + 1) + 1) : r[j] = q[(k + 1) + j - 1]
    BY <1>1, <2>1, SubSeqProperties
  <2> HIDE DEF r
  <2>3. Len(r) = Len(q) - k
    BY <1>1, <2>2
  <2>4. \A j \in 1..(Len(q) - k) : j \in 1..(Len(q) - (k + 1) + 1) /\ (k + 1) + j - 1 = k + j
    BY <1>1
  <2> QED BY <2>2, <2>3, <2>4
<1> HIDE DEF r
<1>3. \A j \in DOMAIN r : k + j \in DOMAIN q /\ r[j] = q[k + j]
  BY <1>1, <1>2
<1>4. Distinct(r)
  <2> SUFFICES ASSUME NEW i \in DOMAIN r, NEW j \in DOMAIN r, r[i] = r[j], r[i] # Sentinel
               PROVE  i = j
    BY DEF Distinct
  <2>1. k + i = k + j
    BY <1>3 DEF Distinct
  <2> QED BY <1>1, <1>2, <2>1
<1>5. ItemsOf(r) \subseteq ItemsOf(q)
  BY <1>3 DEF ItemsOf, ToSet
<1> QED BY <1>2, <1>4, <1>5 DEF r

\* A drain that is cut leaves the bundles it has not come to.
LEMMA DrainCutInv == ASSUME IInv, DrainCut PROVE IInv'
<1> PICK k \in DOMAIN queue["extract"] :
       queue' = [queue EXCEPT !["extract"] =
                  IF Adaptive THEN <<>> ELSE SubSeq(@, k + 1, Len(@))]
  BY DEF DrainCut
<1>1. /\ main = "cancelling" /\ main' = "abandoned" /\ AllGone
      /\ tempBundle' \subseteq tempBundle /\ staging' = staging
      /\ UNCHANGED <<sentinels, extractQueue, pc, item, books, published>>
  BY DEF DrainCut
<1>2. /\ queue \in [Stages -> Seq(Items \cup {Sentinel})]
      /\ \A s \in Stages : Distinct(queue[s])
      /\ "extract" \in Stages /\ "upload" \in Stages
  BY DEF IInv, TypeOK, Once, Stages
<1>3. PICK q : /\ queue' = [queue EXCEPT !["extract"] = q]
               /\ q \in Seq(Items \cup {Sentinel}) /\ Distinct(q)
               /\ ItemsOf(q) \subseteq ItemsOf(queue["extract"])
  <2>1. CASE Adaptive
    <3>1. /\ <<>> \in Seq(Items \cup {Sentinel}) /\ Distinct(<<>>)
          /\ ItemsOf(<<>>) \subseteq ItemsOf(queue["extract"])
      BY DEF Distinct, ItemsOf, ToSet
    <3>2. queue' = [queue EXCEPT !["extract"] = <<>>]
      BY <2>1
    <3> QED BY <3>1, <3>2
  <2>2. CASE ~Adaptive
    BY <1>2, <2>2, EndItems
  <2> QED BY <2>1, <2>2
<1>4. /\ queue' \in [Stages -> Seq(Items \cup {Sentinel})]
      /\ queue'["extract"] = q /\ \A s \in Stages \ {"extract"} : queue'[s] = queue[s]
  BY <1>2, <1>3
<1>5. \A s \in Stages : /\ Distinct(queue'[s])
                        /\ ItemsOf(queue'[s]) \subseteq ItemsOf(queue[s])
  BY <1>2, <1>3, <1>4
<1>6. ItemsOf(queue'["upload"]) = ItemsOf(queue["upload"])
  BY <1>2, <1>4
<1> QED BY <1>1, <1>4, <1>5, <1>6, GiveUpInv
-----------------------------------------------------------------------------
(* The invariant, and what follows from it.                                *)

\* In the beginning every item waits in the download queue.
LEMMA InitInv == Init => IInv
<1> SUFFICES ASSUME Init PROVE IInv
  OBVIOUS
<1> DEFINE n == NItems + Cardinality(Downloaders)
           q == queue["download"]
<1>1. TypeOK
  BY InitType
<1>2. n \in Nat /\ NItems \in Nat /\ NItems <= n
  BY StageWorkersType, PipelineAssumption DEF Stages, StageWorkers
<1>3. q = [k \in 1..n |-> IF k <= NItems THEN k ELSE Sentinel]
  BY DEF Init, Stages
<1>4. queue["extract"] = <<>> /\ queue["upload"] = <<>>
  BY DEF Init, Stages
<1> HIDE DEF n, q
<1>5. ItemsOf(q) = Items
  BY <1>2, <1>3 DEF ItemsOf, ToSet, Items, Sentinel
<1>6. Distinct(q)
  BY <1>2, <1>3 DEF Distinct, Sentinel
<1>7. Distinct(<<>>) /\ ItemsOf(<<>>) = {}
  BY DEF Distinct, ItemsOf, ToSet
<1>8. WorkersInv
  <2>1. \A s \in Stages : "idle" \in StagePcs(s)
    BY DEF Stages, StagePcs
  <2> QED BY <2>1, StageWorkersType DEF Init, WorkersInv
<1>9. Once
  <2>1. \A w \in Workers, s \in Stages : item[w] \notin ItemsOf(queue[s])
    BY DEF Init, ItemsOf, NoItem, Sentinel
  <2> QED BY <1>4, <1>6, <1>7, <2>1 DEF Init, Once, Stages, q
<1>10. ProgressTracksWork
  <2>1. \A i \in ItemsOf(q) : progress[i] = WaitingState("download")
    BY <1>5 DEF Init, WaitingState
  <2>2. \A s \in Stages : \A i \in ItemsOf(queue[s]) : progress[i] = WaitingState(s)
    BY <1>4, <1>7, <2>1 DEF Stages, q
  <2>3. \A w \in Workers : pc[w] \notin Working
    BY DEF Init, Working
  <2> QED BY <2>2, <2>3, QueuesTracked DEF ProgressTracksWork
<1>11. Somewhere
  BY <1>5 DEF Somewhere, Stages, q
<1>12. FailedTasksExact /\ PublishedExact
  BY DEF Init, FailedTasksExact, PublishedExact, ToSet, IsInjective
<1>13. FilesOwned
  BY DEF Init, FilesOwned
<1>14. Joined
  <2>1. \A s \in Stages : "downloads" \notin AfterJoin(s)
    BY DEF Stages, AfterJoin
  <2> QED BY <2>1 DEF Init, Joined, Raised
<1> QED BY <1>1, <1>8, <1>9, <1>10, <1>11, <1>12, <1>13, <1>14 DEF IInv

\* A step of a worker keeps the invariant.
LEMMA WorkerNextInv ==
  ASSUME IInv,
         \/ \E w \in Downloaders : DownloadStep(w)
         \/ \E w \in Extractors : ExtractStep(w)
         \/ \E w \in Uploaders : UploadStep(w)
  PROVE  IInv'
<1>1. /\ "download" \in Stages /\ StageWorkers("download") = Downloaders
      /\ "extract" \in Stages /\ StageWorkers("extract") = Extractors
      /\ "upload" \in Stages /\ StageWorkers("upload") = Uploaders
  BY DEF Stages, StageWorkers
<1>2. ASSUME NEW w \in Downloaders, DownloadStep(w) PROVE IInv'
  BY <1>1, <1>2, DownloadGetInv, ReserveInv, FetchedInv, PutExtractInv, DownloadFailInv,
     DownloadDieInv, TakeSentinelInv DEF DownloadStep
<1>3. ASSUME NEW w \in Extractors, ExtractStep(w) PROVE IInv'
  BY <1>1, <1>3, ClaimInv, StartExtractInv, ExtractedInv, PutUploadInv, ExtractFailInv,
     ExtractCleanupInv, ClaimNoneInv, TakeSentinelInv DEF ExtractStep
<1>4. ASSUME NEW w \in Uploaders, UploadStep(w) PROVE IInv'
  BY <1>1, <1>4, UploadGetInv, UploadedInv, UploadFailInv, TakeSentinelInv DEF UploadStep
<1> QED BY <1>2, <1>3, <1>4

\* Every step keeps the invariant.
LEMMA NextInv == IInv /\ [Next]_vars => IInv'
<1> SUFFICES ASSUME IInv, [Next]_vars PROVE IInv'
  OBVIOUS
<1>1. CASE (\E w \in Downloaders : DownloadStep(w)) \/ (\E w \in Extractors : ExtractStep(w))
           \/ (\E w \in Uploaders : UploadStep(w))
  BY <1>1, WorkerNextInv
<1>2. CASE \E w \in Workers : CancelWorker(w)
  BY <1>2, CancelWorkerInv
<1>3. CASE RunStep
  BY <1>3, DownloadsJoinedInv, SentinelsInv, ExtractsJoinedInv, UploadsJoinedInv, CompleteInv,
     StopInv, CancelTasksInv, DrainQueuesInv, AbandonedInv DEF RunStep, WorkerFailure
<1>4. CASE Cancelled \/ CancelledAgain \/ DrainCut
  BY <1>4, StopInv, CancelledAgainInv, DrainCutInv DEF Cancelled
<1>5. CASE UNCHANGED vars
  <2>1. UNCHANGED <<main, sentinels, extractQueue, queue, pc, item, progress, failedTasks,
                    tempBundle, staging, published>>
    BY <1>5 DEF vars, control, books, files
  <2>2. TypeOK' /\ WorkersInv'
    BY <2>1 DEF IInv, TypeOK, WorkersInv, Cancelling, Raised
  <2>3. Once' /\ ProgressTracksWork' /\ Somewhere'
    BY <2>1 DEF IInv, Once, ProgressTracksWork, Somewhere, Raised
  <2>4. FailedTasksExact' /\ PublishedExact'
    BY <2>1, BooksSame DEF books
  <2>5. FilesOwned'
    BY <2>1 DEF IInv, FilesOwned, BundleOwned, StagingOwned, Forsaken
  <2>6. Joined'
    BY <2>1 DEF IInv, Joined, Raised, AllGone
  <2> QED BY <2>2, <2>3, <2>4, <2>5, <2>6 DEF IInv
<1> QED BY <1>1, <1>2, <1>3, <1>4, <1>5 DEF Next, Finished

\* The invariant holds in every run.
THEOREM Invariance == Spec => []IInv
BY InitInv, NextInv, PTL DEF Spec

\* The variables keep the types TypeOK gives them, for any number of items and of
\* workers of each stage.
THEOREM TypeCorrect == Spec => []TypeOK
<1>1. IInv => TypeOK
  BY DEF IInv
<1> QED BY <1>1, Invariance, PTL

\* The state PipelineProgress has booked for an item is that of the worker or the
\* queue that has it: no transition() is ever ignored.
THEOREM ProgressTrue == Spec => []ProgressTracksWork
<1>1. IInv => ProgressTracksWork
  BY DEF IInv
<1> QED BY <1>1, Invariance, PTL

\* failed_tasks lists each failed item once, and no other.
THEOREM FailuresExact == Spec => []FailedTasksExact
<1>1. IInv => FailedTasksExact
  BY DEF IInv
<1> QED BY <1>1, Invariance, PTL

\* What a place of item i is.
LEMMA InPlaces ==
  ASSUME NEW i, NEW x
  PROVE  x \in Places(i)
         <=> \/ \E s \in Stages : x \in {s} \X {k \in DOMAIN queue[s] : queue[s][k] = i}
             \/ x \in {"worker"} \X {w \in Workers : item[w] = i}
<1>1. x \in Places(i) <=> (\E s \in Stages : x \in Slots(s, i)) \/ x \in Hands(i)
  BY DEF Places, Stages
<1> QED BY <1>1 DEF Slots, Hands

\* An item in a queue is at that place only.
LEMMA QueuedOnce ==
  ASSUME IInv, NEW i \in Items, NEW s \in Stages, NEW k \in DOMAIN queue[s], queue[s][k] = i
  PROVE  Places(i) = {<<s, k>>}
<1>1. i # Sentinel /\ i \in ItemsOf(queue[s])
  BY DEF Items, Sentinel, ItemsOf, ToSet
<1>2. \A w \in Workers : item[w] # i
  BY <1>1 DEF IInv, Once
<1>3. ASSUME NEW t \in Stages, NEW j \in DOMAIN queue[t], queue[t][j] = i PROVE t = s /\ j = k
  <2>1. i \in ItemsOf(queue[t])
    BY <1>1, <1>3 DEF ItemsOf, ToSet
  <2>2. WaitingState(t) = WaitingState(s)
    BY <1>1, <2>1, QueuesTracked DEF IInv, ProgressTracksWork
  <2>3. t = s
    BY <2>2 DEF WaitingState, Stages
  <2>4. \A a, b \in DOMAIN queue[s] : queue[s][a] = queue[s][b] /\ queue[s][a] # Sentinel => a = b
    BY DEF IInv, Once, Distinct
  <2> QED BY <1>1, <1>3, <2>3, <2>4
<1>4. ASSUME NEW x PROVE x \in Places(i) <=> x = <<s, k>>
  <2>1. ASSUME NEW t \in Stages
        PROVE  x \in {t} \X {j \in DOMAIN queue[t] : queue[t][j] = i} <=> t = s /\ x = <<s, k>>
    BY <1>3
  <2>2. x \notin {"worker"} \X {w \in Workers : item[w] = i}
    BY <1>2
  <2> QED BY <2>1, <2>2, InPlaces
<1> QED BY <1>4

\* An item in a worker's hands is at that place only.
LEMMA HeldOnce ==
  ASSUME IInv, NEW i \in Items, NEW w \in Workers, item[w] = i
  PROVE  Places(i) = {<<"worker", w>>}
<1>1. \A v \in Workers : item[v] = i => v = w
  BY DEF IInv, Once, Items, NoItem
<1>2. \A s \in Stages : \A k \in DOMAIN queue[s] : queue[s][k] # i
  BY DEF IInv, Once, ItemsOf, ToSet, Items, Sentinel
<1>3. ASSUME NEW x PROVE x \in Places(i) <=> x = <<"worker", w>>
  <2>1. ASSUME NEW s \in Stages
        PROVE  x \notin {s} \X {k \in DOMAIN queue[s] : queue[s][k] = i}
    BY <1>2
  <2>2. x \in {"worker"} \X {v \in Workers : item[v] = i} <=> x = <<"worker", w>>
    BY <1>1
  <2> QED BY <2>1, <2>2, InPlaces
<1> QED BY <1>3

\* No handoff between two stages loses or duplicates a bundle.
THEOREM NoItemDropped == Spec => []NothingDropped
<1>1. ASSUME IInv, ~Raised, NEW i \in Items, progress[i] \notin Outcomes
      PROVE  Cardinality(Places(i)) = 1
  <2>1. \E x : Places(i) = {x}
    <3>1. CASE \E s \in Stages : i \in ItemsOf(queue[s])
      BY <1>1, <3>1, QueuedOnce DEF ItemsOf, ToSet
    <3>2. CASE \E w \in Workers : item[w] = i
      BY <1>1, <3>2, HeldOnce
    <3> QED BY <1>1, <3>1, <3>2 DEF IInv, Somewhere
  <2> QED BY <2>1, FS_Singleton
<1>2. IInv => NothingDropped
  BY <1>1 DEF NothingDropped, Raised
<1> QED BY <1>2, Invariance, PTL

\* A run that returned has nothing queued, nothing claimed, and no temporary bundle
\* or staging directory but those the OS refused to remove.
THEOREM CompletionClean == Spec => []CleanCompletion
<1>1. ASSUME IInv, main = "completed" PROVE CleanCompletion
  <2>1. \A s \in Stages : main \in AfterJoin(s)
    BY <1>1 DEF Stages, AfterJoin
  <2>2. \A s \in Stages : queue[s] = <<>>
    BY <1>1, <2>1 DEF IInv, Joined
  <2>3. \A w \in Workers : pc[w] = "exited" /\ item[w] = NoItem
    BY <1>1 DEF IInv, Joined, WorkersInv
  <2>4. \A s \in Stages : Drained(s)
    BY <2>2, <2>3, StageWorkersType DEF Drained, Held
  <2>5. ItemsOf(queue["extract"]) = {} /\ ItemsOf(queue["upload"]) = {}
    BY <2>2 DEF Stages, ItemsOf, ToSet
  <2>6. staging \subseteq Unremovable
    BY <1>1, <2>3, <2>5 DEF IInv, FilesOwned, StagingOwned
  <2>7. tempBundle \subseteq Undeletable
    BY <1>1, <2>3, <2>5 DEF IInv, FilesOwned, BundleOwned, Forsaken
  <2> QED BY <2>4, <2>6, <2>7 DEF CleanCompletion
<1>2. IInv => CleanCompletion
  BY <1>1 DEF CleanCompletion
<1> QED BY <1>2, Invariance, PTL

\* After a run that raised, a file the OS would have removed belongs to an item a
\* worker was cut with (while reserving, fetching, extracting or cleaning up a
\* failure) or, if the drain was lost, to an item waiting for the next stage.
THEOREM AbortBounded == Spec => []AbortLeftovers
<1>1. ASSUME IInv, Raised PROVE AbortLeftovers
  <2>1. AllGone /\ tempBundle \subseteq Items /\ staging \subseteq Items /\ NoItem \notin Items
    BY <1>1 DEF IInv, Joined, TypeOK, Items, NoItem
  <2>2. main = "aborted" =>
          ItemsOf(queue["extract"]) = {} /\ ItemsOf(queue["upload"]) = {}
    BY <1>1 DEF IInv, Joined, ItemsOf, ToSet
  <2>3. /\ \A j \in ItemsOf(queue["extract"]) : progress[j] = "extract_waiting"
        /\ \A j \in ItemsOf(queue["upload"]) : progress[j] = "upload_waiting"
    BY <1>1, QueuesTracked DEF IInv, ProgressTracksWork, Stages, WaitingState
  <2>4. ASSUME NEW j \in tempBundle \ Undeletable
        PROVE  \/ \E w \in Workers :
                    /\ item[w] = j /\ pc[w] = "cancelled" /\ j # NoItem
                    /\ progress[j] \in {"download_running", "extract_running", "failed"}
               \/ main = "abandoned" /\ j \in Items /\ progress[j] = "extract_waiting"
    <3>1. j # NoItem /\ j \in Items /\ BundleOwned(j)
      BY <1>1, <2>1 DEF IInv, FilesOwned
    <3>2. Forsaken => main = "abandoned"
      BY <1>1 DEF Forsaken, Raised
    <3>3. j \in ItemsOf(queue["extract"]) => main = "abandoned" /\ progress[j] = "extract_waiting"
      BY <1>1, <2>2, <2>3 DEF Raised
    <3> QED BY <2>1, <3>1, <3>2, <3>3 DEF BundleOwned, AllGone
  <2>5. ASSUME NEW j \in staging \ Unremovable
        PROVE  \/ \E w \in Workers :
                    /\ item[w] = j /\ pc[w] = "cancelled" /\ j # NoItem
                    /\ progress[j] \in {"extract_running", "failed"}
               \/ main = "abandoned" /\ j \in Items /\ progress[j] = "upload_waiting"
    <3>1. j # NoItem /\ j \in Items /\ StagingOwned(j)
      BY <1>1, <2>1 DEF IInv, FilesOwned
    <3>2. j \in ItemsOf(queue["upload"]) => main = "abandoned" /\ progress[j] = "upload_waiting"
      BY <1>1, <2>2, <2>3 DEF Raised
    <3> QED BY <2>1, <3>1, <3>2 DEF StagingOwned, AllGone
  <2> QED BY <2>4, <2>5 DEF AbortLeftovers
<1>2. IInv => AbortLeftovers
  BY <1>1 DEF AbortLeftovers, Raised
<1> QED BY <1>2, Invariance, PTL
-----------------------------------------------------------------------------
(* The order of removals.                                                  *)

\* What one step may remove.
RemovalStep ==
  /\ \A i \in tempBundle \ tempBundle' : progress'[i] \in {"upload_waiting", "failed"}
  /\ \A i \in staging \ staging' : progress'[i] \in Outcomes

\* A step that removes at most the files of one item, whose progress allows it.
LEMMA RemovesOne ==
  ASSUME NEW i, tempBundle \subseteq tempBundle' \cup {i}, staging \subseteq staging' \cup {i},
         tempBundle \subseteq tempBundle' \/ progress'[i] \in {"upload_waiting", "failed"},
         staging \subseteq staging' \/ progress'[i] \in Outcomes
  PROVE  RemovalStep
BY DEF RemovalStep

\* Booking a failure or a success of the item a worker holds, and what becomes of
\* the books.
LEMMA FailureBooked ==
  ASSUME IInv, NEW w \in Workers, NEW i, i = item[w],
         \/ w \in Downloaders /\ DownloadFail(w)
         \/ w \in Extractors /\ ExtractFail(w)
         \/ w \in Uploaders /\ UploadFail(w)
  PROVE  /\ i \in Items /\ i \notin ToSet(failedTasks) \cup published
         /\ progress'[i] = "failed" /\ published' = published /\ main' = main /\ Live
         /\ ToSet(failedTasks') = ToSet(failedTasks) \cup {i}
<1>1. /\ Live /\ main' = main /\ published' = published
      /\ pc[w] \in {"reserve", "fetch", "extract", "upload"}
      /\ failedTasks' = Append(failedTasks, i) /\ progress' = Finish(i, "failed")
  BY DEF DownloadFail, ExtractFail, UploadFail, control, files
<1>2. pc[w] \in Working /\ PhaseOf(pc[w]) \notin Outcomes /\ "failed" \in Outcomes
  BY <1>1 DEF Working, Pcs, PhaseOf, Outcomes
<1>3. i \in Items /\ progress[i] \notin Outcomes
  BY <1>2, HeldItem
<1>4. progress'[i] = "failed" /\ \A j \in Items \ {i} : progress'[j] = progress[j]
  BY <1>1, <1>2, <1>3, BookType DEF IInv
<1> QED BY <1>1, <1>3, <1>4, BooksFailed

\* An upload that ends books the item it held.
LEMMA SuccessBooked ==
  ASSUME IInv, NEW w \in Uploaders, NEW i, i = item[w], Uploaded(w)
  PROVE  /\ i \in Items /\ i \notin ToSet(failedTasks) \cup published
         /\ progress'[i] = "succeeded" /\ published' = published \cup {i}
         /\ failedTasks' = failedTasks /\ main' = main /\ Live
<1>1. /\ Live /\ main' = main /\ published' = published \cup {i} /\ pc[w] = "upload"
      /\ failedTasks' = failedTasks /\ progress' = Finish(i, "succeeded")
  BY DEF Uploaded, control
<1>2. pc[w] \in Working /\ PhaseOf(pc[w]) \notin Outcomes /\ w \in Workers
      /\ "succeeded" \in Outcomes
  BY <1>1 DEF Working, Pcs, PhaseOf, Outcomes, Workers
<1>3. i \in Items /\ progress[i] \notin Outcomes
  BY <1>2, HeldItem
<1>4. progress'[i] = "succeeded" /\ \A j \in Items \ {i} : progress'[j] = progress[j]
  BY <1>1, <1>2, <1>3, BookType DEF IInv
<1> QED BY <1>1, <1>3, <1>4, BooksSucceeded

\* The steps of the workers remove in order.
LEMMA WorkerRemovals ==
  ASSUME IInv,
         \/ \E w \in Downloaders : DownloadStep(w)
         \/ \E w \in Extractors : ExtractStep(w)
         \/ \E w \in Uploaders : UploadStep(w)
  PROVE  RemovalStep
<1>1. Downloaders \subseteq Workers /\ Extractors \subseteq Workers /\ Uploaders \subseteq Workers
  BY DEF Workers
<1>2. "failed" \in Outcomes /\ "succeeded" \in Outcomes
  BY DEF Outcomes
<1>3. ASSUME tempBundle \subseteq tempBundle', staging \subseteq staging' PROVE RemovalStep
  BY <1>3 DEF RemovalStep
<1>4. \A i : tempBundle \subseteq Unlinked(i) \cup {i} /\ staging \subseteq Cleared(i) \cup {i}
  BY DEF Unlinked, Cleared
<1>5. ASSUME NEW w \in Downloaders, DownloadStep(w) PROVE RemovalStep
  <2>1. CASE DownloadFail(w)
    <3> PICK i : i = item[w]
      OBVIOUS
    <3>1. progress'[i] = "failed"
      BY <1>1, <2>1, FailureBooked
    <3>2. tempBundle \subseteq tempBundle' \cup {i} /\ staging' = staging
      BY <1>4, <2>1 DEF DownloadFail
    <3> QED BY <1>2, <3>1, <3>2, RemovesOne
  <2>2. CASE Reserve(w)
    BY <1>3, <2>2 DEF Reserve
  <2>3. CASE ~DownloadFail(w) /\ ~Reserve(w)
    BY <1>3, <1>5, <2>3 DEF DownloadStep, DownloadGet, Fetched, PutExtract, DownloadDie,
       TakeSentinel, files
  <2> QED BY <2>1, <2>2, <2>3
<1>6. ASSUME NEW w \in Extractors, ExtractStep(w) PROVE RemovalStep
  <2> PICK i : i = item[w]
    OBVIOUS
  <2>1. CASE Extracted(w)
    <3>1. pc[w] = "extract" /\ pc[w] \in Working /\ PhaseOf("extract") = "extract_running"
      BY <2>1 DEF Extracted, Working, Pcs, PhaseOf
    <3>2. i \in Items /\ progress[i] = "extract_running"
      BY <1>1, <3>1, HeldItem
    <3>3. progress' = Transition(i, "extract_running", "upload_waiting")
      BY <2>1 DEF Extracted
    <3>4. progress'[i] = "upload_waiting"
      BY <3>2, <3>3, BookType DEF IInv, StageStates
    <3>5. tempBundle \subseteq tempBundle' \cup {i} /\ staging' = staging
      BY <1>4, <2>1 DEF Extracted
    <3> QED BY <3>4, <3>5, RemovesOne
  <2>2. CASE ExtractCleanup(w)
    <3>1. pc[w] = "cleanup" /\ pc[w] \in Working /\ PhaseOf("cleanup") = "failed"
      BY <2>2 DEF ExtractCleanup, Working, Pcs, PhaseOf
    <3>2. progress[i] = "failed" /\ progress' = progress
      BY <1>1, <2>2, <3>1, HeldItem DEF ExtractCleanup, books
    <3>3. tempBundle \subseteq tempBundle' \cup {i} /\ staging \subseteq staging' \cup {i}
      BY <1>4, <2>2 DEF ExtractCleanup
    <3> QED BY <1>2, <3>2, <3>3, RemovesOne
  <2>3. CASE StartExtract(w)
    BY <1>3, <2>3 DEF StartExtract
  <2>4. CASE ~Extracted(w) /\ ~ExtractCleanup(w) /\ ~StartExtract(w)
    BY <1>3, <1>6, <2>4 DEF ExtractStep, Claim, PutUpload, ExtractFail, ClaimNone,
       TakeSentinel, files
  <2> QED BY <2>1, <2>2, <2>3, <2>4
<1>7. ASSUME NEW w \in Uploaders, UploadStep(w) PROVE RemovalStep
  <2> PICK i : i = item[w]
    OBVIOUS
  <2>1. CASE Uploaded(w)
    <3>1. progress'[i] = "succeeded"
      BY <2>1, SuccessBooked
    <3>2. tempBundle' = tempBundle /\ staging \subseteq staging' \cup {i}
      BY <1>4, <2>1 DEF Uploaded
    <3> QED BY <1>2, <3>1, <3>2, RemovesOne
  <2>2. CASE UploadFail(w)
    <3>1. progress'[i] = "failed"
      BY <1>1, <2>2, FailureBooked
    <3>2. tempBundle' = tempBundle /\ staging \subseteq staging' \cup {i}
      BY <1>4, <2>2 DEF UploadFail
    <3> QED BY <1>2, <3>1, <3>2, RemovesOne
  <2>3. CASE ~Uploaded(w) /\ ~UploadFail(w)
    BY <1>3, <1>7, <2>3 DEF UploadStep, UploadGet, TakeSentinel, files
  <2> QED BY <2>1, <2>2, <2>3
<1> QED BY <1>5, <1>6, <1>7

\* Unless the run is being cancelled, a bundle is removed only after its download
\* failed or its extraction ended, a staging directory only after its outcome.
THEOREM RemovalsOrdered == Spec => RemovalOrder
<1>1. ASSUME IInv, [Next]_vars, main \notin {"cancelling", "abandoning"} PROVE RemovalStep
  <2>1. CASE (\E w \in Downloaders : DownloadStep(w)) \/ (\E w \in Extractors : ExtractStep(w))
             \/ (\E w \in Uploaders : UploadStep(w))
    BY <1>1, <2>1, WorkerRemovals
  <2>2. CASE UNCHANGED files
    BY <2>2 DEF files, RemovalStep
  <2>3. CASE RunStep \/ Cancelled \/ CancelledAgain \/ DrainCut
    <3>1. UNCHANGED files
      BY <1>1, <2>3 DEF RunStep, Cancelled, DownloadsJoined, PutExtractSentinel,
         PutUploadSentinel, PutSentinel, ExtractsJoined, UploadsJoined, Complete,
         WorkerFailure, Stop, CancelTasks, DrainQueues, CancelledAgain, LoopCancels,
         DrainCut, Abandoned, Cancelling
    <3> QED BY <2>2, <3>1
  <2>4. CASE (\E w \in Workers : CancelWorker(w)) \/ UNCHANGED vars
    BY <1>1, <2>2, <2>4 DEF CancelWorker, vars, Cancelling
  <2> QED BY <1>1, <2>1, <2>3, <2>4 DEF Next, Finished
<1>2. IInv /\ [Next]_vars => [main \notin {"cancelling", "abandoning"} => RemovalStep]_vars
  BY <1>1
<1>3. Spec => [][main \notin {"cancelling", "abandoning"} => RemovalStep]_vars
  BY <1>2, Invariance, PTL DEF Spec
<1> QED BY <1>3 DEF RemovalOrder, RemovalStep
-----------------------------------------------------------------------------
(* Refinement: run_pipeline keeps the promise of BatchRun.                 *)

\* Nothing is resolved at first.
LEMMA BatchInit == Init => Batch!Init
BY DEF Init, Batch!Init, ToSet

\* A run returns only when every item is published or reported as failed.
LEMMA AllResolved ==
  ASSUME IInv, Complete PROVE published \cup ToSet(failedTasks) = Items
<1>1. /\ \A s \in Stages : main \in AfterJoin(s)
      /\ \A w \in Workers : pc[w] = "exited"
      /\ ~Raised
  BY DEF Complete, Stages, AfterJoin, Raised
<1>2. \A s \in Stages : ItemsOf(queue[s]) = {}
  BY <1>1 DEF IInv, Joined, ItemsOf, ToSet
<1>3. \A w \in Workers : item[w] = NoItem
  BY <1>1 DEF IInv, WorkersInv
<1>4. \A i \in Items : progress[i] \in Outcomes
  BY <1>1, <1>2, <1>3 DEF IInv, Somewhere, Items, NoItem
<1> QED BY <1>4 DEF IInv, PublishedExact, FailedTasksExact, Outcomes

\* What main is when the run has ended, or has been left by its handler.
Over == {"completed", "aborted", "leaving", "abandoning", "abandoned"}

\* A step that books nothing and does not end the run is a stutter of BatchRun.
LEMMA BatchStutter ==
  ASSUME UNCHANGED <<failedTasks, published>>,
         \/ main' = main
         \/ {main, main'} \cap Over = {}
         \/ {main, main'} \subseteq {"leaving", "abandoning", "abandoned"}
  PROVE  UNCHANGED Batch!bvars
BY DEF Batch!bvars, Over

\* Every step is a step of BatchRun or a stutter.
LEMMA BatchNext == IInv /\ [Next]_vars => [Batch!Next]_(Batch!bvars)
<1> SUFFICES ASSUME IInv, [Next]_vars PROVE [Batch!Next]_(Batch!bvars)
  OBVIOUS
<1>1. Downloaders \subseteq Workers /\ Extractors \subseteq Workers /\ Uploaders \subseteq Workers
  BY DEF Workers
<1>2. ASSUME NEW w \in Workers,
             \/ w \in Downloaders /\ DownloadFail(w)
             \/ w \in Extractors /\ ExtractFail(w)
             \/ w \in Uploaders /\ UploadFail(w)
      PROVE  Batch!Next
  <2> PICK i : i = item[w]
    OBVIOUS
  <2>1. /\ i \in Items /\ i \notin ToSet(failedTasks) \cup published
        /\ published' = published /\ main' = main /\ Live
        /\ ToSet(failedTasks') = ToSet(failedTasks) \cup {i}
    BY <1>2, FailureBooked
  <2>2. Batch!Fail(i)
    BY <2>1 DEF Batch!Fail, Live
  <2> QED BY <2>1, <2>2 DEF Batch!Next
<1>3. ASSUME NEW w \in Uploaders, Uploaded(w) PROVE Batch!Next
  <2> PICK i : i = item[w]
    OBVIOUS
  <2>1. /\ i \in Items /\ i \notin ToSet(failedTasks) \cup published
        /\ published' = published \cup {i} /\ failedTasks' = failedTasks
        /\ main' = main /\ Live
    BY <1>3, SuccessBooked
  <2>2. Batch!Publish(i)
    BY <2>1 DEF Batch!Publish, Live
  <2> QED BY <2>1, <2>2 DEF Batch!Next
<1>4. ASSUME NEW w \in Downloaders, DownloadStep(w) PROVE [Batch!Next]_(Batch!bvars)
  <2>1. CASE DownloadFail(w)
    BY <1>1, <1>2, <2>1
  <2>2. CASE ~DownloadFail(w)
    <3>1. UNCHANGED <<failedTasks, published, main>>
      BY <1>4, <2>2 DEF DownloadStep, DownloadGet, Reserve, Fetched, PutExtract,
         DownloadDie, TakeSentinel, control, books, files
    <3> QED BY <3>1, BatchStutter
  <2> QED BY <2>1, <2>2
<1>5. ASSUME NEW w \in Extractors, ExtractStep(w) PROVE [Batch!Next]_(Batch!bvars)
  <2>1. CASE ExtractFail(w)
    BY <1>1, <1>2, <2>1
  <2>2. CASE ~ExtractFail(w)
    <3>1. UNCHANGED <<failedTasks, published, main>>
      BY <1>5, <2>2 DEF ExtractStep, Claim, StartExtract, Extracted, PutUpload,
         ExtractCleanup, ClaimNone, TakeSentinel, control, books, files
    <3> QED BY <3>1, BatchStutter
  <2> QED BY <2>1, <2>2
<1>6. ASSUME NEW w \in Uploaders, UploadStep(w) PROVE [Batch!Next]_(Batch!bvars)
  <2>1. CASE UploadFail(w)
    BY <1>1, <1>2, <2>1
  <2>2. CASE Uploaded(w)
    BY <1>3, <2>2
  <2>3. CASE ~UploadFail(w) /\ ~Uploaded(w)
    <3>1. UNCHANGED <<failedTasks, published, main>>
      BY <1>6, <2>3 DEF UploadStep, UploadGet, TakeSentinel, control, books, files
    <3> QED BY <3>1, BatchStutter
  <2> QED BY <2>1, <2>2, <2>3
<1>7. CASE RunStep \/ Cancelled \/ CancelledAgain \/ DrainCut
  <2>1. CASE Complete
    <3>1. /\ main = "gather" /\ main' = "completed"
          /\ UNCHANGED <<failedTasks, published>>
      BY <2>1 DEF Complete, books, files
    <3>2. Batch!Return
      BY <2>1, <3>1, AllResolved DEF Batch!Return
    <3> QED BY <3>2 DEF Batch!Next
  <2>2. CASE DrainQueues
    <3>1. /\ main = "cancelling" /\ main' = "aborted"
          /\ UNCHANGED <<failedTasks, published>>
      BY <2>2 DEF DrainQueues, books
    <3>2. Batch!Raise
      BY <3>1 DEF Batch!Raise
    <3> QED BY <3>2 DEF Batch!Next
  <2>3. CASE CancelledAgain \/ DrainCut
    <3>1. /\ main \in {"stopping", "cancelling"}
          /\ main' \in {"leaving", "abandoning", "abandoned"}
          /\ UNCHANGED <<failedTasks, published>>
      BY <2>3 DEF CancelledAgain, DrainCut, books, files
    <3>2. Batch!Abandon
      BY <3>1 DEF Batch!Abandon
    <3> QED BY <3>2 DEF Batch!Next
  <2>4. CASE LoopCancels \/ Abandoned
    <3>1. /\ {main, main'} \subseteq {"leaving", "abandoning", "abandoned"}
          /\ UNCHANGED <<failedTasks, published>>
      BY <2>4 DEF LoopCancels, Abandoned, books, files
    <3> QED BY <3>1, BatchStutter
  <2>5. CASE /\ ~Complete /\ ~DrainQueues /\ ~CancelledAgain /\ ~DrainCut
             /\ ~LoopCancels /\ ~Abandoned
    <3>1. /\ UNCHANGED <<failedTasks, published>>
          /\ main' = main \/ {main, main'} \cap Over = {}
      BY <1>7, <2>5 DEF RunStep, Cancelled, DownloadsJoined, PutExtractSentinel,
         PutUploadSentinel, PutSentinel, ExtractsJoined, UploadsJoined, WorkerFailure,
         Stop, CancelTasks, books, files, Over
    <3> QED BY <3>1, BatchStutter
  <2> QED BY <2>1, <2>2, <2>3, <2>4, <2>5
<1>8. CASE (\E w \in Workers : CancelWorker(w)) \/ UNCHANGED vars
  <2>1. UNCHANGED <<failedTasks, published, main>>
    BY <1>8 DEF CancelWorker, vars, control, books, files
  <2> QED BY <2>1, BatchStutter
<1> QED BY <1>4, <1>5, <1>6, <1>7, <1>8 DEF Next, Finished

\* run_pipeline implements BatchRun: an item is resolved at most once, the call
\* returns only when all are, and then failed_tasks is exactly what was not published.
THEOREM Refinement == Spec => ImplementsBatchRun
<1>1. Spec => Batch!Spec
  BY BatchInit, BatchNext, Invariance, PTL DEF Spec, Batch!Spec
<1> QED BY <1>1 DEF ImplementsBatchRun
=============================================================================
