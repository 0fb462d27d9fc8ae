----------------------- MODULE ExtractionSchedulerProofs -----------------------
(* Proofs about ExtractionScheduler: its counters, its wakeups, its order.  *)
EXTENDS ExtractionScheduler, FiniteSetTheorems, SequenceTheorems, TLAPS

ProducerPcs == {"idle", "ready", "wait_space"}
WorkerPcs == {"idle", "ready", "wait_admission", "busy", "exited"}
CloserPcs == {"idle", "ready", "wait_admission", "exited"}

\* Who waits for what, and who has an artifact in hand.
Roles ==
  /\ \A p \in Producers : pc[p] \in ProducerPcs /\ (pc[p] # "idle" => holds[p] \in Artifacts)
  /\ \A w \in Workers : pc[w] \in WorkerPcs /\ (pc[w] = "busy" => holds[w] \in Artifacts)
  /\ pc[Closer] \in CloserPcs

\* An artifact is produced once: at a producer, or accepted, or rejected.
OneCopy ==
  /\ \A p \in Producers : holds[p] < next
  /\ \A p, q \in Producers : holds[p] = holds[q] /\ holds[p] # Nothing => p = q
  /\ \A k \in DOMAIN accepted : accepted[k] < next /\ \A p \in Producers : holds[p] # accepted[k]
  /\ IsInjective(accepted)

\* What was accepted and not claimed is pending, in the order of acceptance.
InOrder ==
  /\ ToSet(accepted) = ToSet(claimed) \cup ToSet(pending)
  /\ ToSet(claimed) \cap ToSet(pending) = {}
  /\ \A j, k \in DOMAIN pending : j < k => Precedes(accepted, pending[j], pending[k])

SInv == TypeOK /\ Roles /\ CountersExact /\ NoLostWakeup /\ OneCopy /\ InOrder /\ FifoPerClass
-----------------------------------------------------------------------------
(* Sequences and sets.                                                     *)

\* The entries before k keep their places, those after it move up by one.
LEMMA RemoveAtEntries ==
  ASSUME NEW S, NEW q \in Seq(S), NEW k \in 1..Len(q)
  PROVE  /\ RemoveAt(q, k) \in Seq(S) /\ Len(RemoveAt(q, k)) = Len(q) - 1
         /\ \A j \in 1..(Len(q) - 1) : RemoveAt(q, k)[j] = IF j < k THEN q[j] ELSE q[j + 1]
<1> DEFINE a == SubSeq(q, 1, k - 1)
           b == SubSeq(q, k + 1, Len(q))
<1>1. Len(q) \in Nat /\ k \in Nat /\ k >= 1 /\ k <= Len(q)
  OBVIOUS
<1>2. /\ a \in Seq(S) /\ Len(a) = k - 1
      /\ \A j \in 1..(k - 1) : a[j] = q[j]
  <2>1. \A j \in 1..(k - 1) : q[j] \in S
    BY <1>1, ElementOfSeq
  <2> QED BY <1>1, <2>1, SubSeqProperties
<1>3. /\ b \in Seq(S) /\ Len(b) = Len(q) - k
      /\ \A j \in 1..(Len(q) - k) : b[j] = q[k + j]
  <2>1. \A j \in (k + 1)..Len(q) : q[j] \in S
    BY <1>1, ElementOfSeq
  <2>2. /\ b \in Seq(S) /\ Len(b) = IF k + 1 <= Len(q) THEN Len(q) - (k + 1) + 1 ELSE 0
        /\ \A j \in 1..(Len(q) - (k + 1) + 1) : b[j] = q[(k + 1) + j - 1]
    BY <1>1, <2>1, SubSeqProperties
  <2> HIDE DEF b
  <2> QED BY <1>1, <2>2
<1> HIDE DEF a, b
<1>4. /\ a \o b \in Seq(S) /\ Len(a \o b) = Len(a) + Len(b)
      /\ \A j \in 1..(Len(a) + Len(b)) : (a \o b)[j] = IF j <= Len(a) THEN a[j] ELSE b[j - Len(a)]
  BY <1>2, <1>3, ConcatProperties
<1>5. /\ Len(a \o b) = Len(q) - 1
      /\ \A j \in 1..(Len(q) - 1) : (a \o b)[j] = IF j < k THEN q[j] ELSE q[j + 1]
  BY <1>1, <1>2, <1>3, <1>4
<1> QED BY <1>4, <1>5 DEF RemoveAt, a, b

\* An element appended comes after every other, and the others keep their order.
LEMMA AppendedLast ==
  ASSUME NEW S, NEW s \in Seq(S), NEW x \in S
  PROVE  LET r == Append(s, x) IN
         /\ r \in Seq(S) /\ Len(r) = Len(s) + 1 /\ ToSet(r) = ToSet(s) \cup {x}
         /\ DOMAIN r = DOMAIN s \cup {Len(s) + 1} /\ r[Len(s) + 1] = x
         /\ \A k \in DOMAIN s : r[k] = s[k]
         /\ \A a \in ToSet(s) : Precedes(r, a, x)
         /\ \A a, b : Precedes(s, a, b) => Precedes(r, a, b)
         /\ \A a, b : b # x /\ Precedes(r, a, b) => Precedes(s, a, b)
<1> DEFINE r == Append(s, x)
<1>1. /\ r \in Seq(S) /\ Len(r) = Len(s) + 1 /\ r[Len(s) + 1] = x
      /\ \A k \in 1..Len(s) : r[k] = s[k]
  BY AppendProperties
<1>2. /\ DOMAIN r = DOMAIN s \cup {Len(s) + 1} /\ DOMAIN s = 1..Len(s) /\ Len(s) \in Nat
  BY <1>1
<1> HIDE DEF r
<1>3. ToSet(r) = ToSet(s) \cup {x}
  BY <1>1, <1>2 DEF ToSet
<1>4. \A a \in ToSet(s) : Precedes(r, a, x)
  BY <1>1, <1>2 DEF Precedes, ToSet
<1>5. \A a, b : Precedes(s, a, b) => Precedes(r, a, b)
  BY <1>1, <1>2 DEF Precedes
<1>6. ASSUME NEW a, NEW b, b # x, Precedes(r, a, b) PROVE Precedes(s, a, b)
  BY <1>1, <1>2, <1>6 DEF Precedes
<1> QED BY <1>1, <1>2, <1>3, <1>4, <1>5, <1>6 DEF r
-----------------------------------------------------------------------------
(* Constants and moves.                                                    *)

Pcs == {"idle", "ready", "wait_space", "wait_admission", "busy", "exited"}

\* There is a media slot at least, and a worker left for light artifacts.
LEMMA SlotsType ==
  /\ MediaSlots \in Nat
  /\ ConfiguredSlots < Cardinality(Workers) /\ Cardinality(Workers) > 1
       => MediaSlots < Cardinality(Workers)
<1>1. Cardinality(Workers) \in Nat
  BY SchedulerAssumption, FS_Subset, FS_CardinalityType DEF Tasks
<1> QED BY <1>1, SchedulerAssumption DEF MediaSlots, AdaptiveMediaSlots

\* The busy workers, and those with a media artifact, can be counted.
LEMMA BusyFinite ==
  /\ IsFiniteSet(Busy) /\ IsFiniteSet({w \in Busy : holds[w] \in Media})
  /\ Cardinality(Busy) \in Nat
<1>1. IsFiniteSet(Workers)
  BY SchedulerAssumption, FS_Subset DEF Tasks
<1> QED BY <1>1, FS_Subset, FS_CardinalityType DEF Busy

\* The sequences hold artifacts, which are positive numbers.
LEMMA Entries ==
  ASSUME TypeOK
  PROVE  /\ \A k \in DOMAIN accepted : accepted[k] \in Artifacts
         /\ \A k \in DOMAIN pending : pending[k] \in Artifacts
         /\ \A a \in Artifacts : a \in Nat /\ a # Nothing
<1>1. accepted \in Seq(Artifacts) /\ pending \in Seq(Artifacts)
  BY DEF TypeOK
<1>2. DOMAIN accepted = 1..Len(accepted) /\ DOMAIN pending = 1..Len(pending)
  BY <1>1
<1>3. \A k \in DOMAIN accepted : accepted[k] \in Artifacts
  BY <1>1, <1>2, ElementOfSeq
<1>4. \A k \in DOMAIN pending : pending[k] \in Artifacts
  BY <1>1, <1>2, ElementOfSeq
<1> QED BY <1>3, <1>4 DEF Artifacts, Nothing

\* A task moves and wakes nobody.
LEMMA QuietMove ==
  ASSUME TypeOK, NEW t \in Tasks, NEW p \in Pcs, GoQuietly(t, p)
  PROVE  /\ pc' \in [Tasks -> Pcs] /\ pc'[t] = p
         /\ \A u \in Tasks \ {t} : pc'[u] = pc[u]
  BY DEF TypeOK, GoQuietly, Pcs

\* A task moves and wakes those that wait.
LEMMA WakingMove ==
  ASSUME TypeOK, NEW t \in Tasks, NEW p \in Pcs, NEW wait, Go(t, p, wait)
  PROVE  /\ pc' \in [Tasks -> Pcs] /\ pc'[t] = p
         /\ \A u \in Tasks \ {t} : pc'[u] = IF pc[u] = wait THEN "ready" ELSE pc[u]
  BY DEF TypeOK, Go, Pcs
-----------------------------------------------------------------------------
(* One lemma for each kind of step.                                        *)

\* The state a step that only moves a task leaves alone.
Rest == <<pending, counters, closed, holds, next, history>>

\* A task that goes to wait, or leaves, or begins: what it waits for is missing.
LEMMA QuietKeeps ==
  ASSUME SInv, NEW t \in Tasks, NEW p \in Pcs \ {"busy"}, GoQuietly(t, p),
         UNCHANGED Rest, pc[t] # "busy",
         t \in Producers => pc[t] # "idle" /\ p \in ProducerPcs,
         t \in Workers => p \in WorkerPcs, t = Closer => p \in CloserPcs,
         t \in Workers /\ p = "wait_admission" => ~HasAdmissible,
         t = Closer /\ p = "wait_admission" => ~IsIdle,
         p = "wait_space" => Len(pending) >= Capacity
  PROVE  SInv'
<1>1. /\ pc' \in [Tasks -> Pcs] /\ pc'[t] = p
      /\ \A u \in Tasks \ {t} : pc'[u] = pc[u]
  BY QuietMove DEF SInv
<1>2. /\ pending' = pending /\ active' = active /\ activeMedia' = activeMedia
      /\ closed' = closed /\ holds' = holds /\ next' = next
      /\ accepted' = accepted /\ claimed' = claimed /\ rejected' = rejected
  BY DEF Rest, counters, history
<1>3. TypeOK'
  BY <1>1, <1>2 DEF SInv, TypeOK, Pcs
<1>4. Roles'
  BY <1>1, <1>2 DEF SInv, Roles, Tasks
<1>5. CountersExact'
  <2>1. Busy' = Busy
    BY <1>1 DEF Busy, Tasks
  <2> QED BY <1>2, <2>1 DEF SInv, CountersExact
<1>6. NoLostWakeup'
  BY <1>1, <1>2 DEF SInv, NoLostWakeup, HasAdmissible, Admissible, IsIdle, Tasks
<1>7. OneCopy' /\ InOrder' /\ FifoPerClass'
  BY <1>2 DEF SInv, OneCopy, InOrder, FifoPerClass
<1> QED BY <1>3, <1>4, <1>5, <1>6, <1>7 DEF SInv
\* A producer has the next artifact in hand.
LEMMA ProduceKeeps ==
  ASSUME SInv, NEW t \in Producers, Produce(t) PROVE SInv'
<1>1. /\ pc' \in [Tasks -> Pcs] /\ pc'[t] = "ready" /\ t \in Tasks
      /\ \A u \in Tasks \ {t} : pc'[u] = pc[u]
  BY QuietMove DEF SInv, Produce, Tasks, Pcs
<1>2. /\ pc[t] = "idle" /\ next \in Artifacts /\ next' = next + 1
      /\ holds' = [holds EXCEPT ![t] = next]
      /\ pending' = pending /\ active' = active /\ activeMedia' = activeMedia
      /\ closed' = closed /\ accepted' = accepted /\ claimed' = claimed
      /\ rejected' = rejected
  BY DEF Produce, counters, history
<1>3. /\ holds' \in [Tasks -> Artifacts \cup {Nothing}] /\ holds'[t] = next
      /\ \A u \in Tasks \ {t} : holds'[u] = holds[u]
  BY <1>1, <1>2 DEF SInv, TypeOK
<1>4. TypeOK'
  <2>1. next' \in 1..(NArtifacts + 1)
    BY <1>2, SchedulerAssumption DEF Artifacts
  <2> QED BY <1>1, <1>2, <1>3, <2>1 DEF SInv, TypeOK, Pcs
<1>5. Roles'
  BY <1>1, <1>2, <1>3, SchedulerAssumption DEF SInv, Roles, Tasks, ProducerPcs
<1>6. t \notin Workers /\ t # Closer
  BY SchedulerAssumption
<1>7. CountersExact'
  <2>1. Busy' = Busy /\ {w \in Busy : holds[w] \in Media}' = {w \in Busy : holds[w] \in Media}
    BY <1>1, <1>3, <1>6 DEF Busy, Tasks
  <2> QED BY <1>2, <2>1 DEF SInv, CountersExact
<1>8. NoLostWakeup'
  BY <1>1, <1>2, <1>6 DEF SInv, NoLostWakeup, HasAdmissible, Admissible, IsIdle, Tasks
<1>9. OneCopy'
  <2>1. next \in Nat /\ \A p \in Producers : holds[p] < next /\ holds[p] \in Nat
    BY <1>2 DEF SInv, TypeOK, OneCopy, Artifacts, Nothing, Tasks
  <2>2. \A k \in DOMAIN accepted : accepted[k] \in Nat /\ accepted[k] < next
    BY Entries DEF SInv, OneCopy
  <2> QED BY <1>2, <1>3, <2>1, <2>2 DEF SInv, OneCopy, Tasks
<1>10. InOrder' /\ FifoPerClass'
  BY <1>2 DEF SInv, InOrder, FifoPerClass
<1> QED BY <1>4, <1>5, <1>7, <1>8, <1>9, <1>10 DEF SInv

\* A put that raises drops its artifact.
LEMMA PutRejectedKeeps ==
  ASSUME SInv, NEW t \in Producers, PutRejected(t) PROVE SInv'
<1>1. /\ pc' \in [Tasks -> Pcs] /\ pc'[t] = "idle" /\ t \in Tasks
      /\ \A u \in Tasks \ {t} : pc'[u] = pc[u]
  BY QuietMove DEF SInv, PutRejected, Tasks, Pcs
<1>2. /\ pc[t] = "ready" /\ rejected' = rejected \cup {holds[t]}
      /\ holds' = [holds EXCEPT ![t] = Nothing]
      /\ pending' = pending /\ active' = active /\ activeMedia' = activeMedia
      /\ closed' = closed /\ accepted' = accepted /\ claimed' = claimed
      /\ next' = next
  BY DEF PutRejected, counters
<1>3. /\ holds' \in [Tasks -> Artifacts \cup {Nothing}] /\ holds'[t] = Nothing
      /\ \A u \in Tasks \ {t} : holds'[u] = holds[u]
  BY <1>1, <1>2 DEF SInv, TypeOK
<1>4. TypeOK'
  BY <1>1, <1>2, <1>3 DEF SInv, TypeOK, Roles, Pcs
<1>5. Roles'
  BY <1>1, <1>2, <1>3, SchedulerAssumption DEF SInv, Roles, Tasks, ProducerPcs
<1>6. t \notin Workers /\ t # Closer
  BY SchedulerAssumption
<1>7. CountersExact'
  <2>1. Busy' = Busy /\ {w \in Busy : holds[w] \in Media}' = {w \in Busy : holds[w] \in Media}
    BY <1>1, <1>3, <1>6 DEF Busy, Tasks
  <2> QED BY <1>2, <2>1 DEF SInv, CountersExact
<1>8. NoLostWakeup'
  BY <1>1, <1>2, <1>6 DEF SInv, NoLostWakeup, HasAdmissible, Admissible, IsIdle, Tasks
<1>9. OneCopy'
  <2>1. next \in Nat /\ Nothing < next
    BY DEF SInv, TypeOK, Nothing
  <2>2. \A k \in DOMAIN accepted : accepted[k] # Nothing
    BY Entries DEF SInv
  <2> QED BY <1>2, <1>3, <2>1, <2>2 DEF SInv, OneCopy, Tasks
<1>10. InOrder' /\ FifoPerClass'
  BY <1>2 DEF SInv, InOrder, FifoPerClass
<1> QED BY <1>4, <1>5, <1>7, <1>8, <1>9, <1>10 DEF SInv

\* A put that is accepted wakes the claims.
LEMMA PutKeeps ==
  ASSUME SInv, NEW t \in Producers, Put(t) PROVE SInv'
<1> PICK x : x = holds[t]
  OBVIOUS
<1>1. /\ pc' \in [Tasks -> Pcs] /\ pc'[t] = "idle" /\ t \in Tasks
      /\ \A u \in Tasks \ {t} : pc'[u] = IF pc[u] = "wait_admission" THEN "ready" ELSE pc[u]
  BY WakingMove DEF SInv, Put, Tasks, Pcs
<1>2. /\ pc[t] = "ready" /\ ~closed
      /\ pending' = Append(pending, x) /\ accepted' = Append(accepted, x)
      /\ holds' = [holds EXCEPT ![t] = Nothing]
      /\ active' = active /\ activeMedia' = activeMedia
      /\ closed' = closed /\ claimed' = claimed /\ next' = next /\ rejected' = rejected
  BY DEF Put, counters
<1>3. /\ holds' \in [Tasks -> Artifacts \cup {Nothing}] /\ holds'[t] = Nothing
      /\ \A u \in Tasks \ {t} : holds'[u] = holds[u]
  BY <1>1, <1>2 DEF SInv, TypeOK
<1>4. x \in Artifacts /\ x # Nothing
  BY <1>2 DEF SInv, Roles, Artifacts, Nothing
<1>5. pending \in Seq(Artifacts) /\ accepted \in Seq(Artifacts)
  BY DEF SInv, TypeOK
<1>6. /\ pending' \in Seq(Artifacts) /\ Len(pending') = Len(pending) + 1
      /\ ToSet(pending') = ToSet(pending) \cup {x}
      /\ DOMAIN pending' = DOMAIN pending \cup {Len(pending) + 1}
      /\ pending'[Len(pending) + 1] = x /\ \A k \in DOMAIN pending : pending'[k] = pending[k]
  BY <1>2, <1>4, <1>5, AppendedLast
<1>7. /\ accepted' \in Seq(Artifacts)
      /\ ToSet(accepted') = ToSet(accepted) \cup {x}
      /\ DOMAIN accepted' = DOMAIN accepted \cup {Len(accepted) + 1}
      /\ accepted'[Len(accepted) + 1] = x /\ \A k \in DOMAIN accepted : accepted'[k] = accepted[k]
      /\ \A a \in ToSet(accepted) : Precedes(accepted', a, x)
      /\ \A a, b : Precedes(accepted, a, b) => Precedes(accepted', a, b)
      /\ \A a, b : b # x /\ Precedes(accepted', a, b) => Precedes(accepted, a, b)
  BY <1>2, <1>4, <1>5, AppendedLast
<1>8. x \notin ToSet(accepted)
  BY DEF SInv, OneCopy, ToSet
<1>9. TypeOK'
  BY <1>1, <1>2, <1>3, <1>6, <1>7 DEF SInv, TypeOK, Pcs
<1>10. Roles'
  BY <1>1, <1>2, <1>3, SchedulerAssumption
     DEF SInv, Roles, Tasks, ProducerPcs, WorkerPcs, CloserPcs
<1>11. t \notin Workers /\ t # Closer
  BY SchedulerAssumption
<1>12. CountersExact'
  <2>1. Busy' = Busy /\ {w \in Busy : holds[w] \in Media}' = {w \in Busy : holds[w] \in Media}
    BY <1>1, <1>3, <1>11 DEF Busy, Tasks
  <2> QED BY <1>2, <2>1 DEF SInv, CountersExact
<1>13. NoLostWakeup'
  <2>1. Capacity \in Nat /\ Len(pending) \in Nat
    BY <1>5, SchedulerAssumption
  <2> QED BY <1>1, <1>6, <1>11, <2>1 DEF SInv, NoLostWakeup, Tasks
<1>14. OneCopy'
  <2>1. next \in Nat /\ Nothing < next /\ x < next
    BY DEF SInv, TypeOK, OneCopy, Nothing
  <2>2. \A k \in DOMAIN accepted : accepted[k] # Nothing
    BY Entries DEF SInv
  <2>3. IsInjective(accepted')
    BY <1>7, <1>8 DEF SInv, OneCopy, IsInjective, ToSet
  <2> QED BY <1>2, <1>3, <1>4, <1>7, <2>1, <2>2, <2>3 DEF SInv, OneCopy, Tasks
<1>15. InOrder'
  <2>1. ToSet(accepted') = ToSet(claimed') \cup ToSet(pending')
    BY <1>2, <1>6, <1>7 DEF SInv, InOrder
  <2>2. ToSet(claimed') \cap ToSet(pending') = {}
    BY <1>2, <1>6, <1>8 DEF SInv, InOrder
  <2>3. ASSUME NEW j \in DOMAIN pending', NEW k \in DOMAIN pending', j < k
        PROVE  Precedes(accepted', pending'[j], pending'[k])
    <3>1. DOMAIN pending = 1..Len(pending) /\ Len(pending) \in Nat
      BY <1>5
    <3>2. j \in DOMAIN pending /\ pending[j] \in ToSet(pending) /\ pending'[j] = pending[j]
      BY <1>6, <2>3, <3>1 DEF ToSet
    <3>3. CASE k \in DOMAIN pending
      <4>1. Precedes(accepted, pending[j], pending[k]) /\ pending'[k] = pending[k]
        BY <1>6, <2>3, <3>2, <3>3 DEF SInv, InOrder
      <4> QED BY <1>7, <3>2, <4>1
    <3>4. CASE k = Len(pending) + 1
      BY <1>6, <1>7, <3>2, <3>4 DEF SInv, InOrder
    <3> QED BY <1>6, <3>3, <3>4
  <2> QED BY <2>1, <2>2, <2>3 DEF InOrder
<1>16. FifoPerClass'
  <2>1. x \notin ToSet(claimed)
    BY <1>8 DEF SInv, InOrder
  <2> QED BY <1>2, <1>7, <2>1 DEF SInv, FifoPerClass
<1> QED BY <1>9, <1>10, <1>12, <1>13, <1>14, <1>15, <1>16 DEF SInv
\* A claim takes the first admissible artifact and wakes the puts.
LEMMA ClaimKeeps ==
  ASSUME SInv, NEW w \in Workers, Claim(w) PROVE SInv'
<1> PICK k \in FirstAdmissible :
      /\ pending' = RemoveAt(pending, k)
      /\ holds' = [holds EXCEPT ![w] = pending[k]]
      /\ activeMedia' = activeMedia + (IF pending[k] \in Media THEN 1 ELSE 0)
      /\ claimed' = Append(claimed, pending[k])
  BY DEF Claim
<1> PICK x : x = pending[k]
  OBVIOUS
<1>1. /\ pc' \in [Tasks -> Pcs] /\ pc'[w] = "busy" /\ w \in Tasks
      /\ \A u \in Tasks \ {w} : pc'[u] = IF pc[u] = "wait_space" THEN "ready" ELSE pc[u]
  BY WakingMove DEF SInv, Claim, Tasks, Pcs
<1>2. /\ pc[w] = "ready" /\ active' = active + 1
      /\ closed' = closed /\ next' = next /\ accepted' = accepted /\ rejected' = rejected
      /\ holds' = [holds EXCEPT ![w] = x] /\ claimed' = Append(claimed, x)
      /\ activeMedia' = activeMedia + (IF x \in Media THEN 1 ELSE 0)
  BY DEF Claim
<1>3. /\ k \in DOMAIN pending /\ Admissible(x) /\ x \in Artifacts /\ x \in ToSet(pending)
      /\ \A j \in 1..(k - 1) : ~Admissible(pending[j])
  BY Entries DEF FirstAdmissible, SInv, ToSet
<1>4. pending \in Seq(Artifacts) /\ claimed \in Seq(Artifacts)
      /\ DOMAIN pending = 1..Len(pending) /\ Len(pending) \in Nat /\ k \in 1..Len(pending)
  BY <1>3 DEF SInv, TypeOK
<1>5. /\ holds' \in [Tasks -> Artifacts \cup {Nothing}] /\ holds'[w] = x
      /\ \A u \in Tasks \ {w} : holds'[u] = holds[u]
  BY <1>1, <1>2, <1>3 DEF SInv, TypeOK
<1>6. /\ pending' \in Seq(Artifacts) /\ Len(pending') = Len(pending) - 1
      /\ \A j \in 1..(Len(pending) - 1) :
           pending'[j] = IF j < k THEN pending[j] ELSE pending[j + 1]
  BY <1>4, RemoveAtEntries
<1>7. DOMAIN pending' = 1..(Len(pending) - 1)
  BY <1>6
<1>8. /\ claimed' \in Seq(Artifacts) /\ ToSet(claimed') = ToSet(claimed) \cup {x}
      /\ DOMAIN claimed' = DOMAIN claimed \cup {Len(claimed) + 1}
      /\ claimed'[Len(claimed) + 1] = x /\ \A j \in DOMAIN claimed : claimed'[j] = claimed[j]
      /\ \A a \in ToSet(claimed) : Precedes(claimed', a, x)
      /\ \A a, b : Precedes(claimed, a, b) => Precedes(claimed', a, b)
  BY <1>2, <1>3, <1>4, AppendedLast
<1>9. w \notin Producers /\ w # Closer
  BY SchedulerAssumption
<1>10. TypeOK'
  BY <1>1, <1>2, <1>5, <1>6, <1>8 DEF SInv, TypeOK, Pcs
<1>11. Roles'
  BY <1>1, <1>3, <1>5, <1>9, SchedulerAssumption
     DEF SInv, Roles, Tasks, ProducerPcs, WorkerPcs, CloserPcs
<1>12. CountersExact'
  <2> DEFINE M == {v \in Busy : holds[v] \in Media}
  <2>1. w \notin Busy
    BY <1>2 DEF Busy
  <2>2. Busy' = Busy \cup {w}
    BY <1>1, SchedulerAssumption DEF Busy, Tasks, SInv, Roles, WorkerPcs
  <2>3. M' = IF x \in Media THEN M \cup {w} ELSE M
    BY <1>5, <2>1, <2>2 DEF Busy, Tasks
  <2>4. Cardinality(Busy \cup {w}) = Cardinality(Busy) + 1
    BY <2>1, BusyFinite, FS_AddElement
  <2>5. w \notin M /\ Cardinality(M \cup {w}) = Cardinality(M) + 1
    BY <2>1, BusyFinite, FS_AddElement
  <2>6. activeMedia' <= MediaSlots
    BY <1>2, <1>3, SlotsType DEF SInv, TypeOK, CountersExact, Admissible
  <2>7. M' = {v \in Busy : holds[v] \in Media}'
    OBVIOUS
  <2>8. activeMedia' = Cardinality(M')
    <3> HIDE DEF M
    <3>1. activeMedia = Cardinality(M)
      BY DEF M, SInv, CountersExact
    <3> QED BY <1>2, <2>3, <2>5, <3>1 DEF SInv, TypeOK
  <2>9. active' = Cardinality(Busy')
    BY <1>2, <2>2, <2>4 DEF SInv, CountersExact
  <2> QED BY <2>6, <2>7, <2>8, <2>9 DEF CountersExact
<1>13. NoLostWakeup'
  <2>1. HasAdmissible
    BY <1>3 DEF HasAdmissible
  <2>2. \A v \in Workers : pc[v] # "wait_admission"
    BY <2>1 DEF SInv, NoLostWakeup
  <2>3. \A v \in Workers : pc'[v] # "wait_admission"
    BY <1>1, <2>2 DEF Tasks
  <2>4. ~IsIdle'
    BY <1>2 DEF IsIdle, SInv, TypeOK
  <2>5. \A p \in Producers : pc'[p] # "wait_space"
    BY <1>1, <1>9 DEF Tasks
  <2> QED BY <2>3, <2>4, <2>5 DEF NoLostWakeup
<1>14. OneCopy'
  BY <1>2, <1>5, <1>9 DEF SInv, OneCopy, Tasks
<1>15. \A j, l \in DOMAIN pending : j # l => pending[j] # pending[l]
  <2>1. ASSUME NEW j \in DOMAIN pending, NEW l \in DOMAIN pending, j < l
        PROVE  pending[j] # pending[l]
    <3>1. Precedes(accepted, pending[j], pending[l])
      BY <2>1 DEF SInv, InOrder
    <3>2. DOMAIN accepted \subseteq Nat
      BY DEF SInv, TypeOK
    <3> QED BY <3>1, <3>2 DEF SInv, OneCopy, Precedes, IsInjective
  <2> QED BY <1>4, <2>1
<1> DEFINE at(j) == IF j < k THEN j ELSE j + 1
<1>at. /\ \A j \in DOMAIN pending' : /\ at(j) \in DOMAIN pending /\ at(j) # k
                                     /\ pending'[j] = pending[at(j)]
      /\ \A j, l \in DOMAIN pending' : j < l => at(j) < at(l)
  BY <1>4, <1>6, <1>7
<1>16. ToSet(pending') = ToSet(pending) \ {x}
  <2>1. ASSUME NEW j \in DOMAIN pending' PROVE pending'[j] \in ToSet(pending) \ {x}
    <3>1. PICK l \in DOMAIN pending : l # k /\ pending'[j] = pending[l]
      BY <1>at, <2>1
    <3> QED BY <1>3, <1>15, <3>1 DEF ToSet
  <2>2. ASSUME NEW l \in DOMAIN pending, l # k PROVE pending[l] \in ToSet(pending')
    <3>1. l < k => l \in DOMAIN pending' /\ pending'[l] = pending[l]
      BY <1>4, <1>6, <1>7, <2>2
    <3>2. l > k => l - 1 \in DOMAIN pending' /\ pending'[l - 1] = pending[l]
      BY <1>4, <1>6, <1>7, <2>2
    <3> QED BY <1>4, <2>2, <3>1, <3>2 DEF ToSet
  <2>3. ToSet(pending') \subseteq ToSet(pending) \ {x}
    BY <2>1 DEF ToSet
  <2>4. ToSet(pending) \ {x} \subseteq ToSet(pending')
    BY <1>3, <2>2 DEF ToSet
  <2> QED BY <2>3, <2>4
<1>17. InOrder'
  <2>1. /\ ToSet(accepted') = ToSet(claimed') \cup ToSet(pending')
        /\ ToSet(claimed') \cap ToSet(pending') = {}
    BY <1>2, <1>3, <1>8, <1>16 DEF SInv, InOrder
  <2>2. ASSUME NEW j \in DOMAIN pending', NEW l \in DOMAIN pending', j < l
        PROVE  Precedes(accepted', pending'[j], pending'[l])
    <3>1. \E m, n \in DOMAIN pending : m < n /\ pending'[j] = pending[m] /\ pending'[l] = pending[n]
      <4>1. at(j) < at(l)
        BY <1>at, <2>2
      <4> HIDE DEF at
      <4> QED BY <1>at, <4>1
    <3> QED BY <1>2, <3>1 DEF SInv, InOrder
  <2> QED BY <2>1, <2>2 DEF InOrder
<1>18. FifoPerClass'
  <2>1. x \notin ToSet(claimed)
    BY <1>3 DEF SInv, InOrder
  <2>2. IsInjective(claimed')
    BY <1>8, <2>1 DEF SInv, FifoPerClass, IsInjective, ToSet
  <2>3. ToSet(claimed') \subseteq ToSet(accepted')
    BY <1>2, <1>3, <1>8 DEF SInv, InOrder
  <2>4. ASSUME NEW a \in Artifacts, Precedes(accepted, a, x), a \in Media <=> x \in Media
        PROVE  a \in ToSet(claimed)
    <3>1. a \in ToSet(accepted) /\ a # x
      <4>1. DOMAIN accepted \subseteq Nat
        BY DEF SInv, TypeOK
      <4> QED BY <2>4, <4>1 DEF Precedes, ToSet, SInv, OneCopy, IsInjective
    <3>2. SUFFICES ASSUME a \in ToSet(pending) PROVE FALSE
      BY <3>1 DEF SInv, InOrder
    <3>3. PICK j \in DOMAIN pending : pending[j] = a
      BY <3>2 DEF ToSet
    <3>4. Admissible(a)
      BY <1>3, <2>4 DEF Admissible
    <3>5. ~(j < k)
      BY <1>3, <1>4, <3>3, <3>4
    <3>6. k < j
      BY <1>4, <3>1, <3>3, <3>5
    <3>7. Precedes(accepted, x, a)
      BY <1>3, <3>3, <3>6 DEF SInv, InOrder
    <3>8. DOMAIN accepted \subseteq Nat
      BY DEF SInv, TypeOK
    <3> QED BY <2>4, <3>7, <3>8 DEF Precedes, SInv, OneCopy, IsInjective
  <2>5. ASSUME NEW a \in Artifacts, NEW b \in ToSet(claimed'),
               Precedes(accepted', a, b), a \in Media <=> b \in Media
        PROVE  Precedes(claimed', a, b)
    <3>1. CASE b = x
      BY <1>2, <1>8, <2>4, <2>5, <3>1
    <3>2. CASE b # x
      BY <1>2, <1>8, <2>5, <3>2 DEF SInv, FifoPerClass
    <3> QED BY <3>1, <3>2
  <2> QED BY <2>2, <2>3, <2>5 DEF FifoPerClass
<1> QED BY <1>10, <1>11, <1>12, <1>13, <1>14, <1>17, <1>18 DEF SInv

\* A release gives the slot back and wakes the claims and wait_idle.
LEMMA ReleaseKeeps ==
  ASSUME SInv, NEW w \in Workers, Release(w) PROVE SInv'
<1>1. /\ pc' \in [Tasks -> Pcs] /\ pc'[w] = "idle" /\ w \in Tasks
      /\ \A u \in Tasks \ {w} : pc'[u] = IF pc[u] = "wait_admission" THEN "ready" ELSE pc[u]
  BY WakingMove DEF SInv, Release, Tasks, Pcs
<1>2. /\ pc[w] = "busy" /\ active' = active - 1
      /\ activeMedia' = activeMedia - (IF holds[w] \in Media THEN 1 ELSE 0)
      /\ holds' = [holds EXCEPT ![w] = Nothing]
      /\ pending' = pending /\ closed' = closed /\ next' = next
      /\ accepted' = accepted /\ claimed' = claimed /\ rejected' = rejected
  BY DEF Release, history
<1>3. /\ holds' \in [Tasks -> Artifacts \cup {Nothing}] /\ holds'[w] = Nothing
      /\ \A u \in Tasks \ {w} : holds'[u] = holds[u]
  BY <1>1, <1>2 DEF SInv, TypeOK
<1>4. w \notin Producers /\ w # Closer
  BY SchedulerAssumption
<1> DEFINE M == {v \in Busy : holds[v] \in Media}
<1>5. w \in Busy /\ Busy' = Busy \ {w}
  BY <1>1, <1>2, SchedulerAssumption DEF Busy, Tasks, SInv, Roles, WorkerPcs
<1>6. M' = IF holds[w] \in Media THEN M \ {w} ELSE M
  BY <1>3, <1>5 DEF Busy, Tasks
<1>7. Cardinality(Busy \ {w}) = Cardinality(Busy) - 1
  BY <1>5, BusyFinite, FS_RemoveElement
<1>8. holds[w] \in Media => w \in M /\ Cardinality(M \ {w}) = Cardinality(M) - 1
  BY <1>5, BusyFinite, FS_RemoveElement
<1>9. M' = {v \in Busy : holds[v] \in Media}'
  OBVIOUS
<1>10. /\ Cardinality(Busy') \in Nat /\ Cardinality(M') \in Nat
  <2>1. IsFiniteSet(Workers)
    BY SchedulerAssumption, FS_Subset DEF Tasks
  <2>2. Busy' \subseteq Workers /\ M' \subseteq Workers
    BY DEF Busy
  <2> QED BY <2>1, <2>2, FS_Subset, FS_CardinalityType
<1>11. active' = Cardinality(Busy') /\ activeMedia' = Cardinality(M')
  <2> HIDE DEF M
  <2>1. activeMedia = Cardinality(M) /\ active = Cardinality(Busy)
    BY DEF M, SInv, CountersExact
  <2>2. active' = Cardinality(Busy')
    BY <1>2, <1>5, <1>7, <2>1
  <2>3. activeMedia \in Nat
    BY DEF SInv, TypeOK
  <2> QED BY <1>2, <1>6, <1>8, <2>1, <2>2, <2>3
<1>12. CountersExact'
  <2>1. activeMedia' <= activeMedia /\ activeMedia <= MediaSlots
    BY <1>2 DEF SInv, CountersExact, TypeOK
  <2>2. activeMedia' <= MediaSlots
    BY <1>10, <1>11, <2>1, SlotsType DEF SInv, TypeOK
  <2> QED BY <1>9, <1>11, <2>2 DEF CountersExact
<1>13. TypeOK'
  BY <1>1, <1>2, <1>3, <1>10, <1>11 DEF SInv, TypeOK, Pcs
<1>14. Roles'
  BY <1>1, <1>3, <1>4, SchedulerAssumption
     DEF SInv, Roles, Tasks, ProducerPcs, WorkerPcs, CloserPcs
<1>15. NoLostWakeup'
  BY <1>1, <1>2, <1>4 DEF SInv, NoLostWakeup, Tasks
<1>16. OneCopy'
  BY <1>2, <1>3, <1>4 DEF SInv, OneCopy, Tasks
<1>17. InOrder' /\ FifoPerClass'
  BY <1>2 DEF SInv, InOrder, FifoPerClass
<1> QED BY <1>12, <1>13, <1>14, <1>15, <1>16, <1>17 DEF SInv

\* Closing wakes the claims.
LEMMA CloseKeeps ==
  ASSUME SInv, Close PROVE SInv'
<1>1. /\ pc' \in [Tasks -> Pcs] /\ pc'[Closer] = "exited" /\ Closer \in Tasks
      /\ \A u \in Tasks \ {Closer} :
           pc'[u] = IF pc[u] = "wait_admission" THEN "ready" ELSE pc[u]
  BY WakingMove DEF SInv, Close, Tasks, Pcs
<1>2. /\ closed' = TRUE /\ active' = active /\ activeMedia' = activeMedia /\ holds' = holds
      /\ pending' = pending /\ next' = next
      /\ accepted' = accepted /\ claimed' = claimed /\ rejected' = rejected
  BY DEF Close, history, counters
<1>3. Closer \notin Workers /\ Closer \notin Producers
  BY SchedulerAssumption
<1>4. TypeOK'
  BY <1>1, <1>2 DEF SInv, TypeOK, Pcs
<1>5. Roles'
  BY <1>1, <1>2, <1>3 DEF SInv, Roles, Tasks, ProducerPcs, WorkerPcs, CloserPcs
<1>6. CountersExact'
  <2>1. Busy' = Busy
    BY <1>1, <1>3 DEF Busy, Tasks
  <2> QED BY <1>2, <2>1 DEF SInv, CountersExact
<1>7. NoLostWakeup'
  BY <1>1, <1>2, <1>3 DEF SInv, NoLostWakeup, Tasks
<1>8. OneCopy' /\ InOrder' /\ FifoPerClass'
  BY <1>2 DEF SInv, OneCopy, InOrder, FifoPerClass
<1> QED BY <1>4, <1>5, <1>6, <1>7, <1>8 DEF SInv
-----------------------------------------------------------------------------
(* The invariant, and what it gives.                                       *)

\* Nothing is put and nobody waits at first.
LEMMA SchedulerInit == Init => SInv
<1> SUFFICES ASSUME Init PROVE SInv
  OBVIOUS
<1>1. TypeOK
  <2>1. << >> \in Seq(Artifacts) /\ 1 \in 1..(NArtifacts + 1)
    BY SchedulerAssumption
  <2> QED BY <2>1 DEF Init, TypeOK
<1>2. Roles /\ NoLostWakeup
  BY DEF Init, Roles, NoLostWakeup, Tasks, ProducerPcs, WorkerPcs, CloserPcs
<1>3. CountersExact
  <2>1. Busy = {} /\ {w \in Busy : holds[w] \in Media} = {}
    BY DEF Init, Busy, Tasks
  <2> QED BY <2>1, FS_EmptySet, SlotsType DEF Init, CountersExact
<1>4. OneCopy /\ InOrder /\ FifoPerClass
  BY DEF Init, OneCopy, InOrder, FifoPerClass, Tasks, Nothing, ToSet, IsInjective
<1> QED BY <1>1, <1>2, <1>3, <1>4 DEF SInv

\* Every step keeps the invariant.
LEMMA SchedulerStep == SInv /\ [Next]_vars => SInv'
<1> SUFFICES ASSUME SInv, [Next]_vars PROVE SInv'
  OBVIOUS
<1>1. ASSUME NEW p \in Producers, ProducerStep(p) PROVE SInv'
  <2>1. CASE PutWait(p)
    <3>1. Len(pending) >= Capacity
      BY <2>1, SchedulerAssumption DEF PutWait, HasSpace, SInv, TypeOK
    <3>2. p \in Tasks /\ p \notin Workers /\ p # Closer
      BY SchedulerAssumption DEF Tasks
    <3> QED BY <2>1, <3>1, <3>2, QuietKeeps DEF PutWait, Rest, Pcs, ProducerPcs
  <2> QED BY <1>1, <2>1, ProduceKeeps, PutKeeps, PutRejectedKeeps DEF ProducerStep
<1>2. ASSUME NEW w \in Workers, WorkerStep(w) PROVE SInv'
  <2>1. w \in Tasks /\ w \notin Producers /\ w # Closer
    BY SchedulerAssumption DEF Tasks
  <2>2. CASE StartClaim(w) \/ ClaimNone(w) \/ ClaimWait(w)
    BY <2>1, <2>2, QuietKeeps DEF StartClaim, ClaimNone, ClaimWait, Rest, Pcs, WorkerPcs
  <2> QED BY <1>2, <2>2, ClaimKeeps, ReleaseKeeps DEF WorkerStep
<1>3. CASE CloserStep
  <2>1. Closer \in Tasks /\ Closer \notin Producers /\ Closer \notin Workers
    BY SchedulerAssumption DEF Tasks
  <2>2. CASE StartWaitIdle \/ WaitIdle
    BY <2>1, <2>2, QuietKeeps DEF StartWaitIdle, WaitIdle, Rest, Pcs, CloserPcs
  <2> QED BY <1>3, <2>2, CloseKeeps DEF CloserStep
<1>4. CASE UNCHANGED vars
  <2>1. UNCHANGED Rest /\ pc' = pc
    BY <1>4 DEF vars, Rest
  <2>2. UNCHANGED <<pending, active, activeMedia, closed, holds, next, accepted, claimed, rejected>>
    BY <2>1 DEF Rest, counters, history
  <2>3. TypeOK' /\ Roles' /\ OneCopy' /\ InOrder' /\ FifoPerClass'
    BY <2>1, <2>2 DEF SInv, TypeOK, Roles, OneCopy, InOrder, FifoPerClass
  <2>4. CountersExact' /\ NoLostWakeup'
    BY <2>1, <2>2 DEF SInv, CountersExact, Busy, NoLostWakeup, HasAdmissible, Admissible, IsIdle
  <2> QED BY <2>3, <2>4 DEF SInv
<1> QED BY <1>1, <1>2, <1>3, <1>4 DEF Next, Terminated

\* The strengthening holds in every reachable state.
THEOREM SchedulerInvariance == Spec => []SInv
BY SchedulerInit, SchedulerStep, PTL DEF Spec

\* ExtractionScheduler: every variable keeps its type.
THEOREM SchedulerTypes == Spec => []TypeOK
BY SchedulerInvariance, PTL DEF SInv

\* claim and release keep _active and _active_media exact, and the media cap
\* holds, for any number of workers and slots.
THEOREM SlotsExact == Spec => []CountersExact
BY SchedulerInvariance, PTL DEF SInv

\* notify_all is called where it must be: nobody sleeps on a condition that
\* holds, for any number of tasks and any capacity.
THEOREM WakeupsKept == Spec => []NoLostWakeup
BY SchedulerInvariance, PTL DEF SInv

\* claim returns the artifacts of a class in the order put accepted them.
THEOREM FifoKept == Spec => []FifoPerClass
BY SchedulerInvariance, PTL DEF SInv

\* Unless the configuration gives every worker a media slot, one is left for
\* light artifacts.
THEOREM LightSlot ==
  ASSUME ConfiguredSlots < Cardinality(Workers)
  PROVE  Spec => []LightSlotKept
<1>1. SInv => LightSlotKept
  BY SlotsType, FS_Subset, FS_CardinalityType, SchedulerAssumption
     DEF SInv, CountersExact, TypeOK, LightSlotKept, Tasks
<1> QED BY <1>1, SchedulerInvariance, PTL
=============================================================================
