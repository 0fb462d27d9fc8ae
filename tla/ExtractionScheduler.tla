------------------------ MODULE ExtractionScheduler ------------------------
(***************************************************************************)
(* updater/pipeline/scheduler.py: the admission scheduler of the adaptive  *)
(* extract stage, with its two asyncio conditions.                         *)
(*                                                                         *)
(* No lock is held across an await, so a method runs in one step up to the *)
(* wait of a wait_for, and in one step again each time it is notified.  A  *)
(* task at "wait_space" or "wait_admission" only moves when it is notified,*)
(* which is what makes a lost wakeup visible.                              *)
(*                                                                         *)
(* The clients are those of run_pipeline: Producers are the download       *)
(* workers, Workers the extract workers, and Closer is run_pipeline, which *)
(* waits until the scheduler is idle and closes it.  With AbruptClose the  *)
(* closer may also close at any moment, which the class allows.            *)
(***************************************************************************)
EXTENDS Naturals, Sequences, FiniteSets, SequencesExt

CONSTANTS
  NArtifacts,       \* artifacts are 1..NArtifacts
  Media,            \* those whose bundle name a media hint matches
  Producers, Workers, Closer,
  Capacity,         \* capacity argument
  ConfiguredSlots,  \* EXTRACT_ADAPTIVE_MEDIA_SLOTS, 0 when it is None
  AbruptClose       \* close() without wait_idle()

Artifacts == 1..NArtifacts
Nothing == 0
Tasks == Producers \cup Workers \cup {Closer}

ASSUME SchedulerAssumption ==
  /\ NArtifacts \in Nat /\ Media \subseteq Artifacts
  /\ IsFiniteSet(Tasks) /\ Workers # {}
  /\ Producers \cap Workers = {} /\ Closer \notin Producers \cup Workers
  /\ Capacity \in Nat \ {0} /\ ConfiguredSlots \in Nat
  /\ AbruptClose \in BOOLEAN

\* Mutant: every worker is a media slot by default.
Mut_AllSlots(configured, workers) == workers

\* get_adaptive_media_slots: half the workers by default, never more than all
AdaptiveMediaSlots(configured, workers) ==
  IF configured = 0
  THEN IF workers \div 2 > 1 THEN workers \div 2 ELSE 1
  ELSE IF configured < workers THEN configured ELSE workers

MediaSlots == AdaptiveMediaSlots(ConfiguredSlots, Cardinality(Workers))

VARIABLES
  pending,      \* _pending
  active,       \* _active
  activeMedia,  \* _active_media
  closed,       \* _closed
  pc,           \* task -> the await it is at
  holds,        \* task -> the artifact it puts or has claimed
  next,         \* the next artifact a producer finishes
  accepted,     \* history: artifacts in the order put() accepted them
  claimed,      \* history: artifacts in the order claim() returned them
  rejected      \* history: artifacts whose put() raised

counters == <<active, activeMedia>>
history == <<accepted, claimed, rejected>>
vars == <<pending, counters, closed, pc, holds, next, history>>

Init ==
  /\ pending = <<>> /\ active = 0 /\ activeMedia = 0 /\ closed = FALSE
  /\ pc = [t \in Tasks |-> "idle"]
  /\ holds = [t \in Tasks |-> Nothing]
  /\ next = 1
  /\ accepted = <<>> /\ claimed = <<>> /\ rejected = {}
-----------------------------------------------------------------------------
(* Predicates of the class.                                                *)

Admissible(a) == a \notin Media \/ activeMedia < MediaSlots

HasAdmissible ==
  IF pending = <<>> THEN closed
  ELSE \E k \in DOMAIN pending : Admissible(pending[k])

HasSpace == closed \/ Len(pending) < Capacity

IsIdle == pending = <<>> /\ active = 0

\* Mutant: the newest admissible artifact is claimed.
Mut_LastAdmissible ==
  {k \in DOMAIN pending :
     /\ Admissible(pending[k])
     /\ \A j \in DOMAIN pending : j > k => ~Admissible(pending[j])}

FirstAdmissible ==
  {k \in DOMAIN pending :
     /\ Admissible(pending[k])
     /\ \A j \in 1..(k - 1) : ~Admissible(pending[j])}

\* Task t goes to p while notify_all wakes every task waiting at wait, which
\* evaluates its predicate again.
Go(t, p, wait) ==
  pc' = [u \in Tasks |-> IF u = t THEN p
                         ELSE IF pc[u] = wait THEN "ready" ELSE pc[u]]

GoQuietly(t, p) == pc' = [pc EXCEPT ![t] = p]
-----------------------------------------------------------------------------
(* put, called by the download workers.                                    *)

Produce(p) ==
  /\ pc[p] = "idle" /\ next \in Artifacts
  /\ holds' = [holds EXCEPT ![p] = next]
  /\ next' = next + 1
  /\ GoQuietly(p, "ready")
  /\ UNCHANGED <<pending, counters, closed, history>>

PutWait(p) ==
  /\ pc[p] = "ready" /\ ~HasSpace
  /\ GoQuietly(p, "wait_space")
  /\ UNCHANGED <<pending, counters, closed, holds, next, history>>

\* Mutant: nobody is told about the new artifact.
Mut_PutSilent(p) ==
  /\ pc[p] = "ready" /\ HasSpace /\ ~closed
  /\ pending' = Append(pending, holds[p])
  /\ accepted' = Append(accepted, holds[p])
  /\ holds' = [holds EXCEPT ![p] = Nothing]
  /\ GoQuietly(p, "idle")
  /\ UNCHANGED <<counters, closed, next, claimed, rejected>>

Put(p) ==
  /\ pc[p] = "ready" /\ HasSpace /\ ~closed
  /\ pending' = Append(pending, holds[p])
  /\ accepted' = Append(accepted, holds[p])
  /\ holds' = [holds EXCEPT ![p] = Nothing]
  /\ Go(p, "idle", "wait_admission")
  /\ UNCHANGED <<counters, closed, next, claimed, rejected>>

\* RuntimeError("extraction scheduler is closed")
PutRejected(p) ==
  /\ pc[p] = "ready" /\ closed
  /\ rejected' = rejected \cup {holds[p]}
  /\ holds' = [holds EXCEPT ![p] = Nothing]
  /\ GoQuietly(p, "idle")
  /\ UNCHANGED <<pending, counters, closed, next, accepted, claimed>>
-----------------------------------------------------------------------------
(* claim and release, called by the extract workers.                       *)

StartClaim(w) ==
  /\ pc[w] = "idle"
  /\ GoQuietly(w, "ready")
  /\ UNCHANGED <<pending, counters, closed, holds, next, history>>

ClaimWait(w) ==
  /\ pc[w] = "ready" /\ ~HasAdmissible
  /\ GoQuietly(w, "wait_admission")
  /\ UNCHANGED <<pending, counters, closed, holds, next, history>>

Claim(w) ==
  /\ pc[w] = "ready"
  /\ \E k \in FirstAdmissible :
       LET a == pending[k] IN
       /\ pending' = RemoveAt(pending, k)
       /\ holds' = [holds EXCEPT ![w] = a]
       /\ activeMedia' = activeMedia + (IF a \in Media THEN 1 ELSE 0)
       /\ claimed' = Append(claimed, a)
  /\ active' = active + 1
  /\ Go(w, "busy", "wait_space")
  /\ UNCHANGED <<closed, next, accepted, rejected>>

ClaimNone(w) ==
  /\ pc[w] = "ready" /\ closed /\ pending = <<>>
  /\ GoQuietly(w, "exited")
  /\ UNCHANGED <<pending, counters, closed, holds, next, history>>

\* Mutant: the media slot is not given back.
Mut_ReleaseKeepsSlot(w) ==
  /\ pc[w] = "busy"
  /\ active' = active - 1
  /\ holds' = [holds EXCEPT ![w] = Nothing]
  /\ Go(w, "idle", "wait_admission")
  /\ UNCHANGED <<pending, activeMedia, closed, next, history>>

\* cost_class was stamped by the claim and never changes afterwards
Release(w) ==
  /\ pc[w] = "busy"
  /\ active' = active - 1
  /\ activeMedia' = activeMedia - (IF holds[w] \in Media THEN 1 ELSE 0)
  /\ holds' = [holds EXCEPT ![w] = Nothing]
  /\ Go(w, "idle", "wait_admission")
  /\ UNCHANGED <<pending, closed, next, history>>
-----------------------------------------------------------------------------
(* wait_idle and close, called by run_pipeline once every put is over.     *)

PutsOver == next > NArtifacts /\ \A p \in Producers : pc[p] = "idle"

StartWaitIdle ==
  /\ pc[Closer] = "idle" /\ PutsOver
  /\ GoQuietly(Closer, "ready")
  /\ UNCHANGED <<pending, counters, closed, holds, next, history>>

WaitIdle ==
  /\ pc[Closer] = "ready" /\ ~IsIdle
  /\ GoQuietly(Closer, "wait_admission")
  /\ UNCHANGED <<pending, counters, closed, holds, next, history>>

\* Mutant: close wakes nobody.
Mut_CloseSilent ==
  /\ \/ pc[Closer] = "ready" /\ IsIdle
     \/ pc[Closer] = "idle" /\ AbruptClose
  /\ closed' = TRUE
  /\ GoQuietly(Closer, "exited")
  /\ UNCHANGED <<pending, counters, holds, next, history>>

\* close wakes the claims only: a put blocked by a full queue is woken by the
\* next claim.
Close ==
  /\ \/ pc[Closer] = "ready" /\ IsIdle
     \/ pc[Closer] = "idle" /\ AbruptClose
  /\ closed' = TRUE
  /\ Go(Closer, "exited", "wait_admission")
  /\ UNCHANGED <<pending, counters, holds, next, history>>

Terminated ==
  /\ \A w \in Workers : pc[w] = "exited"
  /\ PutsOver
  /\ UNCHANGED vars

ProducerStep(p) == Produce(p) \/ PutWait(p) \/ Put(p) \/ PutRejected(p)
WorkerStep(w) ==
  StartClaim(w) \/ ClaimWait(w) \/ Claim(w) \/ ClaimNone(w) \/ Release(w)
CloserStep == StartWaitIdle \/ WaitIdle \/ Close

Next ==
  \/ \E p \in Producers : ProducerStep(p)
  \/ \E w \in Workers : WorkerStep(w)
  \/ CloserStep \/ Terminated

Spec == Init /\ [][Next]_vars

\* Every ready task runs, and an extraction ends.
Fairness ==
  /\ \A p \in Producers : WF_vars(ProducerStep(p))
  /\ \A w \in Workers : WF_vars(WorkerStep(w))
  /\ WF_vars(CloserStep)

FairSpec == Spec /\ Fairness
-----------------------------------------------------------------------------
(* Properties.                                                             *)

\* Types; artifacts of the histories are those of the run.
TypeOK ==
  /\ pending \in Seq(Artifacts)
  /\ active \in Nat /\ activeMedia \in Nat
  /\ closed \in BOOLEAN
  /\ pc \in [Tasks -> {"idle", "ready", "wait_space", "wait_admission", "busy", "exited"}]
  /\ holds \in [Tasks -> Artifacts \cup {Nothing}]
  /\ next \in 1..(NArtifacts + 1)
  /\ accepted \in Seq(Artifacts) /\ claimed \in Seq(Artifacts)
  /\ rejected \subseteq Artifacts

Busy == {w \in Workers : pc[w] = "busy"}

\* The counters are exact and the cap holds: _active and _active_media are the
\* numbers of workers that hold an artifact and a media artifact, and the latter
\* never exceeds the slots, however claims, releases and closing interleave.
CountersExact ==
  /\ active = Cardinality(Busy)
  /\ activeMedia = Cardinality({w \in Busy : holds[w] \in Media})
  /\ activeMedia <= MediaSlots

\* Work-conserving without lost wakeups: no worker sleeps while an artifact it
\* could claim is pending, or while it should leave; run_pipeline does not sleep
\* in wait_idle while the scheduler is idle; no download sleeps while a slot of
\* the queue is free.
NoLostWakeup ==
  /\ \A w \in Workers : pc[w] = "wait_admission" => ~HasAdmissible
  /\ pc[Closer] = "wait_admission" => ~IsIdle
  /\ \A p \in Producers : pc[p] = "wait_space" => Len(pending) >= Capacity

Precedes(s, a, b) == \E i, j \in DOMAIN s : i < j /\ s[i] = a /\ s[j] = b

\* "A bounded reordering": an artifact is claimed once, after every artifact of
\* its class that put() accepted before it; only a media artifact is ever
\* overtaken, and by light ones.
FifoPerClass ==
  /\ IsInjective(claimed) /\ ToSet(claimed) \subseteq ToSet(accepted)
  /\ \A a \in Artifacts, b \in ToSet(claimed) :
       Precedes(accepted, a, b) /\ (a \in Media <=> b \in Media)
         => Precedes(claimed, a, b)

\* With the default slots and at least two workers a burst of media artifacts
\* never takes the last worker.
LightSlotKept == Cardinality(Workers) > 1 => activeMedia < Cardinality(Workers)

\* Every accepted artifact is claimed and released, every put returns or raises,
\* and every worker leaves: neither the cap nor the hints starve anything.
AllServed ==
  <>[](/\ ToSet(claimed) = ToSet(accepted) /\ active = 0
       /\ ToSet(accepted) \cup rejected = Artifacts
       /\ \A w \in Workers : pc[w] = "exited")
=============================================================================
