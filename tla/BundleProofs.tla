---------------------------- MODULE BundleProofs ----------------------------
(***************************************************************************)
(* Proofs about the bundles on their way in and out.                       *)
(*                                                                         *)
(* What Download guarantees for any number of downloads, any sizes and any *)
(* number of attempts, however responses, cancellations and the free space *)
(* interleave; and what GlbPackage guarantees of the bundles a package is  *)
(* planned and exported from: the planned ones are the exact closure, the  *)
(* cycles reported are real, and what is exported is complete.             *)
(***************************************************************************)
EXTENDS Download, GlbPackage, FiniteSetTheorems, TLAPS

\* Only a running body has a temporary file, only a reserved name is empty, and a
\* backoff has an attempt to wait for.
Consistent ==
  \A d \in Downloads :
    /\ pc[d] = "body" <=> temp[d] # Absent
    /\ destination[d] = "empty" => d \in Temporary
    /\ pc[d] = "backoff" => attempt[d] < MaxRetries

IInv == TypeOK /\ DestinationAtomic /\ Consistent
-----------------------------------------------------------------------------
\* Init establishes the invariant.
LEMMA InitInv == Init => IInv
<1> SUFFICES ASSUME Init PROVE IInv
  OBVIOUS
<1>1. TypeOK
  <2>1. /\ pc \in [Downloads -> Waiting \cup Ended]
        /\ attempt \in [Downloads -> 0..MaxRetries]
        /\ destination \in [Downloads -> {"empty", "old", "whole", "damaged", "none"}]
        /\ reserved \in Nat /\ free \in Nat /\ disturbed \in BOOLEAN
    <3>1. 0 \in 0..MaxRetries /\ Capacity \in Nat
      BY DownloadAssumption
    <3>2. /\ pc \in [Downloads -> Waiting \cup Ended]
          /\ attempt \in [Downloads -> 0..MaxRetries]
      BY <3>1 DEF Init, Waiting
    <3>3. destination \in [Downloads -> {"empty", "old", "whole", "damaged", "none"}]
      BY DEF Init
    <3>4. reserved \in Nat /\ free \in Nat
      BY <3>1 DEF Init
    <3>5. disturbed \in BOOLEAN
      BY Zenon DEF Init
    <3> QED BY <3>2, <3>3, <3>4, <3>5
  <2>2. /\ body \in [Downloads -> Nat]
        /\ announced \in [Downloads -> Int] /\ temp \in [Downloads -> Int]
        /\ \A d \in Downloads : body[d] = 0 /\ announced[d] = Absent /\ temp[d] = Absent
    BY DEF Init, Absent
  <2>3. ASSUME NEW d \in Downloads PROVE 0 \in 0..Size[d]
    <3>1. Size[d] \in Nat
      BY DownloadAssumption
    <3> QED BY <3>1
  <2> QED BY <2>1, <2>2, <2>3 DEF TypeOK
<1>2. DestinationAtomic /\ Consistent
  BY DEF Init, DestinationAtomic, Consistent, Ended, Absent
<1> QED BY <1>1, <1>2 DEF IInv

\* Removing the temporary file returns a natural number of bytes.
LEMMA DiscardFacts ==
  ASSUME TypeOK, NEW d \in Downloads, DiscardTemp(d)
  PROVE  /\ temp' \in [Downloads -> Int]
         /\ \A e \in Downloads : temp'[e] \in {Absent} \cup 0..Size[e]
         /\ temp'[d] = Absent /\ \A e \in Downloads \ {d} : temp'[e] = temp[e]
         /\ free' \in Nat
  BY DownloadAssumption DEF TypeOK, DiscardTemp, Discarded, Absent

\* Leaving the gate keeps the reservation a natural number.
LEMMA ReleaseFacts ==
  ASSUME TypeOK, NEW d \in Downloads, Release(d)
  PROVE  reserved' \in Nat /\ disturbed' \in BOOLEAN
<1>1. Required[d] \in Nat
  BY DownloadAssumption
<1>2. reserved' \in Nat
  BY <1>1, SMT DEF TypeOK, Release
<1>3. disturbed' \in BOOLEAN
  BY Zenon DEF TypeOK, Release
<1> QED BY <1>2, <1>3

\* Giving up keeps the invariant from every state it is reached in.
LEMMA GiveUpInv ==
  ASSUME IInv, NEW d \in Downloads, NEW end \in {"failed", "cancelled"},
         pc[d] \in Waiting, GiveUp(d, end)
  PROVE  IInv'
<1>1. reserved' \in Nat /\ disturbed' \in BOOLEAN
  BY ReleaseFacts DEF GiveUp, IInv, TypeOK
<1>2. /\ temp' \in [Downloads -> Int]
      /\ \A e \in Downloads : temp'[e] \in {Absent} \cup 0..Size[e]
      /\ temp'[d] = Absent /\ \A e \in Downloads \ {d} : temp'[e] = temp[e]
      /\ free' \in Nat
  BY DiscardFacts DEF GiveUp, IInv
<1>3. /\ pc' \in [Downloads -> Waiting \cup Ended]
      /\ destination' \in [Downloads -> {"empty", "old", "whole", "damaged", "none"}]
      /\ pc'[d] = end /\ destination'[d] = IF d \in Temporary THEN "none" ELSE destination[d]
      /\ \A e \in Downloads \ {d} : pc'[e] = pc[e] /\ destination'[e] = destination[e]
  BY DEF GiveUp, IInv, TypeOK, Ended
<1>4. TypeOK'
  BY <1>1, <1>2, <1>3 DEF GiveUp, response, IInv, TypeOK
<1>5. pc[d] # "saved" /\ destination[d] # "whole" /\ pc'[d] # "saved" /\ pc'[d] # "body"
  BY <1>3 DEF IInv, DestinationAtomic, Waiting
<1>6. DestinationAtomic' /\ Consistent'
  <2>1. attempt' = attempt
    BY DEF GiveUp
  <2>2. DestinationAtomic'
    BY <1>2, <1>3, <1>5 DEF IInv, DestinationAtomic, Consistent
  <2>3. pc'[d] # "backoff" /\ destination'[d] = "empty" => d \in Temporary
    BY <1>3 DEF IInv, Consistent
  <2>4. Consistent'
    BY <1>2, <1>3, <1>5, <2>1, <2>3 DEF IInv, Consistent
  <2> QED BY <2>2, <2>4
<1> QED BY <1>4, <1>6 DEF IInv

\* Every step keeps the invariant.
LEMMA StepInv == IInv /\ [Next]_vars => IInv'
<1> SUFFICES ASSUME IInv, [Next]_vars PROVE IInv'
  OBVIOUS
<1> USE DEF IInv
<1>1. ASSUME NEW d \in Downloads, Admit(d) PROVE IInv'
  <2>3. reserved + Required[d] \in Nat /\ 1 \in 0..MaxRetries
    BY DownloadAssumption DEF TypeOK
  <2>1. TypeOK'
    BY <1>1, <2>3 DEF Admit, TypeOK, response, Waiting
  <2>2. DestinationAtomic' /\ Consistent'
    BY <1>1 DEF Admit, TypeOK, DestinationAtomic, Consistent, Ended
  <2> QED BY <2>1, <2>2
<1>2. ASSUME NEW d \in Downloads, Accept(d) PROVE IInv'
  <2>1. PICK b \in 0..Size[d], n \in {Absent} \cup 0..Size[d] :
          body' = [body EXCEPT ![d] = b] /\ announced' = [announced EXCEPT ![d] = n]
    BY <1>2 DEF Accept
  <2>2. 0 \in 0..Size[d] /\ 0 # Absent
    BY DownloadAssumption DEF Absent
  <2> USE DEF response
  <2>3. /\ body' \in [Downloads -> Nat]
        /\ announced' \in [Downloads -> Int] /\ temp' \in [Downloads -> Int]
    BY <1>2, <2>1, <2>2, DownloadAssumption DEF Accept, TypeOK, Absent
  <2>6. \A e \in Downloads :
          /\ body'[e] \in 0..Size[e] /\ announced'[e] \in {Absent} \cup 0..Size[e]
          /\ temp'[e] \in {Absent} \cup 0..Size[e]
          /\ (e = d => temp'[e] = 0) /\ (e # d => temp'[e] = temp[e])
    BY <1>2, <2>1, <2>2 DEF Accept, TypeOK
  <2>4. TypeOK'
    BY <1>2, <2>3, <2>6 DEF Accept, TypeOK, Waiting
  <2>5. DestinationAtomic' /\ Consistent'
    BY <1>2, <2>2, <2>3, <2>6 DEF Accept, TypeOK, DestinationAtomic, Consistent, Ended
  <2> QED BY <2>4, <2>5
<1>3. ASSUME NEW d \in Downloads, Chunk(d) PROVE IInv'
  <2>1. temp[d] # Absent /\ temp[d] + 1 \in 0..Size[d]
    <3>1. pc[d] = "body" /\ temp[d] < body[d]
      BY <1>3 DEF Chunk
    <3>2. temp[d] # Absent /\ temp[d] \in 0..Size[d] /\ body[d] \in 0..Size[d]
      BY <3>1 DEF TypeOK, Consistent
    <3> QED BY <3>1, <3>2, DownloadAssumption
  <2>2. TypeOK'
    BY <1>3, <2>1 DEF Chunk, TypeOK, response
  <2>3. DestinationAtomic' /\ Consistent'
    BY <1>3, <2>1 DEF Chunk, TypeOK, DestinationAtomic, Consistent, Ended, Absent
  <2> QED BY <2>2, <2>3
<1>4. ASSUME NEW d \in Downloads, Promote(d) PROVE IInv'
  <2>1. reserved' \in Nat /\ disturbed' \in BOOLEAN
    BY <1>4, ReleaseFacts DEF Promote
  <2>2. free' \in Nat
    <3>1. free' = free + (IF destination[d] = "old" THEN Size[d] ELSE 0)
      BY <1>4 DEF Promote
    <3>2. Size[d] \in Nat /\ free \in Nat
      BY DownloadAssumption DEF TypeOK
    <3> QED BY <3>1, <3>2
  <2>3. temp[d] = Size[d]
    BY <1>4 DEF Promote, Valid
  <2>6. /\ pc' \in [Downloads -> Waiting \cup Ended]
        /\ destination' \in [Downloads -> {"empty", "old", "whole", "damaged", "none"}]
    BY <1>4 DEF Promote, TypeOK, Ended
  <2>7. /\ temp' \in [Downloads -> Int]
        /\ \A e \in Downloads : temp'[e] \in {Absent} \cup 0..Size[e]
    BY <1>4 DEF Promote, TypeOK, Absent
  <2>4. TypeOK'
    BY <1>4, <2>1, <2>2, <2>6, <2>7 DEF Promote, TypeOK, response
  <2>5. DestinationAtomic' /\ Consistent'
    BY <1>4, <2>3 DEF Promote, TypeOK, DestinationAtomic, Consistent, Ended
  <2> QED BY <2>4, <2>5
<1>5. ASSUME NEW d \in Downloads, Retry(d) PROVE IInv'
  <2>1. /\ temp' \in [Downloads -> Int]
        /\ \A e \in Downloads : temp'[e] \in {Absent} \cup 0..Size[e]
        /\ temp'[d] = Absent /\ \A e \in Downloads \ {d} : temp'[e] = temp[e]
        /\ free' \in Nat
    BY <1>5, DiscardFacts DEF Retry
  <2>2. TypeOK'
    BY <1>5, <2>1 DEF Retry, TypeOK, response, Waiting
  <2>3. DestinationAtomic' /\ Consistent'
    BY <1>5, <2>1 DEF Retry, TypeOK, DestinationAtomic, Consistent, Ended
  <2> QED BY <2>2, <2>3
<1>6. ASSUME NEW d \in Downloads, NextAttempt(d) PROVE IInv'
  <2>1. attempt[d] + 1 \in 0..MaxRetries
    BY <1>6, DownloadAssumption DEF NextAttempt, TypeOK, Consistent
  <2>2. TypeOK'
    BY <1>6, <2>1 DEF NextAttempt, TypeOK, response, Waiting
  <2>3. DestinationAtomic' /\ Consistent'
    BY <1>6 DEF NextAttempt, TypeOK, DestinationAtomic, Consistent, Ended
  <2> QED BY <2>2, <2>3
<1>7. ASSUME NEW d \in Downloads, Reject(d) \/ Exhaust(d) \/ Cancel(d) PROVE IInv'
  BY <1>7, GiveUpInv DEF Reject, Exhaust, Cancel, Waiting
<1>8. CASE OthersUse
  BY <1>8, DownloadAssumption DEF OthersUse, TypeOK, DestinationAtomic, Consistent, response
<1>9. CASE UNCHANGED vars
  BY <1>9 DEF vars, TypeOK, DestinationAtomic, Consistent, response
<1> QED BY <1>1, <1>2, <1>3, <1>4, <1>5, <1>6, <1>7, <1>8, <1>9 DEF Next, Step

\* The invariant of every behaviour.
LEMMA Invariant == Spec => []IInv
BY InitInv, StepInv, PTL DEF Spec

\* The variables keep their types: no download attempts more often than configured.
THEOREM TypeCorrect == Spec => []TypeOK
BY Invariant, PTL DEF IInv

\* A destination goes from what it was to a whole, valid bundle in one step, and an
\* ended download leaves no temporary file and no empty reserved name.
THEOREM DestinationAtomicAlways == Spec => []DestinationAtomic
BY Invariant, PTL DEF IInv
-----------------------------------------------------------------------------
(* The floor.  Reserved bytes are counted as the elements of a set: byte k *)
(* of download d is <<d, k>>.                                              *)

Admitted == {"request", "body", "backoff"}

\* The bytes that are reserved, and those of them that are not on the disk yet.
Held == {x \in Downloads \X Nat : pc[x[1]] \in Admitted /\ x[2] \in 1..Required[x[1]]}
Unwritten == {x \in Held : x[2] > Discarded(x[1])}

\* Bytes m to n of download d.
Row(d, m, n) == {x \in Downloads \X Nat : x[1] = d /\ x[2] \in m..n}

\* The gate's count is that of the reserved bytes and, unless others took space,
\* there is room for all those still to come.
Ledger ==
  /\ IsFiniteSet(Held) /\ Cardinality(Held) = reserved
  /\ reserved > 0 /\ ~disturbed => free >= MinFree + Cardinality(Unwritten)

\* A row has as many bytes as its bounds say.
LEMMA RowCount ==
  ASSUME NEW d \in Downloads, NEW n \in Nat
  PROVE  IsFiniteSet(Row(d, 1, n)) /\ Cardinality(Row(d, 1, n)) = n
<1> DEFINE S == 1..n
           T == Row(d, 1, n)
           f == [k \in S |-> <<d, k>>]
<1>1. IsFiniteSet(S) /\ Cardinality(S) = n
  BY FS_Interval
<1>2. f \in Bijection(S, T)
  <2>1. f \in [S -> T]
    BY DEF Row
  <2>2. \A i, j \in S : f[i] = f[j] => i = j
    OBVIOUS
  <2>3. \A x \in T : \E k \in S : f[k] = x
    BY DEF Row
  <2> QED BY <2>1, <2>2, <2>3 DEF Bijection, Injection, Surjection, IsInjective
<1>3. ExistsBijection(S, T)
  BY <1>2 DEF ExistsBijection
<1> HIDE DEF S, T
<1>4. IsFiniteSet(T) /\ Cardinality(T) = n
  BY <1>1, <1>3, FS_Bijection
<1> QED BY <1>4 DEF T

\* The cardinalities of two sets with nothing in common add up.
LEMMA Disjoint ==
  ASSUME NEW S, NEW T, IsFiniteSet(S), IsFiniteSet(T), S \cap T = {}
  PROVE  /\ IsFiniteSet(S \cup T)
         /\ Cardinality(S) \in Nat /\ Cardinality(T) \in Nat
         /\ Cardinality(S \cup T) = Cardinality(S) + Cardinality(T)
<1>1. Cardinality(S) \in Nat /\ Cardinality(T) \in Nat /\ Cardinality({}) = 0
  BY FS_CardinalityType, FS_EmptySet
<1>2. /\ IsFiniteSet(S \cup T)
      /\ Cardinality(S \cup T) = Cardinality(S) + Cardinality(T) - Cardinality(S \cap T)
  BY FS_Union
<1>3. Cardinality(S \cap T) = 0
  BY <1>1
<1> QED BY <1>1, <1>2, <1>3

\* What is not written is part of what is held.
LEMMA UnwrittenCount ==
  ASSUME Ledger
  PROVE  /\ IsFiniteSet(Unwritten) /\ Cardinality(Unwritten) \in Nat
         /\ Cardinality(Unwritten) <= reserved
<1>1. Unwritten \in SUBSET Held
  BY DEF Unwritten
<1> QED BY <1>1, FS_Subset, FS_CardinalityType DEF Ledger

\* The bytes of an admitted download are held, and they are at least one.
LEMMA HeldRow ==
  ASSUME TypeOK, NEW d \in Downloads
  PROVE  /\ Required[d] \in Nat \ {0}
         /\ pc[d] \in Admitted => Row(d, 1, Required[d]) \subseteq Held
<1>1. Required[d] \in Nat /\ Size[d] \in Nat \ {0} /\ Required[d] >= Size[d]
  BY DownloadAssumption
<1> QED BY <1>1 DEF Row, Held

\* Nothing changes for the ledger.
LEMMA LedgerSame ==
  ASSUME IInv, Ledger, \A d \in Downloads : pc[d] \in Admitted <=> pc'[d] \in Admitted,
         \A d \in Downloads : Discarded(d)' = Discarded(d),
         reserved' = reserved, free' \in Nat,
         reserved > 0 /\ ~disturbed' => free' >= free /\ ~disturbed
  PROVE  Ledger'
<1>1. Held' = Held
  BY DEF Held
<1>2. Unwritten' = Unwritten
  BY <1>1 DEF Unwritten, Held
<1>3. Cardinality(Unwritten) \in Nat
  BY UnwrittenCount
<1> QED BY <1>1, <1>2, <1>3, DownloadAssumption DEF Ledger, IInv, TypeOK

\* A download leaves the gate.
LEMMA LedgerLeft ==
  ASSUME IInv, Ledger, NEW d \in Downloads, pc[d] \in Admitted, NEW end \in Ended,
         pc' = [pc EXCEPT ![d] = end],
         \A e \in Downloads \ {d} : temp'[e] = temp[e],
         Release(d), free' \in Nat, free' >= free
  PROVE  Ledger'
<1> USE DEF IInv
<1> DEFINE R == Row(d, 1, Required[d])
<1>1. \A e \in Downloads : pc'[e] = IF e = d THEN end ELSE pc[e]
  BY DEF TypeOK
<1>2. end \notin Admitted
  BY DEF Ended, Admitted
<1>3. Held' \cap R = {} /\ Held = Held' \cup R
  BY <1>1, <1>2, HeldRow DEF Held, Row
<1>4. Unwritten' \subseteq Unwritten
  BY <1>1, <1>2 DEF Unwritten, Held, Discarded
<1>5. Required[d] \in Nat \ {0} /\ IsFiniteSet(R) /\ Cardinality(R) = Required[d]
  BY HeldRow, RowCount
<1> HIDE DEF R
<1>6. IsFiniteSet(Held')
  <2>1. Held' \in SUBSET Held
    BY <1>3
  <2> QED BY <2>1, FS_Subset DEF Ledger
<1>7. Cardinality(Held') \in Nat /\ reserved = Cardinality(Held') + Required[d]
  BY <1>3, <1>5, <1>6, Disjoint DEF Ledger
<1>8. Cardinality(Held') = reserved'
  BY <1>5, <1>7 DEF Release
<1>9. /\ Cardinality(Unwritten') \in Nat /\ Cardinality(Unwritten) \in Nat
      /\ Cardinality(Unwritten') <= Cardinality(Unwritten)
  <2>1. Unwritten' \in SUBSET Unwritten
    BY <1>4
  <2> QED BY <2>1, UnwrittenCount, FS_Subset, FS_CardinalityType
<1>10. reserved' > 0 /\ ~disturbed' => reserved > 0 /\ ~disturbed
  <2>1. disturbed' = (disturbed /\ reserved' > 0)
    BY DEF Release
  <2>2. reserved' > 0 /\ ~disturbed' => ~disturbed
    BY <2>1, Zenon
  <2>3. reserved' > 0 => reserved > 0
    BY <1>5, <1>7, <1>8
  <2> QED BY <2>2, <2>3
<1>11. reserved' > 0 /\ ~disturbed' => free' >= MinFree + Cardinality(Unwritten')
  BY <1>9, <1>10, DownloadAssumption DEF Ledger, TypeOK
<1> QED BY <1>6, <1>8, <1>11 DEF Ledger

\* A download is admitted when there is room beside what others have reserved.
LEMMA LedgerAdmit ==
  ASSUME IInv, Ledger, NEW d \in Downloads, Admit(d) PROVE Ledger'
<1> USE DEF IInv
<1> DEFINE R == Row(d, 1, Required[d])
<1>1. /\ pc[d] = "gate" /\ pc' = [pc EXCEPT ![d] = "request"]
      /\ reserved' = reserved + Required[d] /\ free - reserved >= MinFree + Required[d]
      /\ temp' = temp /\ free' = free /\ disturbed' = disturbed
  BY DEF Admit, HasRoom
<1>2. \A e \in Downloads : pc'[e] = IF e = d THEN "request" ELSE pc[e]
  BY <1>1 DEF TypeOK
<1>3. Held' = Held \cup R /\ Held \cap R = {}
  BY <1>1, <1>2, HeldRow DEF Held, Row, Admitted
<1>4. Unwritten' \subseteq Unwritten \cup R
  BY <1>1, <1>3 DEF Unwritten, Discarded
<1>5. Unwritten \cap R = {}
  BY <1>3 DEF Unwritten
<1>6. Required[d] \in Nat \ {0} /\ IsFiniteSet(R) /\ Cardinality(R) = Required[d]
  BY HeldRow, RowCount
<1> HIDE DEF R
<1>7. IsFiniteSet(Held') /\ Cardinality(Held') = reserved'
  BY <1>1, <1>3, <1>6, Disjoint DEF Ledger
<1>8. /\ IsFiniteSet(Unwritten \cup R) /\ Cardinality(Unwritten) \in Nat
      /\ Cardinality(Unwritten \cup R) = Cardinality(Unwritten) + Required[d]
      /\ Cardinality(Unwritten) <= reserved
  BY <1>5, <1>6, UnwrittenCount, Disjoint
<1>9. /\ Cardinality(Unwritten') \in Nat
      /\ Cardinality(Unwritten') <= Cardinality(Unwritten \cup R)
  <2>1. Unwritten' \in SUBSET (Unwritten \cup R)
    BY <1>4
  <2> QED BY <1>8, <2>1, FS_Subset, FS_CardinalityType
<1>10. free' >= MinFree + Cardinality(Unwritten')
  BY <1>1, <1>6, <1>8, <1>9, DownloadAssumption DEF TypeOK
<1> QED BY <1>7, <1>10 DEF Ledger

\* A chunk takes a byte that was held for it, above the floor.
LEMMA LedgerChunk ==
  ASSUME IInv, Ledger, NEW d \in Downloads, Chunk(d)
  PROVE  /\ Ledger'
         /\ ~disturbed => free' >= MinFree
<1> USE DEF IInv
<1> DEFINE k == temp[d] + 1
<1>1. /\ pc[d] = "body" /\ temp[d] < body[d] /\ free' = free - 1
      /\ temp' = [temp EXCEPT ![d] = k]
      /\ pc' = pc /\ reserved' = reserved /\ disturbed' = disturbed
  BY DEF Chunk
<1>2. temp[d] \in Nat /\ k \in 1..Size[d] /\ Size[d] <= Required[d] /\ Required[d] \in Nat
  <2>1. temp[d] # Absent /\ temp[d] \in 0..Size[d] /\ body[d] \in 0..Size[d]
    BY <1>1 DEF TypeOK, Consistent
  <2> QED BY <1>1, <2>1, DownloadAssumption
<1>3. k \in Nat /\ k \in 1..Required[d]
  BY <1>2, DownloadAssumption
<1>4. \A e \in Downloads : temp'[e] = IF e = d THEN k ELSE temp[e]
  BY <1>1 DEF TypeOK
<1>5. Discarded(d) = temp[d] /\ Discarded(d)' = k
  BY <1>2, <1>4 DEF Discarded, Absent
<1>6. Held' = Held
  BY <1>1 DEF Held
<1>7. <<d, k>> \in Unwritten
  BY <1>1, <1>2, <1>3, <1>5 DEF Unwritten, Held, Admitted
<1>8. Unwritten' = Unwritten \ {<<d, k>>}
  <2>1. ASSUME NEW x \in Held
        PROVE  x[2] > Discarded(x[1])' <=> x[2] > Discarded(x[1]) /\ x # <<d, k>>
    <3>1. x = <<x[1], x[2]>> /\ x[1] \in Downloads /\ x[2] \in Nat
      BY DEF Held
    <3>2. CASE x[1] = d
      BY <1>2, <1>5, <3>1, <3>2
    <3>3. CASE x[1] # d
      BY <1>4, <3>1, <3>3 DEF Discarded
    <3> QED BY <3>2, <3>3
  <2> QED BY <1>6, <2>1 DEF Unwritten
<1> HIDE DEF k
<1>9. Cardinality(Unwritten') = Cardinality(Unwritten) - 1
  BY <1>7, <1>8, UnwrittenCount, FS_RemoveElement
<1>10. Cardinality(Unwritten) \in Nat /\ Cardinality(Unwritten) > 0
  BY <1>7, UnwrittenCount, FS_EmptySet
<1>11. reserved > 0
  BY <1>10, UnwrittenCount DEF TypeOK
<1>12. ~disturbed => free >= MinFree + Cardinality(Unwritten)
  BY <1>11 DEF Ledger
<1>13. ~disturbed => free' >= MinFree + Cardinality(Unwritten') /\ free' >= MinFree
  BY <1>1, <1>9, <1>10, <1>12, DownloadAssumption DEF TypeOK
<1> QED BY <1>1, <1>6, <1>13 DEF Ledger

\* A failed attempt gives its bytes back and still holds them.
LEMMA LedgerRetry ==
  ASSUME IInv, Ledger, NEW d \in Downloads, Retry(d) PROVE Ledger'
<1> USE DEF IInv
<1> DEFINE n == Discarded(d)
           R == Row(d, 1, n)
<1>1. /\ pc[d] \in {"request", "body"} /\ pc' = [pc EXCEPT ![d] = "backoff"]
      /\ temp' = [temp EXCEPT ![d] = Absent] /\ free' = free + n
      /\ reserved' = reserved /\ disturbed' = disturbed
  BY DEF Retry, DiscardTemp
<1>2. n \in Nat
  BY DownloadAssumption DEF TypeOK, Discarded, Absent
<1>3. \A e \in Downloads : /\ pc[e] \in Admitted <=> pc'[e] \in Admitted
                           /\ temp'[e] = IF e = d THEN Absent ELSE temp[e]
  BY <1>1 DEF TypeOK, Admitted
<1>4. Held' = Held
  BY <1>3 DEF Held
<1>5. Unwritten' \subseteq Unwritten \cup R
  <2>1. ASSUME NEW x \in Held, x \notin R PROVE x \in Unwritten' => x \in Unwritten
    <3>1. x = <<x[1], x[2]>> /\ x[1] \in Downloads /\ x[2] \in 1..Required[x[1]]
      BY DEF Held
    <3>2. CASE x[1] = d
      <4>1. x[2] > n
        BY <1>2, <2>1, <3>1, <3>2, DownloadAssumption DEF Row
      <4> QED BY <3>2, <4>1 DEF Unwritten
    <3>3. CASE x[1] # d
      BY <1>3, <3>1, <3>3 DEF Unwritten, Discarded
    <3> QED BY <3>2, <3>3
  <2> QED BY <1>4, <2>1 DEF Unwritten
<1>6. Unwritten \cap R = {}
  BY <1>2, DownloadAssumption DEF Unwritten, Held, Row
<1>7. IsFiniteSet(R) /\ Cardinality(R) = n
  BY <1>2, RowCount
<1> HIDE DEF R, n
<1>8. /\ IsFiniteSet(Unwritten \cup R) /\ Cardinality(Unwritten) \in Nat
      /\ Cardinality(Unwritten \cup R) = Cardinality(Unwritten) + n
  BY <1>6, <1>7, UnwrittenCount, Disjoint
<1>9. /\ Cardinality(Unwritten') \in Nat
      /\ Cardinality(Unwritten') <= Cardinality(Unwritten \cup R)
  <2>1. Unwritten' \in SUBSET (Unwritten \cup R)
    BY <1>5
  <2> QED BY <1>8, <2>1, FS_Subset, FS_CardinalityType
<1>10. reserved' > 0 /\ ~disturbed' => free' >= MinFree + Cardinality(Unwritten')
  BY <1>1, <1>2, <1>8, <1>9, DownloadAssumption DEF Ledger, TypeOK
<1> QED BY <1>1, <1>4, <1>10 DEF Ledger

\* Giving up frees what was written, and what was held unless still at the gate.
LEMMA LedgerGiveUp ==
  ASSUME IInv, Ledger, NEW d \in Downloads, NEW end \in {"failed", "cancelled"},
         pc[d] \in Waiting, GiveUp(d, end)
  PROVE  Ledger'
<1> USE DEF IInv
<1>1. /\ pc' = [pc EXCEPT ![d] = end] /\ temp' = [temp EXCEPT ![d] = Absent]
      /\ free' = free + Discarded(d)
      /\ pc[d] # "gate" => Release(d)
      /\ pc[d] = "gate" => reserved' = reserved /\ disturbed' = disturbed
  BY DEF GiveUp, DiscardTemp
<1>2. Discarded(d) \in Nat
  BY DownloadAssumption DEF TypeOK, Discarded, Absent
<1>3. free' \in Nat /\ free' >= free
  BY <1>1, <1>2 DEF TypeOK
<1>4. /\ \A e \in Downloads : pc'[e] = IF e = d THEN end ELSE pc[e]
      /\ \A e \in Downloads : temp'[e] = IF e = d THEN Absent ELSE temp[e]
  BY <1>1 DEF TypeOK
<1>5. CASE pc[d] = "gate"
  <2>1. Discarded(d) = 0 /\ Discarded(d)' = 0
    BY <1>4, <1>5 DEF Consistent, Discarded
  <2>2. \A e \in Downloads : Discarded(e)' = Discarded(e)
    BY <1>4, <2>1 DEF Discarded
  <2>3. \A e \in Downloads : pc[e] \in Admitted <=> pc'[e] \in Admitted
    BY <1>4, <1>5 DEF Admitted
  <2> QED BY <1>1, <1>3, <1>5, <2>2, <2>3, LedgerSame
<1>6. CASE pc[d] # "gate"
  <2>1. pc[d] \in Admitted /\ end \in Ended
    BY <1>6 DEF Waiting, Admitted, Ended
  <2> QED BY <1>1, <1>3, <1>4, <1>6, <2>1, LedgerLeft
<1> QED BY <1>5, <1>6

\* A saved bundle replaces the destination without taking more space.
LEMMA LedgerPromote ==
  ASSUME IInv, Ledger, NEW d \in Downloads, Promote(d) PROVE Ledger'
<1> USE DEF IInv
<1>1. /\ pc[d] = "body" /\ pc' = [pc EXCEPT ![d] = "saved"]
      /\ temp' = [temp EXCEPT ![d] = Absent] /\ Release(d)
      /\ free' = free + (IF destination[d] = "old" THEN Size[d] ELSE 0)
  BY DEF Promote
<1>2. free' \in Nat /\ free' >= free
  <2>1. Size[d] \in Nat /\ free \in Nat
    BY DownloadAssumption DEF TypeOK
  <2> QED BY <1>1, <2>1
<1>3. \A e \in Downloads \ {d} : temp'[e] = temp[e]
  BY <1>1 DEF TypeOK
<1>4. pc[d] \in Admitted /\ "saved" \in Ended
  BY <1>1 DEF Admitted, Ended
<1> QED BY <1>1, <1>2, <1>3, <1>4, LedgerLeft

\* Every step keeps the ledger.
LEMMA LedgerStep == IInv /\ Ledger /\ [Next]_vars => Ledger'
<1> SUFFICES ASSUME IInv, Ledger, [Next]_vars PROVE Ledger'
  OBVIOUS
<1> USE DEF IInv
<1>1. ASSUME NEW d \in Downloads, Accept(d) PROVE Ledger'
  <2>1. /\ pc[d] = "request" /\ pc' = [pc EXCEPT ![d] = "body"]
        /\ temp' = [temp EXCEPT ![d] = 0]
        /\ reserved' = reserved /\ free' = free /\ disturbed' = disturbed
    BY <1>1 DEF Accept
  <2>2. \A e \in Downloads : /\ pc[e] \in Admitted <=> pc'[e] \in Admitted
                             /\ temp'[e] = IF e = d THEN 0 ELSE temp[e]
    BY <2>1 DEF TypeOK, Admitted
  <2>3. temp[d] = Absent
    BY <2>1 DEF Consistent
  <2>4. \A e \in Downloads : Discarded(e)' = Discarded(e)
    BY <2>2, <2>3 DEF Discarded
  <2>5. free' \in Nat /\ free' >= free
    BY <2>1 DEF TypeOK
  <2> QED BY <2>1, <2>2, <2>4, <2>5, LedgerSame
<1>2. ASSUME NEW d \in Downloads, NextAttempt(d) PROVE Ledger'
  <2>1. /\ pc[d] = "backoff" /\ pc' = [pc EXCEPT ![d] = "request"]
        /\ temp' = temp /\ reserved' = reserved /\ free' = free /\ disturbed' = disturbed
    BY <1>2 DEF NextAttempt
  <2>2. \A e \in Downloads : pc[e] \in Admitted <=> pc'[e] \in Admitted
    BY <2>1 DEF TypeOK, Admitted
  <2>3. \A e \in Downloads : Discarded(e)' = Discarded(e)
    BY <2>1 DEF Discarded
  <2>4. free' \in Nat /\ free' >= free
    BY <2>1 DEF TypeOK
  <2> QED BY <2>1, <2>2, <2>3, <2>4, LedgerSame
<1>3. CASE OthersUse
  <2>1. /\ free' \in 0..Capacity /\ pc' = pc /\ temp' = temp /\ reserved' = reserved
        /\ disturbed' = (disturbed \/ (free' < free /\ reserved > 0))
    BY <1>3 DEF OthersUse
  <2>2. free' \in Nat /\ free \in Nat
    BY <2>1, DownloadAssumption DEF TypeOK
  <2>3. ~disturbed' => ~disturbed /\ ~(free' < free /\ reserved > 0)
    BY <2>1, Zenon
  <2>4. reserved > 0 /\ ~disturbed' => free' >= free /\ ~disturbed
    BY <2>2, <2>3
  <2>5. \A e \in Downloads : /\ pc[e] \in Admitted <=> pc'[e] \in Admitted
                             /\ Discarded(e)' = Discarded(e)
    BY <2>1 DEF Discarded
  <2> QED BY <2>1, <2>2, <2>4, <2>5, LedgerSame
<1>4. CASE UNCHANGED vars
  <2>1. /\ pc' = pc /\ temp' = temp /\ reserved' = reserved /\ free' = free
        /\ disturbed' = disturbed
    BY <1>4 DEF vars
  <2>2. \A e \in Downloads : /\ pc[e] \in Admitted <=> pc'[e] \in Admitted
                             /\ Discarded(e)' = Discarded(e)
    BY <2>1 DEF Discarded
  <2>3. free' \in Nat /\ free' >= free
    BY <2>1 DEF TypeOK
  <2> QED BY <2>1, <2>2, <2>3, LedgerSame
<1>5. ASSUME NEW d \in Downloads, Reject(d) \/ Exhaust(d) \/ Cancel(d) PROVE Ledger'
  BY <1>5, LedgerGiveUp DEF Reject, Exhaust, Cancel, Waiting
<1> QED BY <1>1, <1>2, <1>3, <1>4, <1>5, LedgerAdmit, LedgerChunk, LedgerRetry,
           LedgerPromote DEF Next, Step

\* Only a chunk adds to a temporary file while the free space shrinks.
LEMMA OnlyChunks ==
  ASSUME IInv, Next, NEW d \in Downloads, temp'[d] > temp[d], free' < free
  PROVE  \E e \in Downloads : Chunk(e)
<1> USE DEF IInv
<1>0. free \in Nat
  BY DEF TypeOK
<1>1. ~(temp' = temp) /\ ~(free' = free)
  <2>1. temp[d] \in Int
    BY DEF TypeOK
  <2> QED BY <1>0, <2>1
<1>2. ASSUME NEW e \in Downloads, free' = free + Discarded(e) PROVE FALSE
  <2>1. Discarded(e) \in Nat
    BY DownloadAssumption DEF TypeOK, Discarded, Absent
  <2> QED BY <1>0, <1>2, <2>1
<1>3. ASSUME NEW e \in Downloads, Promote(e) PROVE FALSE
  <2>1. Size[e] \in Nat /\ free' = free + (IF destination[e] = "old" THEN Size[e] ELSE 0)
    BY <1>3, DownloadAssumption DEF Promote
  <2> QED BY <1>0, <2>1
<1>4. ASSUME NEW e \in Downloads, Reject(e) \/ Exhaust(e) \/ Cancel(e) \/ Retry(e)
      PROVE  FALSE
  <2>1. free' = free + Discarded(e)
    BY <1>4 DEF Reject, Exhaust, Cancel, Retry, GiveUp, DiscardTemp
  <2> QED BY <1>2, <2>1
<1> QED BY <1>1, <1>3, <1>4 DEF Next, Step, OthersUse, Admit, Accept, NextAttempt

\* The gate's count is exact in every state.
LEMMA LedgerAlways == Spec => [](IInv /\ Ledger)
<1>1. Init => Ledger
  <2> SUFFICES ASSUME Init PROVE Ledger
    OBVIOUS
  <2>1. Held = {} /\ reserved = 0
    BY DEF Init, Held, Admitted
  <2> QED BY <2>1, FS_EmptySet DEF Ledger
<1>2. IInv /\ Ledger /\ [Next]_vars => (IInv /\ Ledger)'
  BY StepInv, LedgerStep
<1> QED BY <1>1, <1>2, InitInv, PTL DEF Spec

\* Downloads running together never eat into the minimum of free space, however
\* many they are, unless others took space after they were admitted.
THEOREM FloorAlways == Spec => FloorHeld
<1>1. IInv /\ Ledger /\ [Next]_vars =>
        [\A d \in Downloads : temp'[d] > temp[d] /\ free' < free /\ ~disturbed =>
                                free' >= MinFree]_vars
  <2> SUFFICES ASSUME IInv, Ledger, Next, NEW d \in Downloads,
                      temp'[d] > temp[d], free' < free, ~disturbed
               PROVE  free' >= MinFree
    OBVIOUS
  <2>1. PICK e \in Downloads : Chunk(e)
    BY OnlyChunks
  <2> QED BY <2>1, LedgerChunk
<1> QED BY <1>1, LedgerAlways, PTL DEF Spec, FloorHeld
-----------------------------------------------------------------------------
(* GlbPackage. *)

QueueSet == {queue[i] : i \in 1..Len(queue)}
Visited == Closure \ QueueSet

MissingAround(b) ==
  {<<d, b>> : d \in {e \in Dependencies(b) \ {b} : ~Excluded(e) /\ e \notin Present}}
ExcludedAround(b) ==
  {<<d, b>> : d \in {e \in Dependencies(b) \ {b} : Excluded(e)}}

\* The queue lists bundles of the closure, each once.
QueueOK ==
  /\ queue \in Seq(Closure)
  /\ \A i, j \in 1..Len(queue) : queue[i] = queue[j] => i = j

\* What the visited bundles need is known; what is known is needed.
SearchOK ==
  /\ roots \subseteq Closure /\ Closure \subseteq Present
  /\ \A b \in Visited : Followed(b) \subseteq Closure
  /\ \A S \in SUBSET Present : roots \subseteq S /\ Closed(S) => Closure \subseteq S
  /\ missing = UNION {MissingAround(b) : b \in Visited}
  /\ excluded = UNION {ExcludedAround(b) : b \in Visited}

Typed ==
  /\ metadata \in [Present -> SUBSET Bundles] /\ Present \subseteq Bundles

CInv ==
  /\ phase = "plan" => Typed /\ QueueOK /\ SearchOK
  /\ ClosureExact

\* A listing of a set is a sequence of its elements without repetition.
LEMMA ListingFacts ==
  ASSUME NEW S, NEW s \in Listings(S), Cardinality(S) \in Nat
  PROVE  /\ s \in Seq(S)
         /\ S = {s[i] : i \in 1..Len(s)}
         /\ \A i, j \in 1..Len(s) : s[i] = s[j] => i = j
<1>1. s \in [1..Cardinality(S) -> S]
  BY DEF Listings
<1>2. s \in Seq(S) /\ Len(s) = Cardinality(S) /\ DOMAIN s = 1..Len(s)
  BY <1>1
<1>3. \A x \in S : \E i \in 1..Len(s) : s[i] = x
  BY <1>2 DEF Listings
<1>4. \A i \in 1..Len(s) : s[i] \in S
  BY <1>1, <1>2
<1>5. \A i, j \in 1..Len(s) : s[i] = s[j] => i = j
  BY <1>2 DEF Listings
<1>6. S = {s[i] : i \in 1..Len(s)}
  BY <1>3, <1>4
<1> QED BY <1>2, <1>5, <1>6

\* Sets of bundles are finite sets of numbers.
LEMMA BundleSets == \A S \in SUBSET Bundles : S \subseteq Nat /\ Cardinality(S) \in Nat
  BY GlbAssumption, FS_Subset, FS_CardinalityType

\* The search starts with the roots in its queue.
LEMMA PlanInit == GlbInit => CInv
<1> SUFFICES ASSUME GlbInit PROVE CInv
  OBVIOUS
<1>1. Closure = roots /\ roots \subseteq Present /\ Present \subseteq Bundles
      /\ metadata \in [Present -> SUBSET Bundles]
  BY DEF GlbInit, Closure, Present
<1>2. /\ queue \in Seq(roots) /\ QueueSet = roots
      /\ \A i, j \in 1..Len(queue) : queue[i] = queue[j] => i = j
  <2>1. roots \subseteq Nat /\ Cardinality(roots) \in Nat
    BY <1>1, BundleSets
  <2>2. queue \in Listings(roots)
    BY DEF GlbInit
  <2> QED BY <2>1, <2>2, ListingFacts DEF QueueSet
<1>3. Visited = {} /\ missing = {} /\ excluded = {}
  BY <1>1, <1>2 DEF Visited, GlbInit
<1> QED BY <1>1, <1>2, <1>3 DEF CInv, Typed, QueueOK, SearchOK, ClosureExact, GlbInit

-----------------------------------------------------------------------------
\* One turn of the search: the head is visited, what it discovers is queued.
LEMMA QueueStep ==
  ASSUME Typed, QueueOK, queue # << >>, NEW found \in Ascending(Discovered(Head(queue))),
         queue' = Tail(queue) \o found, Closure' = Closure \cup Discovered(Head(queue))
  PROVE  /\ QueueOK'
         /\ QueueSet' = (QueueSet \ {Head(queue)}) \cup Discovered(Head(queue))
         /\ Head(queue) \in QueueSet
<1> DEFINE b == Head(queue)  D == Discovered(b)  n == Len(queue) - 1
<1>1. b \in Closure /\ b = queue[1] /\ b \in QueueSet
      /\ Len(queue) \in Nat /\ Len(queue) >= 1
  BY DEF QueueOK, QueueSet
<1>2. D \subseteq Bundles /\ D \cap Closure = {}
  BY DEF Typed, Discovered, Followed, Closure
<1>3. /\ found \in Seq(D)
      /\ D = {found[i] : i \in 1..Len(found)}
      /\ \A i, j \in 1..Len(found) : found[i] = found[j] => i = j
  <2>1. D \subseteq Nat /\ Cardinality(D) \in Nat
    BY <1>2, BundleSets
  <2> HIDE DEF D, b
  <2>2. found \in Listings(D)
    BY DEF D, b, Ascending
  <2> QED BY <2>1, <2>2, ListingFacts
<1>4. /\ Tail(queue) \in Seq(Closure) /\ Len(Tail(queue)) = n /\ n \in Nat
      /\ \A i \in 1..n : Tail(queue)[i] = queue[i + 1]
  BY <1>1 DEF QueueOK
<1>5. /\ queue' \in Seq(Closure') /\ Len(queue') = n + Len(found)
      /\ \A i \in 1..Len(queue') :
           queue'[i] = IF i <= n THEN queue[i + 1] ELSE found[i - n]
  <2>1. Tail(queue) \in Seq(Closure') /\ found \in Seq(Closure')
    BY <1>3, <1>4
  <2> QED BY <1>4, <2>1
<1>5a. n \in Nat /\ Len(found) \in Nat /\ Len(queue') = n + Len(found)
  BY <1>3, <1>4, <1>5
<1>6. \A i \in 1..n : queue[i + 1] \in Closure \ {b} /\ i + 1 \in 1..Len(queue)
  BY <1>1, <1>4 DEF QueueOK
<1>7. ASSUME NEW i \in 1..Len(queue'), NEW j \in 1..Len(queue'), queue'[i] = queue'[j]
      PROVE  i = j
  <2>1. Len(found) \in Nat
    BY <1>3
  <2>2. CASE i <= n /\ j <= n
    BY <1>4, <1>5, <1>6, <1>7, <2>1, <2>2 DEF QueueOK
  <2>3. CASE i > n /\ j > n
    <3>1. i - n \in 1..Len(found) /\ j - n \in 1..Len(found)
      BY <1>5a, <2>3
    <3>2. found[i - n] = found[j - n]
      BY <1>4, <1>5, <1>7, <2>1, <2>3
    <3>3. i - n = j - n
      BY <1>3, <3>1, <3>2
    <3> QED BY <1>4, <1>5, <2>1, <3>3
  <2>4. CASE (i <= n /\ j > n) \/ (j <= n /\ i > n)
    <3>1. \A k \in 1..Len(queue') : k > n => queue'[k] \in D
      <4> TAKE k \in 1..Len(queue')
      <4> HAVE k > n
      <4>1. k - n \in 1..Len(found)
        BY <1>5a
      <4> QED BY <1>3, <1>4, <1>5, <4>1
    <3>2. \A k \in 1..Len(queue') : k <= n => queue'[k] \in Closure
      BY <1>4, <1>5, <1>6, <2>1
    <3> QED BY <1>2, <1>7, <2>4, <3>1, <3>2
  <2> QED BY <1>4, <1>5, <2>1, <2>2, <2>3, <2>4
<1>8. QueueSet' = (QueueSet \ {b}) \cup D
  <2> HIDE DEF b, D
  <2>1. ASSUME NEW x \in QueueSet' PROVE x \in (QueueSet \ {b}) \cup D
    <3>1. PICK i \in 1..Len(queue') : x = queue'[i]
      BY <2>1 DEF QueueSet
    <3>2. CASE i <= n
      <4>1. i \in 1..n
        BY <1>4, <3>2
      <4>2. x = queue[i + 1]
        BY <1>5, <3>1, <3>2
      <4>3. queue[i + 1] \in QueueSet /\ queue[i + 1] # b
        BY <1>6, <4>1 DEF QueueSet
      <4> QED BY <4>2, <4>3
    <3>3. CASE i > n
      <4>1. i - n \in 1..Len(found)
        BY <1>5a, <3>3
      <4>2. x = found[i - n]
        BY <1>4, <1>5, <3>1, <3>3
      <4> QED BY <1>3, <4>1, <4>2
    <3> QED BY <1>5a, <3>2, <3>3
  <2>2. ASSUME NEW x \in QueueSet \ {b} PROVE x \in QueueSet'
    <3>1. PICK i \in 1..Len(queue) : x = queue[i]
      BY <2>2 DEF QueueSet
    <3>2. i # 1 /\ i \in Nat /\ i - 1 \in 1..n
      BY <1>1, <2>2, <3>1
    <3>3. i - 1 \in 1..Len(queue') /\ i - 1 <= n /\ (i - 1) + 1 = i
      BY <1>5a, <3>2
    <3>4. queue'[i - 1] = x
      BY <1>5, <3>1, <3>3
    <3> QED BY <3>3, <3>4 DEF QueueSet
  <2>3. ASSUME NEW x \in D PROVE x \in QueueSet'
    <3>1. PICK i \in 1..Len(found) : x = found[i]
      BY <1>3, <2>3
    <3>2. n + i \in 1..Len(queue') /\ ~(n + i <= n) /\ n + i - n = i
      BY <1>5a
    <3>3. queue'[n + i] = x
      BY <1>5, <3>1, <3>2
    <3> QED BY <3>2, <3>3 DEF QueueSet
  <2> QED BY <2>1, <2>2, <2>3
<1> QED BY <1>1, <1>5, <1>7, <1>8 DEF QueueOK

\* Visiting a bundle keeps the account of the search.
LEMMA VisitKeeps == CInv /\ Visit => CInv'
<1> SUFFICES ASSUME CInv, Visit PROVE CInv'
  OBVIOUS
<1> DEFINE b == Head(queue)  D == Discovered(b)
<1>1. /\ Typed /\ QueueOK /\ SearchOK /\ phase = "plan" /\ phase' = "plan"
      /\ queue # << >> /\ metadata' = metadata /\ profile' = profile /\ roots' = roots
  BY DEF Visit, CInv
<1>2. Closure' = Closure \cup D
  BY DEF Visit, Closure
<1>3. /\ QueueOK' /\ QueueSet' = (QueueSet \ {b}) \cup D /\ b \in QueueSet
  <2>1. PICK found \in Ascending(D) : queue' = Tail(queue) \o found
    BY DEF Visit
  <2> QED BY <1>1, <1>2, <2>1, QueueStep
<1>4. D \subseteq Followed(b) /\ D \cap Closure = {} /\ Followed(b) \subseteq Closure \cup D
      /\ Followed(b) \subseteq Present
  BY DEF Discovered, Followed
<1>5. b \in Closure
  BY <1>1, <1>3 DEF QueueOK, QueueSet
<1>6. Visited' = Visited \cup {b}
  BY <1>2, <1>3, <1>4, <1>5 DEF Visited
<1>7. /\ Present' = Present
      /\ \A x : Followed(x)' = Followed(x)
      /\ \A x : MissingAround(x)' = MissingAround(x)
      /\ \A x : ExcludedAround(x)' = ExcludedAround(x)
      /\ \A S : Closed(S)' = Closed(S)
  BY <1>1 DEF Present, Followed, MissingAround, ExcludedAround, Dependencies, Excluded, Closed
<1>8. /\ missing' = missing \cup MissingAround(b)
      /\ excluded' = excluded \cup ExcludedAround(b)
  BY DEF Visit, MissingAround, ExcludedAround
<1>9. SearchOK'
  <2>1. roots' \subseteq Closure' /\ Closure' \subseteq Present'
    BY <1>1, <1>2, <1>4, <1>7 DEF SearchOK
  <2>2. \A x \in Visited' : Followed(x)' \subseteq Closure'
    BY <1>1, <1>2, <1>4, <1>6, <1>7 DEF SearchOK
  <2>3. ASSUME NEW S \in SUBSET Present', roots' \subseteq S, Closed(S)'
        PROVE  Closure' \subseteq S
    <3>1. Closure \subseteq S /\ Closed(S)
      BY <1>1, <1>7, <2>3 DEF SearchOK
    <3>2. Followed(b) \subseteq S
      BY <1>5, <3>1 DEF Closed
    <3> QED BY <1>2, <1>4, <3>1, <3>2
  <2>4. missing' = UNION {MissingAround(x)' : x \in Visited'}
    BY <1>1, <1>6, <1>7, <1>8 DEF SearchOK
  <2>5. excluded' = UNION {ExcludedAround(x)' : x \in Visited'}
    BY <1>1, <1>6, <1>7, <1>8 DEF SearchOK
  <2> QED BY <2>1, <2>2, <2>3, <2>4, <2>5 DEF SearchOK
<1> QED BY <1>1, <1>3, <1>9 DEF CInv, Typed, Present, ClosureExact

\* When the queue is empty everything reached has been visited.
LEMMA BuiltKeeps == CInv /\ Built => CInv'
<1> SUFFICES ASSUME CInv, Built PROVE CInv'
  OBVIOUS
<1>1. Typed /\ QueueOK /\ SearchOK /\ queue = << >> /\ phase' = "check"
      /\ UNCHANGED planning
  BY DEF Built, CInv
<1>2. Visited = Closure
  BY <1>1 DEF Visited, QueueSet
<1>3. /\ roots \subseteq Closure /\ Closed(Closure)
      /\ \A S \in SUBSET Present : roots \subseteq S /\ Closed(S) => Closure \subseteq S
      /\ missing = UNION {MissingAround(x) : x \in Closure}
      /\ excluded = UNION {ExcludedAround(x) : x \in Closure}
  BY <1>1, <1>2 DEF SearchOK, Closed
<1>4. (/\ roots \subseteq Closure /\ Closed(Closure)
       /\ \A S \in SUBSET Present : roots \subseteq S /\ Closed(S) => Closure \subseteq S
       /\ missing = UNION {MissingAround(x) : x \in Closure}
       /\ excluded = UNION {ExcludedAround(x) : x \in Closure})'
  BY <1>1, <1>3 DEF planning, Closure, Closed, Followed, Present, Dependencies, Excluded,
                    MissingAround, ExcludedAround
<1> QED BY <1>1, <1>4 DEF CInv, ClosureExact, MissingAround, ExcludedAround

\* Every step keeps the account of the search.
LEMMA PlanStep == CInv /\ [GlbNext]_glbVars => CInv'
<1> SUFFICES ASSUME CInv, [GlbNext]_glbVars PROVE CInv'
  OBVIOUS
<1>1. CASE Visit
  BY <1>1, VisitKeeps
<1>2. CASE Built
  BY <1>2, BuiltKeeps
<1>3. CASE ~Visit /\ ~Built /\ ~(UNCHANGED glbVars)
  <2>1. phase' \notin {"plan", "check"}
    BY <1>3 DEF GlbNext, Ensure, Load, Walk, Unreadable, Walked, WriteFile, WriteStops, Again
  <2> QED BY <2>1 DEF CInv, ClosureExact
<1>4. CASE UNCHANGED glbVars
  BY <1>4 DEF CInv, ClosureExact, Typed, QueueOK, SearchOK, Visited, QueueSet, glbVars, planning,
              Closure, Closed, Followed, Present, Dependencies, Excluded, MissingAround,
              ExcludedAround
<1> QED BY <1>1, <1>2, <1>3, <1>4

\* build_extraction_plan: whatever the metadata, the profile and the roots, the
\* planned bundles are the least closed set with the roots, and the missing and
\* excluded records are exactly those around it.
THEOREM PlanIsClosure == GlbSpec => []ClosureExact
<1>1. CInv => ClosureExact
  BY DEF CInv
<1> QED BY <1>1, PlanInit, PlanStep, PTL DEF GlbSpec
-----------------------------------------------------------------------------
(* Cycles: a recorded chain can be walked round.                           *)

\* What CyclesReal says of one recorded set.
Cycle(c) ==
  /\ c # {} /\ \A b \in c : metadata[b] \cap c # {}
  /\ \A b \in c : \A S \in SUBSET c :
       b \in S /\ (\A d \in S : metadata[d] \cap c \subseteq S) => S = c

\* The way the search took to p's last bundle: each bundle once, and each a
\* dependency of the one before it.
Trail(p) ==
  /\ p \in Seq(Closure) /\ p # << >>
  /\ \A i, j \in 1..Len(p) : p[i] = p[j] => i = j
  /\ \A i \in 1..(Len(p) - 1) : p[i + 1] \in metadata[p[i]]

PathOK == \A b \in Closure : Trail(path[b]) /\ path[b][Len(path[b])] = b

\* A set of natural numbers that is not empty has a least element.
LEMMA Least ==
  ASSUME NEW S \in SUBSET Nat, S # {}
  PROVE  \E m \in S : \A k \in S : m <= k
<1> DEFINE R == {ss \in Nat \X Nat : ss[1] < ss[2]}
<1>1. IsWellFoundedOn(R, Nat)
  BY NatLessThanWellFounded DEF OpToRel
<1>2. \A x, y \in Nat : y < x => <<y, x>> \in R
  OBVIOUS
<1> HIDE DEF R
<1>3. PICK m \in S : \A k \in S : ~ (<<k, m>> \in R)
  BY <1>1, WFMin
<1>4. \A k \in S : ~(k < m) /\ k \in Nat /\ m \in Nat
  BY <1>2, <1>3
<1>5. \A k \in S : m <= k
  BY <1>4
<1> QED BY <1>5

\* A set that holds one bundle of a trail, and the dependencies in c of each of
\* its members, holds the rest of the trail.
LEMMA Onward ==
  ASSUME NEW p, Trail(p), NEW m \in 1..Len(p), NEW c, c = {p[i] : i \in m..Len(p)},
         NEW S, \A d \in S : metadata[d] \cap c \subseteq S,
         NEW n \in m..Len(p), p[n] \in S
  PROVE  \A i \in n..Len(p) : p[i] \in S
<1> DEFINE T == {i \in n..Len(p) : p[i] \notin S}
<1>1. Len(p) \in Nat /\ m \in Nat /\ n \in Nat /\ 1 <= m /\ m <= n /\ T \subseteq Nat
  BY DEF Trail
<1>2. SUFFICES ASSUME T # {} PROVE FALSE
  OBVIOUS
<1>3. PICK k \in T : \A l \in T : k <= l
  BY <1>1, <1>2, Least
<1>4. k \in n..Len(p) /\ p[k] \notin S /\ k # n
  OBVIOUS
<1>5. k - 1 \in n..Len(p) /\ k - 1 \in 1..(Len(p) - 1) /\ k \in m..Len(p)
  BY <1>1, <1>4
<1>6. p[k - 1] \in S
  BY <1>1, <1>3, <1>5
<1>7. p[k] \in metadata[p[k - 1]]
  <2>1. p[(k - 1) + 1] \in metadata[p[k - 1]]
    BY <1>5 DEF Trail
  <2> QED BY <1>1, <1>4, <2>1
<1>8. p[k] \in c
  BY <1>5
<1> QED BY <1>4, <1>6, <1>7, <1>8

\* A trail whose last bundle depends on its m-th is a cycle from there on.
LEMMA TrailCycle ==
  ASSUME NEW p, Trail(p), NEW m \in 1..Len(p), p[m] \in metadata[p[Len(p)]],
         NEW c, c = {p[i] : i \in m..Len(p)}
  PROVE  Cycle(c)
<1>1. Len(p) \in Nat /\ m \in Nat /\ 1 <= m /\ m <= Len(p) /\ Len(p) \in m..Len(p)
  BY DEF Trail
<1>2. p[m] \in c
  BY <1>1
<1>3. ASSUME NEW i \in m..Len(p) PROVE metadata[p[i]] \cap c # {}
  <2>1. CASE i = Len(p)
    BY <1>2, <2>1
  <2>2. CASE i # Len(p)
    <3>1. i + 1 \in m..Len(p) /\ i \in 1..(Len(p) - 1)
      BY <1>1, <2>2
    <3>2. p[i + 1] \in metadata[p[i]] /\ p[i + 1] \in c
      BY <3>1 DEF Trail
    <3> QED BY <3>2
  <2> QED BY <2>1, <2>2
<1>4. ASSUME NEW b \in c, NEW S \in SUBSET c, b \in S,
             \A d \in S : metadata[d] \cap c \subseteq S
      PROVE  S = c
  <2>1. PICK n \in m..Len(p) : b = p[n]
    OBVIOUS
  <2>2. \A i \in n..Len(p) : p[i] \in S
    BY <1>4, <2>1, Onward
  <2>3. Len(p) \in n..Len(p)
    BY <1>1, <2>1
  <2>4. p[Len(p)] \in S
    BY <2>2, <2>3
  <2>5. m \in m..Len(p) /\ p[m] \in S
    BY <1>1, <1>2, <1>4, <2>4
  <2>6. \A i \in m..Len(p) : p[i] \in S
    BY <1>4, <2>5, Onward
  <2> QED BY <1>4, <2>6
<1> QED BY <1>2, <1>3, <1>4 DEF Cycle

\* _cycle_chain gives the rest of the trail, from the ancestor on.
LEMMA ChainIsCycle ==
  ASSUME Typed, Closure \subseteq Present, PathOK, NEW b \in Closure,
         NEW d \in Followed(b) \cap Ancestors(b)
  PROVE  Cycle(Chain(b, d))
<1> DEFINE p == path[b]
<1>1. Trail(p) /\ p[Len(p)] = b /\ Len(p) \in Nat
  BY DEF PathOK, Trail
<1>2. PICK m \in 1..(Len(p) - 1) : p[m] = d
  BY DEF Ancestors
<1>3. m \in 1..Len(p)
  BY <1>1
<1>4. d \in metadata[b]
  BY DEF Followed, Dependencies
<1> HIDE DEF p
<1>5. \A j \in 1..Len(p) : (\E k \in 1..j : p[k] = d) <=> j \in m..Len(p)
  <2> TAKE j \in 1..Len(p)
  <2>1. ASSUME NEW k \in 1..j, p[k] = d PROVE k = m
    <3>1. k \in 1..Len(p)
      BY <1>1, <2>1
    <3> QED BY <1>1, <1>2, <1>3, <2>1, <3>1 DEF Trail
  <2> QED BY <1>1, <1>2, <1>3, <2>1
<1>6. Chain(b, d) = {p[i] : i \in m..Len(p)}
  <2>1. Chain(b, d) = {p[i] : i \in {j \in 1..Len(p) : \E k \in 1..j : p[k] = d}}
    BY DEF Chain, p
  <2>2. {j \in 1..Len(p) : \E k \in 1..j : p[k] = d} = m..Len(p)
    BY <1>1, <1>3, <1>5
  <2> QED BY <2>1, <2>2
<1> QED BY <1>1, <1>2, <1>3, <1>4, <1>6, TrailCycle

\* A bundle that depends on itself is a cycle of one.
LEMMA SelfCycle ==
  ASSUME NEW b, b \in metadata[b] PROVE Cycle({b})
BY DEF Cycle

YInv == (phase = "plan" => PathOK) /\ CyclesReal

\* Visiting a bundle keeps the trails, and records real cycles.
LEMMA VisitCycles == CInv /\ YInv /\ Visit => YInv'
<1> SUFFICES ASSUME CInv, YInv, Visit PROVE YInv'
  OBVIOUS
<1> DEFINE b == Head(queue)  D == Discovered(b)
<1>1. /\ Typed /\ QueueOK /\ SearchOK /\ PathOK /\ CyclesReal /\ phase = "plan" /\ phase' = "plan"
      /\ queue # << >> /\ metadata' = metadata
  BY DEF Visit, CInv, YInv
<1>2. b \in Closure /\ Closure \subseteq Present
  BY <1>1 DEF QueueOK, SearchOK
<1>3. /\ path' = [d \in Closure \cup D |-> IF d \in Closure THEN path[d] ELSE Append(path[b], d)]
      /\ cycles' = cycles \cup (IF b \in Dependencies(b) THEN {{b}} ELSE {})
                     \cup {Chain(b, d) : d \in Followed(b) \cap Ancestors(b)}
  BY DEF Visit
<1>4. Closure' = Closure \cup D
  BY <1>3 DEF Closure
<1>5. D \cap Closure = {} /\ \A d \in D : d \in metadata[b]
  BY DEF Discovered, Followed, Dependencies
<1>6. ASSUME NEW d \in Closure PROVE (Trail(path[d]) /\ path[d][Len(path[d])] = d)'
  <2>1. path'[d] = path[d] /\ path[d] \in Seq(Closure)
    BY <1>1, <1>3, <1>6 DEF PathOK, Trail
  <2>2. path[d] \in Seq(Closure')
    BY <1>4, <2>1
  <2> QED BY <1>1, <1>6, <2>1, <2>2 DEF PathOK, Trail
<1>7. ASSUME NEW d \in D PROVE (Trail(path[d]) /\ path[d][Len(path[d])] = d)'
  <2> DEFINE p == path[b]  q == Append(p, d)
  <2>1. path'[d] = q /\ Trail(p) /\ p[Len(p)] = b
    BY <1>1, <1>2, <1>3, <1>5, <1>7 DEF PathOK
  <2>2. p \in Seq(Closure) /\ Len(p) \in Nat /\ Len(p) >= 1
    BY <2>1 DEF Trail
  <2> HIDE DEF p
  <2>3. /\ q \in Seq(Closure') /\ q # << >> /\ Len(q) = Len(p) + 1 /\ q[Len(p) + 1] = d
        /\ \A i \in 1..Len(p) : q[i] = p[i] /\ p[i] \in Closure
    BY <1>4, <1>7, <2>2
  <2> HIDE DEF q
  <2>4. \A i, j \in 1..Len(q) : q[i] = q[j] => i = j
    <3> TAKE i, j \in 1..Len(q)
    <3>1. \A k \in 1..Len(q) : k \in 1..Len(p) \/ k = Len(p) + 1
      BY <2>2, <2>3
    <3>2. d \notin Closure
      BY <1>5, <1>7
    <3>3. \A k, l \in 1..Len(p) : p[k] = p[l] => k = l
      BY <2>1 DEF Trail
    <3> QED BY <2>3, <3>1, <3>2, <3>3
  <2>5. ASSUME NEW i \in 1..(Len(q) - 1) PROVE q[i + 1] \in metadata'[q[i]]
    <3>1. CASE i = Len(p)
      <4>1. q[i] = b /\ q[i + 1] = d
        BY <2>1, <2>2, <2>3, <3>1
      <4> QED BY <1>1, <1>5, <1>7, <4>1
    <3>2. CASE i # Len(p)
      <4>1. i \in 1..(Len(p) - 1) /\ i + 1 \in 1..Len(p) /\ i \in 1..Len(p)
        BY <2>2, <2>3, <3>2
      <4>2. p[i + 1] \in metadata[p[i]]
        BY <2>1, <4>1 DEF Trail
      <4> QED BY <1>1, <2>3, <4>1, <4>2
    <3> QED BY <3>1, <3>2
  <2>6. q[Len(q)] = d
    BY <2>3
  <2> QED BY <2>1, <2>3, <2>4, <2>5, <2>6 DEF Trail
<1>8. PathOK'
  BY <1>4, <1>6, <1>7 DEF PathOK
<1>9. ASSUME NEW c \in cycles' PROVE Cycle(c)
  <2>1. CASE c \in cycles
    BY <1>1, <2>1 DEF CyclesReal, Cycle
  <2>2. CASE b \in Dependencies(b) /\ c = {b}
    BY <2>2, SelfCycle DEF Dependencies
  <2>3. CASE \E d \in Followed(b) \cap Ancestors(b) : c = Chain(b, d)
    BY <1>1, <1>2, <2>3, ChainIsCycle
  <2> QED BY <1>3, <1>9, <2>1, <2>2, <2>3
<1>10. CyclesReal'
  BY <1>1, <1>9 DEF CyclesReal, Cycle
<1> QED BY <1>8, <1>10 DEF YInv

\* Every step keeps the trails; the planner's memory goes with its cycles.
LEMMA CycleStep == CInv /\ YInv /\ [GlbNext]_glbVars => YInv'
<1> SUFFICES ASSUME CInv, YInv, [GlbNext]_glbVars PROVE YInv'
  OBVIOUS
<1>1. CASE Visit
  BY <1>1, VisitCycles
<1>2. CASE UNCHANGED planning /\ (phase' = "plan" => phase = "plan")
  BY <1>2 DEF YInv, planning, PathOK, Trail, Closure, CyclesReal
<1>3. CASE \E unready, absent \in SUBSET Bundles, optional \in BOOLEAN :
             Load(unready, absent, optional)
  <2>1. cycles' = {} /\ phase' # "plan"
    BY <1>3 DEF Load
  <2> QED BY <2>1 DEF YInv, CyclesReal
<1>4. CASE ~Visit /\ ~(\E unready, absent \in SUBSET Bundles, optional \in BOOLEAN :
                          Load(unready, absent, optional))
  <2>1. UNCHANGED planning /\ (phase' = "plan" => phase = "plan")
    BY <1>4 DEF GlbNext, Built, Ensure, Walk, Unreadable, Walked, WriteFile, WriteStops, Again, glbVars
  <2> QED BY <1>2, <2>1
<1> QED BY <1>1, <1>3, <1>4

\* A root starts a trail of its own.
LEMMA CycleInit == GlbInit => YInv
<1> SUFFICES ASSUME GlbInit PROVE YInv
  OBVIOUS
<1>1. Closure = roots /\ cycles = {} /\ \A b \in roots : path[b] = <<b>>
  BY DEF GlbInit, Closure
<1>2. ASSUME NEW b \in Closure PROVE Trail(path[b]) /\ path[b][Len(path[b])] = b
  <2>1. path[b] = <<b>> /\ <<b>> \in Seq(Closure) /\ Len(<<b>>) = 1 /\ <<b>>[1] = b
    BY <1>1
  <2> QED BY <2>1 DEF Trail
<1> QED BY <1>1, <1>2 DEF YInv, PathOK, CyclesReal

\* _record_cycle: whatever the metadata, every set recorded as a cycle can be
\* walked round along dependencies.
THEOREM CyclesAreReal == GlbSpec => []CyclesReal
<1>1. GlbInit => CInv /\ YInv
  BY PlanInit, CycleInit
<1>2. CInv /\ YInv /\ [GlbNext]_glbVars => (CInv /\ YInv)'
  BY PlanStep, CycleStep
<1>3. YInv => CyclesReal
  BY DEF YInv
<1> QED BY <1>1, <1>2, <1>3, PTL DEF GlbSpec
-----------------------------------------------------------------------------
(* Types, and the export.                                                  *)

Planning == {"plan", "check", "planned"}
Writing == {"write package", "write glb", "write export", "exported"}

\* Nothing has been walked before the walk.
Unwalked == phase \in Planning => typetree = << >>

\* While the walk has found no error, its roots and every bundle a visited object
\* names are visited, to be visited, or optional.
Reached ==
  phase = "walk" /\ "error" \notin findings =>
    /\ plan.roots \subseteq pending \cup DOMAIN typetree
    /\ \A o \in DOMAIN typetree, t \in Bundles :
         t \in typetree[o] => t \in pending \cup DOMAIN typetree \cup plan.optional

EInv == GlbTypeOK /\ excluded \subseteq Bundles \X Bundles /\ Unwalked /\ Reached /\ ExportComplete

\* The search keeps its types.
LEMMA VisitTypes == CInv /\ EInv /\ Visit => EInv'
<1> SUFFICES ASSUME CInv, EInv, Visit PROVE EInv'
  OBVIOUS
<1> DEFINE b == Head(queue)  D == Discovered(b)
<1>1. /\ Typed /\ QueueOK /\ SearchOK /\ phase = "plan" /\ phase' = "plan"
      /\ queue # << >> /\ metadata' = metadata /\ profile' = profile /\ roots' = roots
      /\ plan' = plan /\ typetree' = typetree
  BY DEF Visit, CInv, walking
<1>2. Closure' = Closure \cup D /\ D \subseteq Bundles /\ Closure \subseteq Bundles
  BY <1>1 DEF Visit, Closure, Discovered, Followed, Typed, SearchOK
<1>3. PICK found \in Ascending(D) : queue' = Tail(queue) \o found
  BY DEF Visit
<1>4. QueueOK'
  BY <1>1, <1>2, <1>3, QueueStep
<1>5. queue' \in Seq(Bundles)
  <2>1. queue' \in Seq(Closure') /\ Closure' \subseteq Bundles
    BY <1>2, <1>4 DEF QueueOK
  <2> QED BY <2>1
<1>6. GlbTypeOK'
  BY <1>1, <1>2, <1>5 DEF EInv, GlbTypeOK
<1>7. excluded' \subseteq Bundles \X Bundles
  <2>1. b \in Present /\ b \in Bundles
    BY <1>1, <1>2 DEF QueueOK, SearchOK
  <2>2. Dependencies(b) \subseteq Bundles
    BY <1>1, <2>1 DEF Dependencies, Typed
  <2>3. excluded' = excluded \cup ExcludedAround(b)
    BY DEF Visit, ExcludedAround
  <2> QED BY <2>1, <2>2, <2>3 DEF ExcludedAround, EInv
<1> QED BY <1>1, <1>6, <1>7 DEF EInv, Unwalked, Reached, ExportComplete, Planning

\* Steps of the planner after its search.
LEMMA PlannedTypes ==
  ASSUME CInv, EInv, Built \/ Ensure PROVE EInv'
<1>1. /\ UNCHANGED planning /\ typetree' = typetree
      /\ phase \in Planning /\ phase' \in {"check", "planned", "rejected"}
  BY DEF Built, Ensure, walking, Planning
<1>2. plan' \in [bundles : SUBSET Bundles, roots : SUBSET Bundles, optional : SUBSET Bundles]
  <2>1. CASE plan' = plan
    BY <2>1 DEF EInv, GlbTypeOK
  <2>2. CASE plan' = NoPlan
    BY <2>2 DEF NoPlan
  <2>3. CASE Ensure /\ plan' # NoPlan
    <3>1. plan' = [bundles |-> Closure, roots |-> roots, optional |-> {e[1] : e \in excluded}]
          /\ phase = "check"
      BY <2>3 DEF Ensure
    <3>2. {e[1] : e \in excluded} \subseteq Bundles
      <4> SUFFICES ASSUME NEW e \in excluded PROVE e[1] \in Bundles
        OBVIOUS
      <4> QED BY DEF EInv
    <3> QED BY <3>1, <3>2 DEF EInv, GlbTypeOK
  <2> QED BY <2>1, <2>2, <2>3 DEF Built, Ensure
<1>3. GlbTypeOK'
  BY <1>1, <1>2 DEF EInv, GlbTypeOK, planning, Closure
<1> QED BY <1>1, <1>3 DEF EInv, Unwalked, Reached, ExportComplete, Planning, planning

\* The types the steps of the walk and of the writer leave alone.
LEMMA TypesKept ==
  ASSUME EInv, UNCHANGED planning, plan' = plan
  PROVE  GlbTypeOK' /\ excluded' \subseteq Bundles \X Bundles
  BY DEF EInv, GlbTypeOK, planning, Closure

\* The worker gets the plan, and the planner's memory goes.
LEMMA LoadExports ==
  ASSUME EInv, NEW unready \in SUBSET Bundles, NEW absent \in SUBSET Bundles,
         NEW optional \in BOOLEAN, Load(unready, absent, optional)
  PROVE  EInv'
<1>1. /\ phase = "planned" /\ phase' \in {"walk", "not_ready"} /\ typetree' = typetree
      /\ typetree = << >>
  BY DEF Load, EInv, Unwalked, Planning
<1>2. /\ plan' \in [bundles : SUBSET Bundles, roots : SUBSET Bundles, optional : SUBSET Bundles]
      /\ plan'.roots = plan.roots
  <2>1. plan \in [bundles : SUBSET Bundles, roots : SUBSET Bundles, optional : SUBSET Bundles]
    BY DEF EInv, GlbTypeOK
  <2>2. plan' = plan \/ plan' = [plan EXCEPT !.optional = {}]
    BY DEF Load
  <2> QED BY <2>1, <2>2
<1>3. GlbTypeOK' /\ excluded' = {}
  <2>1. /\ profile' \in Profiles /\ roots' = {} /\ path' = << >> /\ queue' = << >>
        /\ metadata' = << >> /\ excluded' = {}
    BY DEF Load, Profiles
  <2>2. metadata' \in [{} -> SUBSET Bundles] /\ Closure' = {} /\ queue' \in Seq(Bundles)
    BY <2>1 DEF Closure
  <2>3. metadata' \in UNION {[P -> SUBSET Bundles] : P \in SUBSET Bundles}
    BY <2>2
  <2> QED BY <1>2, <2>1, <2>2, <2>3 DEF GlbTypeOK
<1>4. Reached'
  <2> SUFFICES ASSUME phase' = "walk", "error" \notin findings' PROVE Reached'
    BY DEF Reached
  <2>1. findings' = RootFindings(absent) /\ pending' = plan.roots \ absent
    BY DEF Load
  <2>2. plan.roots \cap absent = {}
    BY <2>1 DEF RootFindings
  <2>3. DOMAIN typetree' = {}
    BY <1>1
  <2> QED BY <1>2, <2>1, <2>2, <2>3 DEF Reached
<1> QED BY <1>1, <1>3, <1>4 DEF EInv, Unwalked, ExportComplete, Planning

\* The walk follows a reference, or has a finding about it.
LEMMA WalkExports ==
  ASSUME EInv, NEW object \in Bundles, NEW references \in SUBSET Bundles,
         Walk(object, references)
  PROVE  EInv'
<1>1. /\ phase = "walk" /\ phase' = "walk" /\ plan' = plan /\ object \in pending
      /\ UNCHANGED planning
      /\ findings' = findings \cup UNION {Severity(t) : t \in references}
      /\ pending' = (pending \cup Resolved(references)) \ DOMAIN typetree'
      /\ typetree' = [o \in DOMAIN typetree \cup {object} |->
                        IF o = object THEN references ELSE typetree[o]]
  BY DEF Walk
<1>2. DOMAIN typetree' = DOMAIN typetree \cup {object}
  BY <1>1
<1>3. Reached'
  <2> SUFFICES ASSUME "error" \notin findings' PROVE Reached'
    BY DEF Reached
  <2>1. "error" \notin findings /\ \A t \in references : "error" \notin Severity(t)
    BY <1>1
  <2>2. plan.roots \subseteq pending' \cup DOMAIN typetree'
    BY <1>1, <1>2, <2>1 DEF EInv, Reached
  <2>3. \A t \in references : t \in pending' \cup DOMAIN typetree' \cup plan.optional
    <3> TAKE t \in references
    <3>1. t \in plan.optional \/ t \in Resolved(references)
      BY <2>1 DEF Severity, Resolved
    <3> QED BY <1>1, <3>1
  <2>4. ASSUME NEW o \in DOMAIN typetree', NEW t \in Bundles, t \in typetree'[o]
        PROVE  t \in pending' \cup DOMAIN typetree' \cup plan.optional
    <3>1. CASE o = object
      BY <1>1, <1>2, <2>3, <2>4, <3>1
    <3>2. CASE o # object
      <4>1. o \in DOMAIN typetree /\ t \in typetree[o]
        BY <1>1, <1>2, <2>4, <3>2
      <4>2. t \in pending \cup DOMAIN typetree \cup plan.optional
        BY <1>1, <2>1, <4>1 DEF EInv, Reached
      <4> QED BY <1>1, <1>2, <4>2
    <3> QED BY <3>1, <3>2
  <2> QED BY <1>1, <2>2, <2>4 DEF Reached
<1>4. GlbTypeOK' /\ excluded' \subseteq Bundles \X Bundles
  BY <1>1, TypesKept
<1> QED BY <1>1, <1>3, <1>4 DEF EInv, Unwalked, ExportComplete, Planning

\* An object that cannot be read names nothing.
LEMMA UnreadableExports ==
  ASSUME EInv, NEW object \in Bundles, Unreadable(object) PROVE EInv'
<1>1. /\ phase = "walk" /\ phase' = "walk" /\ plan' = plan /\ object \in pending
      /\ UNCHANGED planning
      /\ findings' = findings \cup {"warning"} /\ pending' = pending \ {object}
      /\ typetree' = [o \in DOMAIN typetree \cup {object} |->
                        IF o = object THEN {} ELSE typetree[o]]
  BY DEF Unreadable
<1>2. DOMAIN typetree' = DOMAIN typetree \cup {object}
  BY <1>1
<1>3. Reached'
  <2> SUFFICES ASSUME "error" \notin findings' PROVE Reached'
    BY DEF Reached
  <2>1. "error" \notin findings
    BY <1>1
  <2>2. plan.roots \subseteq pending' \cup DOMAIN typetree'
    BY <1>1, <1>2, <2>1 DEF EInv, Reached
  <2>3. ASSUME NEW o \in DOMAIN typetree', NEW t \in Bundles, t \in typetree'[o]
        PROVE  t \in pending' \cup DOMAIN typetree' \cup plan.optional
    <3>1. o # object /\ o \in DOMAIN typetree /\ t \in typetree[o]
      BY <1>1, <1>2, <2>3
    <3>2. t \in pending \cup DOMAIN typetree \cup plan.optional
      BY <1>1, <2>1, <3>1 DEF EInv, Reached
    <3> QED BY <1>1, <1>2, <3>2
  <2> QED BY <1>1, <2>2, <2>3 DEF Reached
<1>4. GlbTypeOK' /\ excluded' \subseteq Bundles \X Bundles
  BY <1>1, TypesKept
<1> QED BY <1>1, <1>3, <1>4 DEF EInv, Unwalked, ExportComplete, Planning

\* The writer starts on a complete walk; a later run walks afresh.
LEMMA WriteExports ==
  ASSUME EInv, Walked \/ WriteStops \/ Again
               \/ \E f \in {"package", "glb", "export"}, now, next \in Writing :
                    WriteFile(f, now, next)
  PROVE  EInv'
<1>1. UNCHANGED planning /\ plan' = plan
  BY DEF Walked, WriteStops, Again, WriteFile, walking
<1>2. GlbTypeOK' /\ excluded' \subseteq Bundles \X Bundles
  BY <1>1, TypesKept
<1>3. CASE Walked
  <2>1. /\ phase = "walk" /\ pending = {} /\ typetree' = typetree
        /\ phase' = IF "error" \in findings THEN "refused" ELSE "write package"
    BY <1>3 DEF Walked, walking
  <2> QED BY <1>1, <1>2, <2>1 DEF EInv, Unwalked, Reached, ExportComplete, Planning
<1>4. CASE WriteStops
  BY <1>2, <1>4 DEF WriteStops, EInv, Unwalked, Reached, ExportComplete, Planning
<1>5. CASE Again
  <2>1. /\ phase' = "walk" /\ typetree' = << >> /\ pending' = plan.roots \ broken
        /\ findings' = RootFindings(broken)
    BY <1>5 DEF Again
  <2>2. Reached'
    <3> SUFFICES ASSUME "error" \notin findings' PROVE Reached'
      BY DEF Reached
    <3>1. plan.roots \cap broken = {} /\ DOMAIN typetree' = {}
      BY <2>1 DEF RootFindings
    <3> QED BY <1>1, <2>1, <3>1 DEF Reached
  <2> QED BY <1>2, <2>1, <2>2 DEF EInv, Unwalked, ExportComplete, Planning
<1>6. CASE \E f \in {"package", "glb", "export"}, now, next \in Writing :
             WriteFile(f, now, next)
  <2>1. phase \in Writing /\ phase' \in Writing /\ typetree' = typetree
    BY <1>6 DEF WriteFile, walking
  <2> QED BY <1>1, <1>2, <2>1
          DEF EInv, Unwalked, Reached, ExportComplete, Planning, Writing
<1> QED BY <1>3, <1>4, <1>5, <1>6

\* Every step keeps the types and the account of the walk.
LEMMA ExportStep == CInv /\ EInv /\ [GlbNext]_glbVars => EInv'
<1> SUFFICES ASSUME CInv, EInv, [GlbNext]_glbVars PROVE EInv'
  OBVIOUS
<1>1. CASE UNCHANGED glbVars
  <2>1. GlbTypeOK' /\ excluded' \subseteq Bundles \X Bundles
    BY <1>1, TypesKept DEF glbVars
  <2> QED BY <1>1, <2>1 DEF glbVars, walking, EInv, Unwalked, Reached, ExportComplete
<1>2. CASE WriteFile("package", "write package", "write glb")
           \/ WriteFile("glb", "write glb", "write export")
           \/ WriteFile("export", "write export", "exported")
  BY <1>2, WriteExports DEF Writing
<1> QED BY <1>1, <1>2, VisitTypes, PlannedTypes, LoadExports, WalkExports,
           UnreadableExports, WriteExports DEF GlbNext

\* The initial state has its types, and nothing is walked.
LEMMA ExportInit == GlbInit => EInv
<1> SUFFICES ASSUME GlbInit PROVE EInv
  OBVIOUS
<1>1. roots \subseteq Present /\ Present \subseteq Bundles /\ Closure = roots
  BY DEF GlbInit, Closure, Present
<1>2. queue \in Seq(Bundles)
  <2>1. roots \subseteq Nat /\ Cardinality(roots) \in Nat
    BY <1>1, BundleSets
  <2>2. queue \in Seq(roots)
    BY <2>1, ListingFacts DEF GlbInit
  <2> QED BY <1>1, <2>2
<1>3. plan \in [bundles : SUBSET Bundles, roots : SUBSET Bundles, optional : SUBSET Bundles]
  BY DEF GlbInit, NoPlan
<1>4. GlbTypeOK
  BY <1>1, <1>2, <1>3 DEF GlbInit, GlbTypeOK
<1> QED BY <1>4 DEF GlbInit, EInv, Unwalked, Reached, ExportComplete

\* extract/glb: every variable keeps its type.
THEOREM PackageTypes == GlbSpec => []GlbTypeOK
<1>1. GlbInit => CInv /\ EInv
  BY PlanInit, ExportInit
<1>2. CInv /\ EInv /\ [GlbNext]_glbVars => (CInv /\ EInv)'
  BY PlanStep, ExportStep
<1>3. EInv => GlbTypeOK
  BY DEF EInv
<1> QED BY <1>1, <1>2, <1>3, PTL DEF GlbSpec

\* export_root_glb_sync: whatever the objects name, a package is written only
\* when all that can be reached from its roots is in the collection, or was
\* called optional.
THEOREM ExportsComplete == GlbSpec => []ExportComplete
<1>1. GlbInit => CInv /\ EInv
  BY PlanInit, ExportInit
<1>2. CInv /\ EInv /\ [GlbNext]_glbVars => (CInv /\ EInv)'
  BY PlanStep, ExportStep
<1>3. EInv => ExportComplete
  BY DEF EInv
<1> QED BY <1>1, <1>2, <1>3, PTL DEF GlbSpec
=============================================================================
