-------------------------- MODULE StateStoreProofs --------------------------
(***************************************************************************)
(* What StateStore guarantees for every set of runs and every number of    *)
(* updates.  The inductive invariant says, for the step the lock holder is *)
(* at, which files it has written already and whether a power loss could   *)
(* still bring back a directory without its journal; everything else       *)
(* follows from it.                                                        *)
(***************************************************************************)
EXTENDS StateStore, TLAPS

Targets == {"queue", "asset_metadata", "game_version"}

\* Steps of an update whose journal is published, of those whose journal is
\* durable, and of those that have written the queue, the metadata, the version.
Journaled == {"sync_journal", "put_queue", "sync_queue", "put_metadata", "sync_metadata",
              "put_version", "sync_version", "verify", "unlink"}
Durable == {"put_metadata", "sync_metadata", "put_version", "sync_version", "verify", "unlink"}
QueueDone == Durable \cup {"sync_queue"}
MetadataDone == Durable \ {"put_metadata"}
VersionDone == {"sync_version", "verify", "unlink"}
Unjournaled == {"ready", "link", "put_alone", "sync_return"}

\* What holds of the directory while run r is at its present step.
StepInv(r) ==
  /\ pc[r] \in Unjournaled => dir["journal"] = Absent
  /\ pc[r] \in Journaled \cup {"link"} => txn[r] # Absent
  /\ pc[r] \in Journaled => dir["journal"] = txn[r]
  /\ pc[r] \in Durable => \A d \in images : d["journal"] # Absent
  /\ pc[r] \in QueueDone => dir["queue"] = txn[r]
  /\ pc[r] \in MetadataDone => dir["asset_metadata"] = txn[r]
  /\ pc[r] \in VersionDone => dir["game_version"] = txn[r]
  /\ pc[r] \in {"verify", "unlink"} => images = {dir}

IInv ==
  /\ TypeOK /\ SingleWriter /\ NoTornState /\ CrashConsistent
  /\ \A r \in Runs : StepInv(r)
-----------------------------------------------------------------------------
\* What a reader finds in a well-formed directory is a logical state.
LEMMA LogicalType == \A d \in [Files -> Serials] : Logical(d) \in State
BY DEF Logical, State, Files, Serials, Absent

\* Init establishes the invariant.
LEMMA InitInv == Init => IInv
<1> SUFFICES ASSUME Init PROVE IInv
  OBVIOUS
<1>1. TypeOK
  BY StateStoreAssumption, LogicalType
     DEF Init, TypeOK, Files, Serials, Absent, Pcs
<1>2. SingleWriter /\ NoTornState /\ CrashConsistent
  BY DEF Init, SingleWriter, NoTornState, CrashConsistent, Files
<1>3. \A r \in Runs : StepInv(r)
  BY DEF Init, StepInv, Unjournaled, Journaled, Durable, QueueDone, MetadataDone,
         VersionDone
<1> QED BY <1>1, <1>2, <1>3 DEF IInv
-----------------------------------------------------------------------------
(* Preservation.                                                           *)

\* A published file keeps the directory well formed, and the state it makes
\* visible is one of the attempts, so a power loss may reveal it.
LEMMA PublishCrash ==
  ASSUME TypeOK, CrashConsistent, NEW f \in Files, NEW c \in Serials, Publish(f, c)
  PROVE  /\ dir' \in [Files -> Serials] /\ images' \subseteq [Files -> Serials]
         /\ dir' \in images' /\ acked' \in State /\ attempts' \subseteq State
         /\ CrashConsistent'
<1>1. dir' \in [Files -> Serials] /\ images' = images \cup {dir'}
  BY DEF TypeOK, Publish
<1>2. Logical(dir') \in State
  BY <1>1, LogicalType
<1>3. Logical(dir) \in attempts \cup {acked}
  BY DEF TypeOK, CrashConsistent
<1>4. Logical(dir') \in attempts' \cup {acked'}
  BY <1>3 DEF Publish
<1>5. attempts \subseteq attempts' /\ acked' = acked
  BY DEF Publish
<1>6. \A d \in images' : Logical(d) \in attempts' \cup {acked'}
  BY <1>1, <1>4, <1>5 DEF CrashConsistent
<1>7. CrashConsistent'
  BY <1>6 DEF CrashConsistent, Logical
<1>8. attempts' \subseteq State
  BY <1>2 DEF TypeOK, Publish
<1> QED BY <1>1, <1>5, <1>7, <1>8 DEF TypeOK

\* While one run is not down every other run is, and it stays so when the first
\* one moves.
LEMMA OthersDown ==
  ASSUME TypeOK, SingleWriter, NEW r \in Runs, pc[r] # "down",
         NEW p \in Pcs, Goto(r, p), lock' = lock
  PROVE  /\ pc' \in [Runs -> Pcs] /\ pc'[r] = p
         /\ \A s \in Runs \ {r} : pc'[s] = "down"
         /\ SingleWriter'
<1>1. pc' \in [Runs -> Pcs] /\ pc'[r] = p /\ \A s \in Runs \ {r} : pc'[s] = pc[s]
  BY DEF TypeOK, Goto
<1>2. lock = r
  BY DEF SingleWriter
<1>3. \A s \in Runs \ {r} : pc[s] = "down"
  BY <1>2 DEF SingleWriter
<1> QED BY <1>1, <1>2, <1>3 DEF SingleWriter

\* A run that is down has nothing to keep.
LEMMA DownInv == \A s \in Runs : pc[s] = "down" => StepInv(s)
BY DEF StepInv, Unjournaled, Journaled, Durable, QueueDone, MetadataDone, VersionDone

\* An fsync forgets every directory but the present one: what holds of the
\* present one is all that is left to show.
LEMMA SyncFacts ==
  ASSUME IInv, images' = {dir}, UNCHANGED <<dir, history>>
  PROVE  /\ images' \subseteq [Files -> Serials] /\ dir' \in images'
         /\ CrashConsistent' /\ NoTornState' /\ dir' = dir
<1>1. dir \in images /\ dir \in [Files -> Serials]
  BY DEF IInv, TypeOK
<1>2. CrashConsistent'
  BY <1>1 DEF IInv, CrashConsistent, history, Logical
<1>3. dir["journal"] = Absent => dir["asset_metadata"] = dir["game_version"]
  BY <1>1 DEF IInv, NoTornState
<1>4. NoTornState'
  BY <1>3 DEF NoTornState
<1> QED BY <1>1, <1>2, <1>4

\* A file other than the metadata and the version can be published at any time,
\* the journal removed only when the present directory is the only image.
LEMMA PublishNotTorn ==
  ASSUME IInv, NEW f \in Files, NEW c \in Serials, Publish(f, c),
         \/ f = "queue"
         \/ f = "journal" /\ c # Absent
         \/ /\ f = "journal" /\ images = {dir}
            /\ dir["asset_metadata"] = dir["game_version"]
         \/ f \in {"asset_metadata", "game_version"} /\ \A d \in images : d["journal"] # Absent
  PROVE  NoTornState'
<1>1. dir \in [Files -> Serials] /\ dir \in images /\ images \subseteq [Files -> Serials]
  BY DEF IInv, TypeOK
<1>2. images' = images \cup {dir'} /\ dir' = [dir EXCEPT ![f] = c]
  BY DEF Publish
<1>3. \A g \in Files : dir'[g] = IF g = f THEN c ELSE dir[g]
  BY <1>1, <1>2
<1>4. NoTornState
  BY DEF IInv
<1>5. ASSUME /\ \A g \in {"asset_metadata", "game_version"} : dir'[g] = dir[g]
             /\ dir'["journal"] = Absent => dir["journal"] = Absent
      PROVE  NoTornState'
  <2>1. \A n \in images' : \E d \in images :
          /\ n["journal"] = Absent => d["journal"] = Absent
          /\ \A g \in {"asset_metadata", "game_version"} : n[g] = d[g]
    BY <1>1, <1>2, <1>5
  <2>2. SUFFICES ASSUME NEW j \in images', NEW m \in images', NEW v \in images',
                        j["journal"] = Absent
                 PROVE  m["asset_metadata"] = v["game_version"]
    BY DEF NoTornState
  <2>3. PICK d \in images : d["journal"] = Absent
    BY <2>1, <2>2
  <2>4. PICK dm \in images : dm["asset_metadata"] = m["asset_metadata"]
    BY <2>1
  <2>5. PICK dv \in images : dv["game_version"] = v["game_version"]
    BY <2>1
  <2> QED BY <1>4, <2>3, <2>4, <2>5 DEF NoTornState
<1>6. CASE /\ f = "journal" /\ images = {dir}
           /\ dir["asset_metadata"] = dir["game_version"]
  <2>1. \A g \in {"asset_metadata", "game_version"} : dir'[g] = dir[g]
    BY <1>3, <1>6 DEF Files
  <2>2. \A n \in images' : /\ n["asset_metadata"] = dir["asset_metadata"]
                           /\ n["game_version"] = dir["game_version"]
    BY <1>2, <1>6, <2>1
  <2> QED BY <1>6, <2>2 DEF NoTornState
<1>7. CASE /\ f \in {"asset_metadata", "game_version"}
           /\ \A d \in images : d["journal"] # Absent
  <2>1. dir'["journal"] # Absent
    BY <1>1, <1>3, <1>7 DEF Files
  <2>2. \A n \in images' : n["journal"] # Absent
    BY <1>2, <1>7, <2>1
  <2> QED BY <2>2 DEF NoTornState
<1>8. CASE f = "queue"
  BY <1>3, <1>5, <1>8 DEF Files
<1>9. CASE f = "journal" /\ c # Absent
  BY <1>3, <1>5, <1>9 DEF Files
<1> QED BY <1>6, <1>7, <1>8, <1>9
-----------------------------------------------------------------------------
\* A step that leaves the directory alone and moves one run.
LEMMA QuietInv ==
  ASSUME IInv, NEW r \in Runs, pc[r] # "down", NEW p \in Pcs, Goto(r, p),
         txn' \in [Runs -> Serials], kind' \in [Runs -> {"replay", "empty", "queue"}],
         serial' \in Serials,
         UNCHANGED <<dir, images, lock, history>>, StepInv(r)'
  PROVE  IInv'
<1>1. /\ pc' \in [Runs -> Pcs] /\ \A s \in Runs \ {r} : pc'[s] = "down"
      /\ SingleWriter'
  BY OthersDown DEF IInv
<1>2. TypeOK'
  BY <1>1 DEF IInv, TypeOK, history
<1>3. NoTornState' /\ CrashConsistent'
  BY DEF IInv, NoTornState, CrashConsistent, history, Logical
<1>4. \A s \in Runs \ {r} : StepInv(s)'
  BY <1>1 DEF StepInv, Unjournaled, Journaled, Durable, QueueDone, MetadataDone,
              VersionDone
<1> QED BY <1>1, <1>2, <1>3, <1>4 DEF IInv

\* A step that publishes a file.
LEMMA PublishInv ==
  ASSUME IInv, NEW r \in Runs, pc[r] # "down", NEW p \in Pcs, Goto(r, p),
         NEW f \in Files, NEW c \in Serials, Publish(f, c),
         UNCHANGED <<lock, txn, kind, serial>>, NoTornState', StepInv(r)'
  PROVE  IInv'
<1>1. /\ pc' \in [Runs -> Pcs] /\ \A s \in Runs \ {r} : pc'[s] = "down"
      /\ SingleWriter'
  BY OthersDown DEF IInv
<1>2. /\ dir' \in [Files -> Serials] /\ images' \subseteq [Files -> Serials]
      /\ dir' \in images' /\ acked' \in State /\ attempts' \subseteq State
      /\ CrashConsistent'
  BY PublishCrash DEF IInv
<1>3. TypeOK'
  BY <1>1, <1>2 DEF IInv, TypeOK
<1>4. \A s \in Runs \ {r} : StepInv(s)'
  BY <1>1 DEF StepInv, Unjournaled, Journaled, Durable, QueueDone, MetadataDone,
              VersionDone
<1> QED BY <1>1, <1>2, <1>3, <1>4 DEF IInv

\* A step that fsyncs the directory.
LEMMA SyncInv ==
  ASSUME IInv, NEW r \in Runs, pc[r] # "down", NEW p \in Pcs, Sync(r, p), StepInv(r)'
  PROVE  IInv'
<1>1. /\ pc' \in [Runs -> Pcs] /\ \A s \in Runs \ {r} : pc'[s] = "down"
      /\ SingleWriter'
  BY OthersDown DEF IInv, Sync
<1>2. /\ images' \subseteq [Files -> Serials] /\ dir' \in images'
      /\ CrashConsistent' /\ NoTornState' /\ dir' = dir
  BY SyncFacts DEF Sync
<1>3. TypeOK'
  BY <1>1, <1>2 DEF IInv, TypeOK, Sync, history
<1>4. \A s \in Runs \ {r} : StepInv(s)'
  BY <1>1 DEF StepInv, Unjournaled, Journaled, Durable, QueueDone, MetadataDone,
              VersionDone
<1> QED BY <1>1, <1>2, <1>3, <1>4 DEF IInv
-----------------------------------------------------------------------------
(* One lemma per kind of step: what the actions of run r do to IInv.       *)

\* The actions that only move the run, begin or recover.
LEMMA QuietActions ==
  ASSUME IInv, NEW r \in Runs, Recover(r) \/ Begin(r) \/ Verify(r)
  PROVE  IInv'
<1> USE DEF Unjournaled, Journaled, Durable, QueueDone, MetadataDone, VersionDone
<1>1. /\ TypeOK /\ StepInv(r) /\ dir \in [Files -> Serials]
      /\ txn \in [Runs -> Serials] /\ kind \in [Runs -> {"replay", "empty", "queue"}]
      /\ pc \in [Runs -> Pcs] /\ serial \in Nat /\ serial \in Serials
  BY StateStoreAssumption DEF IInv, TypeOK, Serials
<1>2. CASE Recover(r) /\ dir["journal"] = Absent
  <2>1. Goto(r, "ready") /\ pc[r] = "recover" /\ UNCHANGED <<dir, images, lock, txn, kind, serial, history>>
    BY <1>2 DEF Recover
  <2>2. pc'[r] = "ready" /\ dir'["journal"] = Absent
    BY <1>1, <1>2, <2>1 DEF Goto
  <2>3. StepInv(r)'
    BY <2>2 DEF StepInv
  <2> QED BY <1>1, <2>1, <2>3, QuietInv DEF Pcs
<1>3. CASE Recover(r) /\ dir["journal"] # Absent
  <2>1. /\ Goto(r, "put_queue") /\ pc[r] = "recover"
        /\ txn' = [txn EXCEPT ![r] = dir["journal"]]
        /\ kind' = [kind EXCEPT ![r] = "replay"]
        /\ UNCHANGED <<dir, images, lock, serial, history>>
    BY <1>3 DEF Recover
  <2>2. dir["journal"] \in Serials
    BY <1>1 DEF Files
  <2>3. pc'[r] = "put_queue" /\ dir'["journal"] = txn'[r] /\ txn'[r] # Absent
    BY <1>1, <1>3, <2>1 DEF Goto
  <2>4. StepInv(r)'
    BY <2>3 DEF StepInv
  <2> QED BY <1>1, <2>1, <2>2, <2>4, QuietInv DEF Pcs
<1>4. CASE Begin(r)
  <2>1. /\ pc[r] = "ready" /\ serial < MaxSerial /\ serial' = serial + 1
        /\ txn' = [txn EXCEPT ![r] = serial + 1]
        /\ UNCHANGED <<dir, images, lock, history>>
    BY <1>4 DEF Begin
  <2>2. PICK k \in {"replay", "empty", "queue"} :
          /\ kind' = [kind EXCEPT ![r] = k]
          /\ Goto(r, IF k = "queue" THEN "put_alone" ELSE "link")
    BY <1>4 DEF Begin
  <2>3. serial + 1 \in Serials /\ serial + 1 # Absent
    BY <1>1, <2>1, StateStoreAssumption DEF Serials, Absent
  <2>4. pc'[r] \in {"put_alone", "link"} /\ txn'[r] # Absent /\ dir'["journal"] = Absent
    BY <1>1, <2>1, <2>2, <2>3 DEF Goto, StepInv
  <2>5. StepInv(r)'
    BY <2>4 DEF StepInv
  <2>6. (IF k = "queue" THEN "put_alone" ELSE "link") \in Pcs
    BY DEF Pcs
  <2>7. /\ txn' \in [Runs -> Serials] /\ serial' \in Serials
        /\ kind' \in [Runs -> {"replay", "empty", "queue"}]
    BY <1>1, <2>1, <2>2, <2>3
  <2> QED BY <2>1, <2>2, <2>5, <2>6, <2>7, QuietInv
<1>5. CASE Verify(r)
  <2>1. Goto(r, "unlink") /\ pc[r] = "verify" /\ UNCHANGED <<dir, images, lock, txn, kind, serial, history>>
    BY <1>5 DEF Verify
  <2>2. pc'[r] = "unlink"
    BY <1>1, <2>1 DEF Goto
  <2>3. StepInv(r)'
    BY <1>1, <2>1, <2>2 DEF StepInv
  <2> QED BY <1>1, <2>1, <2>3, QuietInv DEF Pcs
<1> QED BY <1>2, <1>3, <1>4, <1>5

\* The fsyncs within an update.
LEMMA SyncActions ==
  ASSUME IInv, NEW r \in Runs,
         SyncJournal(r) \/ SyncQueue(r) \/ SyncMetadata(r) \/ SyncVersion(r)
  PROVE  IInv'
<1> USE DEF Unjournaled, Journaled, Durable, QueueDone, MetadataDone, VersionDone
<1>1. TypeOK /\ StepInv(r) /\ pc \in [Runs -> Pcs]
  BY DEF IInv, TypeOK
<1>2. PICK p \in {"put_queue", "put_metadata", "put_version", "unlink", "verify"} :
        /\ Sync(r, p)
        /\ \/ pc[r] = "sync_journal" /\ p = "put_queue"
           \/ pc[r] = "sync_queue" /\ p = "put_metadata"
           \/ pc[r] = "sync_metadata" /\ p = "put_version"
           \/ pc[r] = "sync_version" /\ p \in {"unlink", "verify"}
  BY DEF SyncJournal, SyncQueue, SyncMetadata, SyncVersion
<1>3. pc'[r] = p /\ images' = {dir} /\ dir' = dir /\ txn' = txn
  BY <1>1, <1>2 DEF Sync, Goto
<1>4. StepInv(r)'
  BY <1>1, <1>2, <1>3 DEF StepInv
<1> QED BY <1>2, <1>4, SyncInv DEF Pcs

\* The publications: each names its file, its content and the step after it.
LEMMA PublishActions ==
  ASSUME IInv, NEW r \in Runs,
         \/ LinkJournal(r) \/ PutQueue(r) \/ PutMetadata(r) \/ PutVersion(r)
         \/ UnlinkJournal(r) \/ PutQueueAlone(r)
  PROVE  IInv'
<1> USE DEF Unjournaled, Journaled, Durable, QueueDone, MetadataDone, VersionDone
<1>1. /\ TypeOK /\ StepInv(r) /\ dir \in [Files -> Serials]
      /\ txn \in [Runs -> Serials] /\ pc \in [Runs -> Pcs]
      /\ txn[r] \in Serials /\ Absent \in Serials
  BY StateStoreAssumption DEF IInv, TypeOK, Serials, Absent
<1>2. ASSUME NEW f \in Files, NEW c \in Serials, NEW p \in Pcs, Publish(f, c), Goto(r, p)
      PROVE  /\ pc'[r] = p /\ images' = images \cup {dir'}
             /\ \A g \in Files : dir'[g] = IF g = f THEN c ELSE dir[g]
  BY <1>1, <1>2 DEF Publish, Goto
<1>3. CASE LinkJournal(r)
  <2>1. /\ pc[r] = "link" /\ Publish("journal", txn[r]) /\ Goto(r, "sync_journal")
        /\ UNCHANGED <<lock, txn, kind, serial>>
    BY <1>3 DEF LinkJournal
  <2>2. txn[r] # Absent
    BY <1>1, <2>1 DEF StepInv
  <2>3. pc'[r] = "sync_journal" /\ dir'["journal"] = txn[r]
    BY <1>1, <1>2, <2>1 DEF Files, Pcs
  <2>4. NoTornState'
    BY <1>1, <2>1, <2>2, PublishNotTorn DEF Files
  <2>5. StepInv(r)'
    BY <2>1, <2>2, <2>3 DEF StepInv
  <2> QED BY <1>1, <2>1, <2>4, <2>5, PublishInv DEF Files, Pcs
<1>4. CASE PutQueue(r)
  <2>1. /\ pc[r] = "put_queue" /\ Publish("queue", txn[r]) /\ Goto(r, "sync_queue")
        /\ UNCHANGED <<lock, txn, kind, serial>>
    BY <1>4 DEF PutQueue, Put
  <2>2. /\ pc'[r] = "sync_queue" /\ dir'["queue"] = txn[r]
        /\ dir'["journal"] = dir["journal"]
    BY <1>1, <1>2, <2>1 DEF Files, Pcs
  <2>3. NoTornState'
    BY <1>1, <2>1, PublishNotTorn DEF Files
  <2>4. StepInv(r)'
    BY <1>1, <2>1, <2>2 DEF StepInv
  <2> QED BY <1>1, <2>1, <2>3, <2>4, PublishInv DEF Files, Pcs
<1>5. CASE PutMetadata(r)
  <2>1. /\ pc[r] = "put_metadata" /\ Publish("asset_metadata", txn[r])
        /\ Goto(r, "sync_metadata") /\ UNCHANGED <<lock, txn, kind, serial>>
    BY <1>5 DEF PutMetadata, Put
  <2>2. /\ pc'[r] = "sync_metadata" /\ dir'["asset_metadata"] = txn[r]
        /\ dir'["journal"] = dir["journal"] /\ dir'["queue"] = dir["queue"]
        /\ images' = images \cup {dir'}
    BY <1>1, <1>2, <2>1 DEF Files, Pcs
  <2>3. (\A d \in images : d["journal"] # Absent) /\ dir["journal"] = txn[r] /\ txn[r] # Absent
    BY <1>1, <2>1 DEF StepInv
  <2>4. NoTornState'
    BY <1>1, <2>1, <2>3, PublishNotTorn DEF Files
  <2>5. StepInv(r)'
    BY <1>1, <2>1, <2>2, <2>3 DEF StepInv
  <2> QED BY <1>1, <2>1, <2>4, <2>5, PublishInv DEF Files, Pcs
<1>6. CASE PutVersion(r)
  <2>1. /\ pc[r] = "put_version" /\ Publish("game_version", txn[r])
        /\ Goto(r, "sync_version") /\ UNCHANGED <<lock, txn, kind, serial>>
    BY <1>6 DEF PutVersion, Put
  <2>2. /\ pc'[r] = "sync_version" /\ dir'["game_version"] = txn[r]
        /\ dir'["asset_metadata"] = dir["asset_metadata"]
        /\ dir'["journal"] = dir["journal"] /\ dir'["queue"] = dir["queue"]
        /\ images' = images \cup {dir'}
    BY <1>1, <1>2, <2>1 DEF Files, Pcs
  <2>3. (\A d \in images : d["journal"] # Absent) /\ dir["journal"] = txn[r] /\ txn[r] # Absent
    BY <1>1, <2>1 DEF StepInv
  <2>4. NoTornState'
    BY <1>1, <2>1, <2>3, PublishNotTorn DEF Files
  <2>5. StepInv(r)'
    BY <1>1, <2>1, <2>2, <2>3 DEF StepInv
  <2> QED BY <1>1, <2>1, <2>4, <2>5, PublishInv DEF Files, Pcs
<1>7. CASE UnlinkJournal(r)
  <2>1. /\ pc[r] = "unlink" /\ Publish("journal", Absent) /\ Goto(r, "sync_return")
        /\ UNCHANGED <<lock, txn, kind, serial>>
    BY <1>7 DEF UnlinkJournal
  <2>2. pc'[r] = "sync_return" /\ dir'["journal"] = Absent
    BY <1>1, <1>2, <2>1 DEF Files, Pcs
  <2>3. images = {dir} /\ dir["asset_metadata"] = dir["game_version"]
    BY <1>1, <2>1 DEF StepInv
  <2>4. NoTornState'
    BY <1>1, <2>1, <2>3, PublishNotTorn DEF Files
  <2>5. StepInv(r)'
    BY <2>2 DEF StepInv
  <2> QED BY <1>1, <2>1, <2>4, <2>5, PublishInv DEF Files, Pcs
<1>8. CASE PutQueueAlone(r)
  <2>1. /\ pc[r] = "put_alone" /\ Goto(r, "sync_return")
        /\ UNCHANGED <<lock, txn, kind, serial>>
    BY <1>8 DEF PutQueueAlone
  <2>2. PICK c \in {txn[r], Absent} : Publish("queue", c)
    BY <1>8 DEF PutQueueAlone
  <2>3. c \in Serials
    BY <1>1
  <2>4. pc'[r] = "sync_return" /\ dir'["journal"] = dir["journal"]
    BY <1>1, <1>2, <2>1, <2>2, <2>3 DEF Files, Pcs
  <2>5. NoTornState'
    BY <2>2, <2>3, PublishNotTorn DEF Files
  <2>6. StepInv(r)'
    BY <1>1, <2>1, <2>4 DEF StepInv
  <2> QED BY <2>1, <2>2, <2>3, <2>5, <2>6, PublishInv DEF Files, Pcs
<1> QED BY <1>3, <1>4, <1>5, <1>6, <1>7, <1>8

\* The end of a call: the present state is acknowledged.
LEMMA ReturnInv == ASSUME IInv, NEW r \in Runs, Return(r) PROVE IInv'
<1>1. /\ pc[r] = "sync_return" /\ Goto(r, "ready") /\ images' = {dir}
      /\ acked' = Logical(dir) /\ attempts' = {}
      /\ UNCHANGED <<dir, lock, txn, kind, serial>>
  BY DEF Return, SyncAndReturn
<1>2. /\ TypeOK /\ StepInv(r) /\ dir \in images /\ dir \in [Files -> Serials]
      /\ "ready" \in Pcs
  BY DEF IInv, TypeOK, Pcs
<1>3. /\ pc' \in [Runs -> Pcs] /\ \A s \in Runs \ {r} : pc'[s] = "down"
      /\ SingleWriter' /\ pc'[r] = "ready"
  BY <1>1, <1>2, OthersDown DEF IInv
<1>4. TypeOK'
  BY <1>1, <1>2, <1>3, LogicalType DEF TypeOK
<1>5. CrashConsistent'
  BY <1>1 DEF CrashConsistent, Logical
<1>6. dir["asset_metadata"] = dir["game_version"]
  BY <1>1, <1>2 DEF IInv, NoTornState, StepInv, Unjournaled
<1>7. NoTornState'
  BY <1>1, <1>6 DEF NoTornState
<1>8. dir'["journal"] = Absent
  BY <1>1, <1>2 DEF StepInv, Unjournaled
<1>9. \A s \in Runs : StepInv(s)'
  BY <1>3, <1>8 DEF StepInv, Unjournaled, Journaled, Durable, QueueDone, MetadataDone,
                    VersionDone
<1> QED BY <1>3, <1>4, <1>5, <1>7, <1>9 DEF IInv

\* Taking and dropping the lock, and the failures.
LEMMA LockActions ==
  ASSUME IInv,
         PowerLoss \/ \E r \in Runs : Acquire(r) \/ Release(r) \/ Stop(r)
  PROVE  IInv'
<1> USE DEF Unjournaled, Journaled, Durable, QueueDone, MetadataDone, VersionDone
<1>1. TypeOK /\ SingleWriter /\ pc \in [Runs -> Pcs] /\ \A s \in Runs : StepInv(s)
  BY DEF IInv, TypeOK
<1>2. CASE PowerLoss
  <2>1. /\ dir' \in images /\ images' = {dir'} /\ lock' = NoRun
        /\ pc' = [r \in Runs |-> "down"] /\ UNCHANGED <<txn, kind, serial, history>>
    BY <1>2 DEF PowerLoss
  <2>2. TypeOK'
    BY <1>1, <2>1 DEF TypeOK, history, Pcs
  <2>3. SingleWriter' /\ \A s \in Runs : StepInv(s)'
    BY <2>1 DEF SingleWriter, StepInv
  <2>4. Logical(dir') \in attempts' \cup {acked'}
    BY <2>1 DEF IInv, CrashConsistent, history
  <2>5. CrashConsistent'
    BY <2>1, <2>4 DEF CrashConsistent, Logical
  <2>6. NoTornState'
    BY <2>1 DEF IInv, NoTornState
  <2> QED BY <2>2, <2>3, <2>5, <2>6 DEF IInv
<1>3. ASSUME NEW r \in Runs, Acquire(r) \/ Release(r) \/ Stop(r)
      PROVE  IInv'
  <2>1. UNCHANGED <<dir, images, txn, kind, serial, acked, attempts>>
    BY <1>3 DEF Acquire, Release, Stop, history
  <2>2. NoTornState' /\ CrashConsistent'
    BY <2>1 DEF IInv, NoTornState, CrashConsistent, Logical
  <2>3. /\ pc' \in [Runs -> Pcs] /\ pc'[r] \in {"down", "recover"}
        /\ \A s \in Runs \ {r} : pc'[s] = pc[s]
    BY <1>1, <1>3 DEF Acquire, Release, Stop, Goto, Pcs
  <2>4. TypeOK' /\ SingleWriter'
    <3>1. CASE Acquire(r)
      BY <1>1, <2>1, <2>3, <3>1, StateStoreAssumption DEF Acquire, TypeOK, SingleWriter
    <3>2. CASE Release(r)
      BY <1>1, <2>1, <2>3, <3>2 DEF Release, Goto, TypeOK, SingleWriter
    <3>3. CASE Stop(r)
      BY <1>1, <2>1, <2>3, <3>3 DEF Stop, Goto, TypeOK, SingleWriter
    <3> QED BY <1>3, <3>1, <3>2, <3>3
  <2>5. \A s \in Runs : StepInv(s)'
    BY <1>1, <2>1, <2>3 DEF StepInv
  <2> QED BY <2>2, <2>4, <2>5 DEF IInv
<1> QED BY <1>2, <1>3

\* Every step preserves the invariant.
LEMMA NextInv == IInv /\ [Next]_vars => IInv'
<1> SUFFICES ASSUME IInv, [Next]_vars PROVE IInv'
  OBVIOUS
<1>1. CASE UNCHANGED vars
  BY <1>1 DEF vars, history, IInv, TypeOK, SingleWriter, NoTornState, CrashConsistent,
              StepInv, Logical
<1>2. CASE PowerLoss
  BY <1>2, LockActions
<1>3. ASSUME NEW r \in Runs, Acquire(r) \/ Release(r) \/ Stop(r) PROVE IInv'
  BY <1>3, LockActions
<1>4. ASSUME NEW r \in Runs, StoreStep(r) \/ Begin(r) PROVE IInv'
  BY <1>4, QuietActions, SyncActions, PublishActions, ReturnInv DEF StoreStep
<1> QED BY <1>1, <1>2, <1>3, <1>4 DEF Next

\* The invariant of every behaviour.
THEOREM Invariant == Spec => []IInv
BY InitInv, NextInv, PTL DEF Spec

\* The variables keep their types.
THEOREM TypeCorrect == Spec => []TypeOK
<1>1. IInv => TypeOK
  BY DEF IInv
<1> QED BY <1>1, Invariant, PTL

\* Only the run that holds the flock of state.py is past its start, so no update of
\* one run interleaves with another's.
THEOREM SingleWriterAlways == Spec => []SingleWriter
<1>1. IInv => SingleWriter
  BY DEF IInv
<1> QED BY <1>1, Invariant, PTL

\* replay_journal's read-back never fails and create_journal never finds a journal.
THEOREM NeverBlockedAlways == Spec => []NeverBlocked
<1>1. IInv => NeverBlocked
  BY DEF IInv, StepInv, NeverBlocked, Files, Unjournaled, QueueDone, Durable,
         MetadataDone, VersionDone
<1> QED BY <1>1, Invariant, PTL

\* Whatever a power loss leaves, a missing journal means that metadata and version
\* belong to one update.
THEOREM NoTornStateAlways == Spec => []NoTornState
<1>1. IInv => NoTornState
  BY DEF IInv
<1> QED BY <1>1, Invariant, PTL

\* Whatever a power loss leaves is the last acknowledged state, or one that was
\* being written since.
THEOREM CrashConsistentAlways == Spec => []CrashConsistent
<1>1. IInv => CrashConsistent
  BY DEF IInv
<1> QED BY <1>1, Invariant, PTL
-----------------------------------------------------------------------------
(* StateStore implements AtomicStore.                                      *)

\* What an update may write is a logical state.
LEMMA RequestType == TypeOK => Request \subseteq State
<1> SUFFICES ASSUME TypeOK, NEW r \in Runs PROVE Target(r) \subseteq State
  BY DEF Request
<1>1. txn[r] \in Serials /\ Absent \in Serials /\ Logical(dir) \in State
  BY StateStoreAssumption, LogicalType DEF TypeOK, Serials, Absent
<1>2. Logical(dir).generation \in Serials
  BY <1>1 DEF State
<1> QED BY <1>1, <1>2 DEF Target, State

\* The same after a step.
LEMMA RequestTypeNext == TypeOK' => (Request \subseteq State)'
BY RequestType, PTL

\* A step that changes neither the visible state nor what is acknowledged.
LEMMA AskStep ==
  ASSUME TypeOK', Logical(dir') = Logical(dir), UNCHANGED <<acked, attempts>>
  PROVE  Store!Ask
<1>1. Request' \subseteq State
  BY RequestTypeNext DEF State, Serials
<1>2. Logical(dir)' = Logical(dir)
  BY DEF Logical
<1> QED BY <1>1, <1>2 DEF Store!Ask

\* A publication that shows the state there was, or one the update asked for.
LEMMA PublishStep ==
  ASSUME TypeOK', NEW f \in Files, NEW c \in Serials, Publish(f, c),
         Logical(dir') \in Request \cup {Logical(dir)}
  PROVE  Store!Next
<1>1. Request' \subseteq State
  BY RequestTypeNext DEF State, Serials
<1>2. Logical(dir)' = Logical(dir')
  BY DEF Logical
<1>3. CASE Logical(dir') = Logical(dir)
  BY <1>3, AskStep DEF Publish, Store!Next
<1>4. CASE Logical(dir') # Logical(dir)
  <2>1. attempts' = attempts \cup {Logical(dir)'} /\ acked' = acked
    BY <1>2, <1>4 DEF Publish
  <2>2. Logical(dir)' \in Request
    BY <1>2, <1>4
  <2>3. Store!Update
    BY <1>1, <2>1, <2>2 DEF Store!Update
  <2> QED BY <2>3 DEF Store!Next
<1> QED BY <1>3, <1>4

\* Each publication of the code is of that kind: the journal and the queue written
\* alone change the visible state to the requested one, the three targets are
\* hidden by the journal, and removing it changes nothing.
LEMMA PublishRefines ==
  ASSUME IInv, TypeOK', NEW r \in Runs,
         \/ LinkJournal(r) \/ PutQueue(r) \/ PutMetadata(r) \/ PutVersion(r)
         \/ UnlinkJournal(r) \/ PutQueueAlone(r)
  PROVE  Store!Next
<1> USE DEF Unjournaled, Journaled, Durable, QueueDone, MetadataDone, VersionDone
<1>1. /\ TypeOK /\ StepInv(r) /\ dir \in [Files -> Serials]
      /\ txn[r] \in Serials /\ Absent \in Serials
  BY StateStoreAssumption DEF IInv, TypeOK, Serials, Absent
<1>2. Target(r) \subseteq Request
  BY DEF Request
<1>3. ASSUME NEW f \in Files, NEW c \in Serials, Publish(f, c)
      PROVE  \A g \in Files : dir'[g] = IF g = f THEN c ELSE dir[g]
  BY <1>1, <1>3 DEF Publish
<1>4. CASE LinkJournal(r)
  <2>1. pc[r] = "link" /\ Publish("journal", txn[r])
    BY <1>4 DEF LinkJournal
  <2>2. dir'["journal"] = txn[r] /\ txn[r] # Absent
    BY <1>1, <1>3, <2>1 DEF Files, StepInv
  <2>3. Logical(dir') = [queue |-> txn[r], generation |-> txn[r]]
    BY <2>2 DEF Logical
  <2>4. Logical(dir') \in Target(r)
    BY <2>1, <2>3 DEF Target
  <2> QED BY <1>1, <1>2, <2>1, <2>4, PublishStep DEF Files
<1>5. ASSUME NEW f \in Targets, Publish(f, txn[r]), dir["journal"] # Absent
      PROVE  Store!Next
  <2>1. dir'["journal"] = dir["journal"]
    BY <1>1, <1>3, <1>5 DEF Files, Targets
  <2>2. Logical(dir') = Logical(dir)
    BY <1>5, <2>1 DEF Logical
  <2> QED BY <1>1, <1>5, <2>2, PublishStep DEF Files, Targets
<1>6. CASE PutQueue(r) \/ PutMetadata(r) \/ PutVersion(r)
  <2>1. dir["journal"] # Absent
    BY <1>1, <1>6 DEF PutQueue, PutMetadata, PutVersion, StepInv
  <2>2. PICK f \in Targets : Publish(f, txn[r])
    BY <1>6 DEF PutQueue, PutMetadata, PutVersion, Put, Targets
  <2> QED BY <1>5, <2>1, <2>2
<1>7. CASE UnlinkJournal(r)
  <2>1. pc[r] = "unlink" /\ Publish("journal", Absent)
    BY <1>7 DEF UnlinkJournal
  <2>2. /\ dir["journal"] = txn[r] /\ txn[r] # Absent
        /\ dir["queue"] = txn[r] /\ dir["asset_metadata"] = txn[r]
    BY <1>1, <2>1 DEF StepInv
  <2>3. /\ dir'["journal"] = Absent /\ dir'["queue"] = txn[r]
        /\ dir'["asset_metadata"] = txn[r]
    BY <1>1, <1>3, <2>1, <2>2 DEF Files
  <2>4. Logical(dir') = Logical(dir)
    BY <2>2, <2>3 DEF Logical
  <2> QED BY <1>1, <2>1, <2>4, PublishStep DEF Files
<1>8. CASE PutQueueAlone(r)
  <2>1. pc[r] = "put_alone"
    BY <1>8 DEF PutQueueAlone
  <2>2. PICK c \in {txn[r], Absent} : Publish("queue", c)
    BY <1>8 DEF PutQueueAlone
  <2>3. dir["journal"] = Absent
    BY <1>1, <2>1 DEF StepInv
  <2>4. /\ dir'["journal"] = Absent /\ dir'["queue"] = c
        /\ dir'["asset_metadata"] = dir["asset_metadata"]
    BY <1>1, <1>3, <2>2, <2>3 DEF Files
  <2>5. Logical(dir') = [queue |-> c, generation |-> Logical(dir).generation]
    BY <2>3, <2>4 DEF Logical
  <2>6. Logical(dir') \in Target(r)
    BY <2>1, <2>5 DEF Target
  <2> QED BY <1>1, <1>2, <2>2, <2>6, PublishStep DEF Files
<1> QED BY <1>4, <1>6, <1>7, <1>8

\* Every step of StateStore is a step of AtomicStore or a stutter.
LEMMA StepRefines == IInv /\ TypeOK' /\ [Next]_vars => [Store!Next]_Store!avars
<1> SUFFICES ASSUME IInv, TypeOK', [Next]_vars PROVE Store!Next \/ UNCHANGED Store!avars
  OBVIOUS
<1>1. CASE UNCHANGED vars
  BY <1>1, AskStep DEF vars, history, Store!Next
<1>2. CASE PowerLoss
  <2>1. Logical(dir)' \in attempts \cup {acked} /\ UNCHANGED <<acked, attempts>>
    BY <1>2 DEF PowerLoss, IInv, CrashConsistent, history, Logical
  <2>2. Request' = {}
    BY <1>2 DEF PowerLoss, Request, Target
  <2> QED BY <2>1, <2>2 DEF Store!PowerLoss, Store!Next
<1>3. ASSUME NEW r \in Runs,
             \/ Acquire(r) \/ Release(r) \/ Stop(r) \/ Recover(r) \/ Begin(r) \/ Verify(r)
             \/ SyncJournal(r) \/ SyncQueue(r) \/ SyncMetadata(r) \/ SyncVersion(r)
      PROVE  Store!Next
  <2>1. UNCHANGED <<dir, acked, attempts>>
    BY <1>3 DEF Acquire, Release, Stop, Recover, Begin, Verify, SyncJournal, SyncQueue,
                SyncMetadata, SyncVersion, Sync, history
  <2> QED BY <2>1, AskStep DEF Store!Next
<1>4. ASSUME NEW r \in Runs, Return(r) PROVE Store!Next
  <2>1. acked' = Logical(dir) /\ attempts' = {} /\ Logical(dir)' = Logical(dir)
    BY <1>4 DEF Return, SyncAndReturn, Logical
  <2>2. Request' \subseteq State
    BY RequestTypeNext DEF State, Serials
  <2> QED BY <2>1, <2>2 DEF Store!Acknowledge, Store!Next
<1>5. ASSUME NEW r \in Runs,
             \/ LinkJournal(r) \/ PutQueue(r) \/ PutMetadata(r) \/ PutVersion(r)
             \/ UnlinkJournal(r) \/ PutQueueAlone(r)
      PROVE  Store!Next
  BY <1>5, PublishRefines
<1> QED BY <1>1, <1>2, <1>3, <1>4, <1>5 DEF Next, StoreStep

\* The three files under their journal behave as one value that changes atomically:
\* an acknowledged update survives, an interrupted one happens wholly or not at all.
THEOREM Atomicity == Spec => ImplementsAtomicStore
<1>1. Init => Store!Init
  <2> SUFFICES ASSUME Init PROVE Store!Init
    OBVIOUS
  <2>1. Request = {}
    BY DEF Init, Request, Target
  <2>2. Logical(dir) = [queue |-> Absent, generation |-> Absent]
    BY DEF Init, Logical, Files
  <2> QED BY <2>1, <2>2 DEF Init, Store!Init
<1>2. IInv => TypeOK
  BY DEF IInv
<1> QED BY <1>1, <1>2, Invariant, StepRefines, PTL DEF Spec, ImplementsAtomicStore, Store!Spec
=============================================================================
