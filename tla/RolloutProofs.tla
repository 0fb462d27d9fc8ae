---------------------------- MODULE RolloutProofs ----------------------------
(* Proofs about Rollout: a call that fails leaves the three files alone,    *)
(* readers are given committed generations, receipts tell the truth.        *)
EXTENDS Rollout, TLAPS

\* The records are their fields; what the fields hold does not matter here.
FilesShape(F) == F = [f \in Files |-> F[f]]

OpShape(o) == o = [kind |-> o.kind, id |-> o.id, index |-> o.index,
                   step |-> o.step, before |-> o.before]

Shaped ==
  /\ FilesShape(files) /\ OpShape(op)
  /\ op # Idle => FilesShape(op.before)

\* While a call runs, `outcome` says whether a restore has raised; the files a
\* flawless restore has passed are as they were.
Progressed ==
  op # Idle =>
    /\ outcome \in {"running", "restoring"}
    /\ op.step = "stage" => files = op.before
    /\ outcome = "running" /\ op.step \in {"restore state", "restore current"}
         => files.index = op.before.index
    /\ outcome = "running" /\ op.step = "restore current"
         => files.state = op.before.state

RInv == Shaped /\ Progressed

\* Three fields make the contents.
LEMMA SameFiles ==
  ASSUME NEW F, NEW G, FilesShape(F), FilesShape(G),
         F.index = G.index, F.state = G.state, F.current = G.current
  PROVE  F = G
  BY DEF FilesShape, Files

\* Writing one file changes that file only.
LEMMA OneFile ==
  ASSUME NEW F, FilesShape(F), NEW f \in Files, NEW v
  PROVE  /\ FilesShape([F EXCEPT ![f] = v])
         /\ [F EXCEPT ![f] = v][f] = v
         /\ \A g \in Files \ {f} : [F EXCEPT ![f] = v][g] = F[g]
  BY DEF FilesShape, Files

\* Moving a call to another step changes its step only.
LEMMA OneStep ==
  ASSUME NEW o, OpShape(o), NEW s
  PROVE  LET p == [o EXCEPT !.step = s]
         IN  /\ OpShape(p) /\ p.step = s /\ p.kind = o.kind
             /\ p.before = o.before /\ p.id = o.id /\ p.index = o.index
  BY DEF OpShape
-----------------------------------------------------------------------------
\* A call begins with the files it will restore.
LEMMA BeginKeeps ==
  ASSUME RInv, NEW k \in {"publish", "rollback", "disable"}, NEW i, NEW x,
         NEW s \in {"stage", "index", "state"}, Begin(k, i, x, s), op = Idle
  PROVE  RInv'
  BY DEF RInv, Shaped, Progressed, Begin, Snapshot, OpShape, FilesShape, Idle

\* A call that ends leaves no operation.
LEMMA FinishKeeps ==
  ASSUME NEW r, NEW a, Finish(r, a), FilesShape(files')
  PROVE  RInv'
  BY DEF Finish, RInv, Shaped, Progressed, OpShape, Idle

\* A write that returns, the last one included.
LEMMA WriteKeeps == RInv /\ Write => RInv'
<1> SUFFICES ASSUME RInv, Write PROVE RInv'
  OBVIOUS
<1>1. FilesShape(files')
  BY OneFile DEF Write, RInv, Shaped
<1>2. CASE NextFile(op.kind, op.step) = "none"
  BY <1>1, <1>2, FinishKeeps DEF Write
<1>3. CASE NextFile(op.kind, op.step) # "none"
  <2>1. /\ op' = [op EXCEPT !.step = NextFile(op.kind, op.step)]
        /\ outcome' = outcome
    BY <1>3 DEF Write
  <2>2. /\ OpShape(op') /\ op'.before = op.before
        /\ op'.step = NextFile(op.kind, op.step)
    BY <2>1, OneStep DEF RInv, Shaped
  <2>3. op # Idle
    BY DEF Write, Idle, Files
  <2>4. op'.step \in Files
    BY <1>3, <2>2 DEF NextFile, Write, Files
  <2> QED BY <1>1, <2>1, <2>2, <2>3, <2>4 DEF RInv, Shaped, Progressed, Files
<1> QED BY <1>2, <1>3

\* A write that raises leads to the first restore.
LEMMA WriteFailsKeeps ==
  ASSUME RInv, NEW done \in BOOLEAN, WriteFails(done)
  PROVE  RInv'
<1>1. FilesShape(files')
  BY OneFile DEF WriteFails, RInv, Shaped
<1>2. /\ OpShape(op') /\ op'.before = op.before /\ op'.step = "restore index"
      /\ outcome' = outcome
  <2>1. op' = [op EXCEPT !.step = "restore index"] /\ outcome' = outcome
    BY DEF WriteFails, Restoring
  <2> QED BY <2>1, OneStep DEF RInv, Shaped
<1>3. op # Idle
  BY DEF WriteFails, Idle, Files
<1> QED BY <1>1, <1>2, <1>3 DEF RInv, Shaped, Progressed

\* One restore: the files it and those before it put back are as they were,
\* unless one has raised.
LEMMA RestoreKeeps ==
  ASSUME RInv, NEW f \in Files, NEW done \in BOOLEAN, NEW raised \in BOOLEAN,
         Restore(f, done, raised)
  PROVE  RInv' /\ (outcome' = "failed" => files' = op.before)
<1> DEFINE incomplete == raised \/ outcome = "restoring"
           last == AfterRestore(f) = "none" \/ (raised /\ op.kind = "disable")
<1>1. op # Idle /\ outcome \in {"running", "restoring"}
  <2>1. op.step \in {"restore index", "restore state", "restore current"}
    BY DEF Restore, Restoring, Files
  <2>2. Idle.step = "none"
    BY DEF Idle
  <2>3. op # Idle
    BY <2>1, <2>2
  <2> QED BY <2>3 DEF RInv, Progressed
<1>2. /\ FilesShape(files')
      /\ ~incomplete => files'[f] = op.before[f]
      /\ \A g \in Files \ {f} : files'[g] = files[g]
  BY <1>1, OneFile DEF Restore, RInv, Shaped
<1>3. /\ ~incomplete /\ f \in {"state", "current"} => files'["index"] = op.before["index"]
      /\ ~incomplete /\ f = "current" => files'["state"] = op.before["state"]
  BY <1>1, <1>2 DEF Restore, RInv, Progressed, Restoring, Files
<1>4. CASE last
  <2>1. Finish(IF incomplete THEN "incomplete" ELSE "failed",
               IF incomplete THEN acceptable ELSE {op.before.current})
    BY <1>4 DEF Restore
  <2>2. RInv'
    BY <1>2, <2>1, FinishKeeps
  <2>3. outcome' = "failed" => ~incomplete /\ f = "current"
    BY <1>4, <2>1 DEF Finish, AfterRestore, Files
  <2>4. FilesShape(op.before)
    BY <1>1 DEF RInv, Shaped
  <2> QED BY <1>2, <1>3, <2>2, <2>3, <2>4, SameFiles
<1>5. CASE ~last
  <2>1. /\ op' = [op EXCEPT !.step = Restoring(AfterRestore(f))]
        /\ outcome' = IF incomplete THEN "restoring" ELSE outcome
    BY <1>5 DEF Restore
  <2>2. /\ OpShape(op') /\ op'.before = op.before
        /\ op'.step = Restoring(AfterRestore(f))
    BY <2>1, OneStep DEF RInv, Shaped
  <2>3. \/ f = "index" /\ op'.step = "restore state"
        \/ f = "state" /\ op'.step = "restore current"
    BY <1>5, <2>2 DEF AfterRestore, Restoring, Files
  <2> QED BY <1>1, <1>2, <1>3, <2>1, <2>2, <2>3 DEF RInv, Shaped, Progressed
<1> QED BY <1>4, <1>5

\* Staging a candidate writes none of the three files.
LEMMA StageKeeps ==
  ASSUME RInv,
         StageExisting \/ \E renamed, synced \in BOOLEAN : StageNew(renamed, synced)
  PROVE  RInv' /\ (outcome' = "failed" => files' = op.before)
<1>1. op # Idle /\ files' = files /\ op.step = "stage"
  BY DEF StageExisting, StageNew, Idle
<1>2. files = op.before /\ outcome \in {"running", "restoring"} /\ FilesShape(files)
  BY <1>1 DEF RInv, Shaped, Progressed
<1>3. \/ \E r, a : Finish(r, a)
      \/ op' = [op EXCEPT !.step = "index"] /\ outcome' = outcome
  BY DEF StageExisting, StageNew
<1>4. CASE \E r, a : Finish(r, a)
  BY <1>1, <1>2, <1>4, FinishKeeps
<1>5. CASE op' = [op EXCEPT !.step = "index"] /\ outcome' = outcome
  <2>1. OpShape(op') /\ op'.before = op.before /\ op'.step = "index"
    BY <1>5, OneStep DEF RInv, Shaped
  <2> QED BY <1>1, <1>2, <1>5, <2>1 DEF RInv, Shaped, Progressed
<1> QED BY <1>3, <1>4, <1>5

\* Steps that begin a call, or leave the operation out.
LEMMA IdleKeeps ==
  ASSUME RInv, op = Idle, Next
  PROVE  RInv'
<1>1. CASE Call
  <2>1. ASSUME NEW r, Return(r) PROVE RInv'
    BY <2>1 DEF Return, RInv, Shaped, Progressed
  <2>2. ASSUME NEW i \in Ids, NEW x \in Indexes, PublishCandidate(i, x) PROVE RInv'
    BY <2>1, <2>2, BeginKeeps DEF PublishCandidate
  <2>3. ASSUME NEW i \in Ids, Rollback(i) PROVE RInv'
    BY <2>1, <2>3, BeginKeeps DEF Rollback
  <2>4. CASE Disable
    BY <2>4, BeginKeeps DEF Disable
  <2> QED BY <1>1, <2>2, <2>3, <2>4 DEF Call
<1>2. CASE Step
  BY <1>2 DEF Step, StageExisting, StageNew, Write, WriteFails, Restore, Restoring,
              Files, Idle
<1>3. CASE Receipts
  <2>1. op' = op /\ (files' = files \/ \E v : files' = [files EXCEPT !["state"] = v])
    BY <1>3 DEF Receipts, Upload, Record
  <2>2. FilesShape(files')
    BY <2>1, OneFile DEF RInv, Shaped, Files
  <2> QED BY <2>1, <2>2 DEF RInv, Shaped, Progressed
<1>4. CASE Crash
  BY <1>4 DEF Crash, RInv, Shaped, Progressed
<1>5. CASE \E i \in Ids : Damage(i)
  BY <1>5 DEF Damage, RInv, Shaped, Progressed
<1> QED BY <1>1, <1>2, <1>3, <1>4, <1>5 DEF Next

\* Every step keeps the invariant, and a failed call restores the files.
LEMMA RolloutStep ==
  ASSUME RInv, [Next]_vars
  PROVE  RInv' /\ (op # Idle /\ outcome' = "failed" => files' = op.before)
<1>1. CASE UNCHANGED vars
  BY <1>1 DEF vars, RInv, Shaped, Progressed
<1>2. CASE Next /\ op = Idle
  BY <1>2, IdleKeeps
<1>3. CASE Next /\ op # Idle
  <2>1. CASE Step
    <3>1. CASE Write
      <4>1. outcome' # "failed"
        BY <1>3, <3>1 DEF Write, Finish, RInv, Progressed
      <4> QED BY <3>1, <4>1, WriteKeeps
    <3>2. CASE \E done \in BOOLEAN : WriteFails(done)
      <4>1. outcome' # "failed"
        BY <1>3, <3>2 DEF WriteFails, RInv, Progressed
      <4> QED BY <3>2, <4>1, WriteFailsKeeps
    <3> QED BY <2>1, <3>1, <3>2, StageKeeps, RestoreKeeps DEF Step
  <2>2. CASE Crash
    BY <2>2 DEF Crash, RInv, Shaped, Progressed, OpShape, Idle
  <2> QED BY <1>3, <2>1, <2>2 DEF Next, Call, PublishCandidate, Rollback, Disable,
                                  Receipts, Upload, Record, Damage
<1> QED BY <1>1, <1>2, <1>3

\* No call runs at first.
LEMMA RolloutInit == Init => RInv
  BY DEF Init, RInv, Shaped, Progressed, FilesShape, OpShape, Idle, Files

\* publish_candidate, rollback_live2d_associated and disable_live2d_associated:
\* a call that raises without an incomplete rollback leaves index.json,
\* current.json and the rollout state as it found them, whatever the
\* candidates, the storages and the number of earlier failures.
THEOREM CallsRestore == Spec => FailureRestores
<1>1. Spec => []RInv
  BY RolloutInit, RolloutStep, PTL DEF Spec
<1>2. RInv /\ [Next]_vars =>
        [op # Idle /\ outcome' = "failed" => files' = op.before]_vars
  BY RolloutStep
<1> QED BY <1>1, <1>2, PTL DEF Spec, FailureRestores
-----------------------------------------------------------------------------
(* Types, and what the calls have been given.                              *)

Kinds == {"publish", "rollback", "disable"}
RestoreSteps == {"restore index", "restore state", "restore current"}
Steps == {"stage"} \cup Files \cup RestoreSteps

\* What a call was given, and where it is.
OpTyped(o) ==
  /\ o.kind \in Kinds /\ o.step \in Steps /\ o.before \in Contents
  /\ o.id \in Ids \cup {None} /\ o.index \in Indexes \cup {None}
  /\ o.kind = "disable" => o.id = None
  /\ o.step = "stage" => o.id \in Ids /\ o.index \in Publishable

Typed == TypeOK /\ torn \in BOOLEAN /\ (op # Idle => OpTyped(op))

\* A generation that current.json names, or that the call in progress may still
\* write into it, is acceptable; only publishable candidates are staged.
Committed ==
  /\ files.current \in acceptable
  /\ op # Idle => /\ op.before.current \in acceptable
                  /\ op.step # "stage" => op.id \in acceptable
  /\ \A i \in Ids : candidate[i] \in Publishable \cup {None}

\* The receipts of a state are those of uploads of the candidate it names.
Truthful(state) == state # None => \A s \in state.receipts : uploaded[s] = state.current

\* A state with receipts names the candidate current.json names.
Matching(F) == F.state # None /\ F.state.receipts # {} => F.state.current = F.current

\* Receipts: true while no rollback of the files was left incomplete, and so are
\* those a restore would bring back; a new generation has none, and has none
\* before current.json is written.
ReceiptsKept ==
  /\ receipt # None => \A s \in receipt.storages : uploaded[s] = receipt.id
  /\ ~torn => Truthful(files.state)
  /\ ~torn /\ op.step \notin RestoreSteps => Matching(files)
  /\ op # Idle =>
       /\ ~torn => Truthful(op.before.state) /\ Matching(op.before)
       /\ files.state # None /\ files.state.receipts # {} => files.state = op.before.state
       /\ op.step \in Files \cup {"stage"} => files.current = op.before.current
       /\ op.step = "current" \/ (op.kind = "disable" /\ op.step = "index")
            => files.state = None \/ files.state.receipts = {}

WInv == Typed /\ Committed /\ ReceiptsKept


\* The contents of the files, field by field.
FieldsTyped(F) ==
  /\ F.index \in Indexes \cup {None} /\ F.current \in Ids \cup {None}
  /\ F.state \in States \cup {None}

\* Contents is its fields, in either direction.
LEMMA ContentsFields ==
  /\ \A F : FilesShape(F) /\ FieldsTyped(F) => F \in Contents
  /\ \A F \in Contents : FilesShape(F) /\ FieldsTyped(F)
BY DEF FilesShape, FieldsTyped, Contents, Files

\* A state has its fields; without a current pointer it has no receipts.
LEMMA StateFields ==
  /\ \A st \in States : /\ st.enabled \in BOOLEAN /\ st.current \in Ids \cup {None}
                        /\ st.receipts \subseteq Storages
                        /\ st.current = None => st.receipts = {}
  /\ \A e \in BOOLEAN, c \in Ids \cup {None}, r \in SUBSET Storages :
       (~e => c = None) /\ (c = None => r = {})
         => [enabled |-> e, current |-> c, receipts |-> r] \in States
BY DEF States

\* One field of the contents changes.
LEMMA OneContent ==
  ASSUME NEW F \in Contents, NEW f \in Files, NEW v,
         f = "index" => v \in Indexes \cup {None},
         f = "current" => v \in Ids \cup {None}, f = "state" => v \in States \cup {None}
  PROVE  [F EXCEPT ![f] = v] \in Contents
<1>1. /\ FilesShape(F) /\ FieldsTyped(F)
      /\ FilesShape([F EXCEPT ![f] = v])
      /\ [F EXCEPT ![f] = v][f] = v
      /\ \A g \in Files \ {f} : [F EXCEPT ![f] = v][g] = F[g]
  BY ContentsFields, OneFile
<1> DEFINE G == [F EXCEPT ![f] = v]
<1>2. FieldsTyped(G)
  <2> HIDE DEF G
  <2>1. G[f] = v /\ \A g \in Files \ {f} : G[g] = F[g]
    BY <1>1 DEF G
  <2>2. /\ G["index"] \in Indexes \cup {None} /\ G["current"] \in Ids \cup {None}
        /\ G["state"] \in States \cup {None}
    BY <1>1, <2>1 DEF FieldsTyped, Files
  <2> QED BY <2>2 DEF FieldsTyped
<1> QED BY <1>1, <1>2, ContentsFields

\* What a call writes into a file fits it, and a new state has no receipts.
LEMMA NewContentFits ==
  ASSUME Typed, op # Idle, op.step \in Files
  PROVE  /\ [files EXCEPT ![op.step] = NewContent(op.step)] \in Contents
         /\ NewState.receipts = {}
<1>1. /\ op.kind \in Kinds /\ op.id \in Ids \cup {None} /\ op.index \in Indexes \cup {None}
      /\ op.kind = "disable" => op.id = None
      /\ files \in Contents
  BY DEF Typed, TypeOK, OpTyped
<1>2. NewState \in States /\ NewState.receipts = {}
  BY <1>1, StateFields DEF NewState
<1> QED BY <1>1, <1>2, OneContent DEF NewContent, Files

\* A step that only begins, moves or ends a call keeps the types.
LEMMA TypedAgain ==
  ASSUME Typed, files' \in Contents, candidate' \in [Ids -> Indexes \cup {None}],
         intact' \subseteq {i \in Ids : candidate'[i] # None},
         uploaded' = uploaded, receipt' \in {receipt, None},
         op' = Idle \/ OpTyped(op'),
         outcome' \in {"none", "running", "restoring", "ok", "failed", "incomplete", "unsynced"},
         acceptable' \subseteq Ids \cup {None}, torn' \in BOOLEAN
  PROVE  Typed'
<1>1. op'.kind \in {"idle"} \cup Kinds /\ op'.before \in Contents \cup {None}
  BY DEF Idle, OpTyped
<1> QED BY <1>1 DEF Typed, TypeOK, OpTyped, Kinds
-----------------------------------------------------------------------------
(* The steps.                                                              *)

\* A call begins: it may make its candidate current.
LEMMA BeginTrue ==
  ASSUME RInv, WInv, op = Idle, NEW k \in Kinds, NEW i \in Ids \cup {None},
         NEW x \in Indexes \cup {None}, NEW s \in {"stage", "index", "state"},
         Begin(k, i, x, s), acceptable \subseteq acceptable', acceptable' \subseteq Ids \cup {None},
         s # "stage" => i \in acceptable', s = "stage" => i \in Ids /\ x \in Publishable,
         k = "disable" => i = None /\ s = "state", k # "disable" => s # "state"
  PROVE  WInv'
<1>1. /\ op' = [kind |-> k, id |-> i, index |-> x, step |-> s, before |-> files]
      /\ outcome' = "running" /\ candidate' = candidate /\ intact' = intact
      /\ files' = files /\ uploaded' = uploaded /\ receipt' = receipt /\ torn' = torn
  BY DEF Begin, Snapshot
<1>2. /\ op'.kind = k /\ op'.id = i /\ op'.index = x /\ op'.step = s /\ op'.before = files
      /\ files \in Contents /\ files.current \in acceptable
      /\ op.step = "none" /\ s \in Steps \ RestoreSteps
  BY <1>1 DEF WInv, Typed, TypeOK, Committed, Idle, Steps, RestoreSteps, Files
<1>3. Typed'
  <2>1. OpTyped(op')
    BY <1>2 DEF OpTyped
  <2> QED BY <1>1, <1>2, <2>1, TypedAgain DEF WInv, Typed, TypeOK
<1>4. Committed'
  BY <1>1, <1>2 DEF WInv, Committed
<1>5. ReceiptsKept'
  BY <1>1, <1>2 DEF WInv, ReceiptsKept, Truthful, Matching, RestoreSteps
<1> QED BY <1>3, <1>4, <1>5 DEF WInv

\* A step outside the calls, or one that returns at once.
LEMMA QuietTrue ==
  ASSUME WInv, op' = op, files' = files, candidate' = candidate, intact' \subseteq intact,
         uploaded' = uploaded, receipt' = receipt, acceptable' = acceptable, torn' = torn,
         outcome' \in {"none", "running", "restoring", "ok", "failed", "incomplete", "unsynced"}
  PROVE  WInv'
<1>1. Typed'
  BY DEF WInv, Typed, TypeOK
<1>2. Committed'
  BY DEF WInv, Committed
<1>3. ReceiptsKept'
  BY DEF WInv, ReceiptsKept, Truthful, Matching
<1> QED BY <1>1, <1>2, <1>3 DEF WInv

\* The candidate is staged: the call goes on to the index, or ends with the
\* files as they were.
LEMMA StageTrue ==
  ASSUME RInv, WInv,
         StageExisting \/ \E renamed, synced \in BOOLEAN : StageNew(renamed, synced)
  PROVE  WInv'
<1>1. /\ op # Idle /\ op.step = "stage" /\ files' = files /\ uploaded' = uploaded
      /\ receipt' = receipt
  BY DEF StageExisting, StageNew, Idle
<1>2. OpTyped(op) /\ op.id \in Ids /\ op.index \in Publishable /\ op.index # None
      /\ candidate \in [Ids -> Indexes \cup {None}]
  BY <1>1, RolloutAssumption DEF WInv, Typed, TypeOK, OpTyped
<1>3. /\ \/ candidate' = candidate /\ intact' = intact
         \/ /\ candidate' = [candidate EXCEPT ![op.id] = op.index]
            /\ intact' = intact \cup {op.id}
  BY DEF StageExisting, StageNew
<1>4. \/ \E r \in {"ok", "failed"} : Finish(r, acceptable)
      \/ /\ op' = [op EXCEPT !.step = "index"] /\ acceptable' = acceptable \cup {op.id}
         /\ outcome' = outcome /\ torn' = torn
  BY DEF StageExisting, StageNew
<1>5. /\ candidate' \in [Ids -> Indexes \cup {None}]
      /\ intact' \subseteq {i \in Ids : candidate'[i] # None}
      /\ \A i \in Ids : candidate'[i] \in Publishable \cup {None}
  BY <1>2, <1>3, RolloutAssumption DEF WInv, Typed, TypeOK, Committed
<1>6. CASE \E r \in {"ok", "failed"} : Finish(r, acceptable)
  <2>1. op' = Idle /\ outcome' \in {"ok", "failed"} /\ acceptable' = acceptable /\ torn' = torn
    BY <1>1, <1>6 DEF Finish, WInv, Typed, Files
  <2>2. Typed'
    BY <1>1, <1>5, <2>1, TypedAgain DEF WInv, Typed, TypeOK
  <2>3. Committed'
    BY <1>1, <1>5, <2>1 DEF WInv, Committed
  <2>4. ReceiptsKept'
    BY <1>1, <2>1 DEF WInv, ReceiptsKept, Truthful, Matching, RestoreSteps, Idle
  <2> QED BY <2>2, <2>3, <2>4 DEF WInv
<1>7. CASE /\ op' = [op EXCEPT !.step = "index"] /\ acceptable' = acceptable \cup {op.id}
           /\ outcome' = outcome /\ torn' = torn
  <2>1. /\ OpShape(op') /\ op'.step = "index" /\ op'.kind = op.kind
        /\ op'.before = op.before /\ op'.id = op.id /\ op'.index = op.index
    BY <1>7, OneStep DEF RInv, Shaped
  <2>2. OpTyped(op')
    BY <1>2, <2>1 DEF OpTyped, Steps, Files
  <2>3. Typed'
    BY <1>1, <1>2, <1>5, <1>7, <2>2, TypedAgain DEF WInv, Typed, TypeOK
  <2>4. Committed'
    BY <1>1, <1>5, <1>7, <2>1 DEF WInv, Committed
  <2>5. ReceiptsKept'
    <3>1. op.kind # "disable"
      BY <1>2, RolloutAssumption DEF OpTyped
    <3> QED BY <1>1, <1>7, <2>1, <3>1
            DEF WInv, ReceiptsKept, Truthful, Matching, RestoreSteps, Files
  <2> QED BY <2>3, <2>4, <2>5 DEF WInv
<1> QED BY <1>4, <1>6, <1>7

\* Which file a step writes, seen from the file.
LEMMA WrittenFiles ==
  ASSUME RInv, WInv, op # Idle, op.step \in Files,
         files' = [files EXCEPT ![op.step] = NewContent(op.step)]
  PROVE  /\ files' \in Contents
         /\ files'.current = IF op.step = "current" THEN op.id ELSE files.current
         /\ files'.state = IF op.step = "state" THEN NewState ELSE files.state
         /\ NewState.receipts = {}
<1>1. /\ files'[op.step] = NewContent(op.step)
      /\ \A g \in Files \ {op.step} : files'[g] = files[g]
  BY OneFile DEF RInv, Shaped
<1>2. /\ files'["current"] = IF op.step = "current" THEN op.id ELSE files["current"]
      /\ files'["state"] = IF op.step = "state" THEN NewState ELSE files["state"]
  BY <1>1 DEF NewContent, Files
<1> QED BY <1>2, NewContentFits DEF WInv

\* A write: the state before current.json, and current.json last.
LEMMA WriteTrue ==
  ASSUME RInv, WInv, Write PROVE WInv'
<1>1. /\ op # Idle /\ op.step \in Files /\ OpTyped(op)
      /\ candidate' = candidate /\ intact' = intact /\ uploaded' = uploaded /\ receipt' = receipt
  BY DEF Write, Idle, Files, WInv, Typed
<1>2. /\ files' \in Contents
      /\ files'.current = IF op.step = "current" THEN op.id ELSE files.current
      /\ files'.state = IF op.step = "state" THEN NewState ELSE files.state
      /\ NewState.receipts = {}
  BY <1>1, WrittenFiles DEF Write
<1>3. CASE op.step = "current"
  <2>1. op' = Idle /\ outcome' = "ok" /\ acceptable' = {op.id} /\ torn' = FALSE
    BY <1>1, <1>3 DEF Write, NextFile, Finish
  <2>2. Typed'
    BY <1>1, <1>2, <2>1, TypedAgain DEF WInv, Typed, TypeOK, OpTyped
  <2>3. Committed'
    BY <1>1, <1>2, <1>3, <2>1 DEF WInv, Committed
  <2>4. files'.state = None \/ files'.state.receipts = {}
    BY <1>1, <1>2, <1>3 DEF WInv, ReceiptsKept
  <2>5. ReceiptsKept'
    BY <1>1, <2>1, <2>4 DEF WInv, ReceiptsKept, Truthful, Matching
  <2> QED BY <2>2, <2>3, <2>5 DEF WInv
<1>4. CASE op.step # "current"
  <2>1. /\ op' = [op EXCEPT !.step = NextFile(op.kind, op.step)]
        /\ outcome' = outcome /\ acceptable' = acceptable /\ torn' = torn
        /\ NextFile(op.kind, op.step) \in Files
    BY <1>1, <1>4 DEF Write, NextFile, Files, history
  <2>2. /\ op'.step = NextFile(op.kind, op.step) /\ op'.kind = op.kind
        /\ op'.before = op.before /\ op'.id = op.id /\ op'.index = op.index
    BY <2>1, OneStep DEF RInv, Shaped
  <2>3. Typed'
    <3>1. OpTyped(op')
      BY <1>1, <2>1, <2>2 DEF OpTyped, Steps, Files
    <3> QED BY <1>1, <1>2, <2>1, <3>1, TypedAgain DEF WInv, Typed, TypeOK
  <2>4. Committed'
    BY <1>1, <1>2, <1>4, <2>1, <2>2 DEF WInv, Committed, Files
  <2>5. /\ op'.step = "current" \/ (op'.kind = "disable" /\ op'.step = "index")
             => op.step = "state" \/ (op.kind = "disable" /\ op.step = "index")
    BY <1>1, <1>4, <2>2 DEF NextFile, Files
  <2>6. ReceiptsKept'
    BY <1>1, <1>2, <1>4, <2>1, <2>2, <2>5
       DEF WInv, ReceiptsKept, Truthful, Matching, RestoreSteps, Files
  <2> QED BY <2>3, <2>4, <2>6 DEF WInv
<1> QED BY <1>3, <1>4

\* A write that raises: what it may have written is taken into account.
LEMMA WriteFailsTrue ==
  ASSUME RInv, WInv, NEW done \in BOOLEAN, WriteFails(done) PROVE WInv'
<1>1. /\ op # Idle /\ op.step \in Files /\ OpTyped(op)
      /\ candidate' = candidate /\ intact' = intact /\ uploaded' = uploaded /\ receipt' = receipt
      /\ outcome' = outcome /\ acceptable' = acceptable /\ torn' = torn
      /\ op' = [op EXCEPT !.step = "restore index"]
  <2>1. op.step \in Files /\ op # Idle
    BY DEF WriteFails, Idle, Files
  <2>2. op' = [op EXCEPT !.step = "restore index"]
    BY DEF WriteFails, Restoring
  <2> QED BY <2>1, <2>2 DEF WriteFails, WInv, Typed, history
<1>2. /\ files' \in Contents
      /\ files'.current \in {op.id, files.current}
      /\ files'.state \in {NewState, files.state}
      /\ NewState.receipts = {}
  <2>1. CASE done
    BY <1>1, <2>1, WrittenFiles DEF WriteFails
  <2>2. CASE ~done
    BY <1>1, <2>2, NewContentFits DEF WriteFails, WInv, Typed, TypeOK
  <2> QED BY <2>1, <2>2
<1>3. /\ op'.step = "restore index" /\ op'.kind = op.kind
      /\ op'.before = op.before /\ op'.id = op.id /\ op'.index = op.index
  BY <1>1, OneStep DEF RInv, Shaped
<1>4. Typed'
  <2>1. OpTyped(op')
    BY <1>1, <1>3 DEF OpTyped, Steps, RestoreSteps
  <2> QED BY <1>1, <1>2, <2>1, TypedAgain DEF WInv, Typed, TypeOK
<1>5. Committed'
  <2>1. op.step # "stage" /\ {op.id, files.current, op.before.current} \subseteq acceptable
    BY <1>1 DEF WInv, Committed, Files
  <2>2. files'.current \in acceptable
    BY <1>2, <2>1
  <2>3. candidate' = candidate /\ acceptable' = acceptable
    BY <1>1
  <2> QED BY <1>3, <2>1, <2>2, <2>3 DEF WInv, Committed
<1>6. ReceiptsKept'
  BY <1>1, <1>2, <1>3 DEF WInv, ReceiptsKept, Truthful, Matching, RestoreSteps, Files
<1> QED BY <1>4, <1>5, <1>6 DEF WInv

\* One restore: current.json goes back last, and a restore that is cut short
\* leaves the mark `torn`.
LEMMA RestoreTrue ==
  ASSUME RInv, WInv, NEW f \in Files, NEW done \in BOOLEAN, NEW raised \in BOOLEAN,
         Restore(f, done, raised)
  PROVE  WInv'
<1> DEFINE incomplete == raised \/ outcome = "restoring"
           last == AfterRestore(f) = "none" \/ (raised /\ op.kind = "disable")
<1>1. /\ op.step = Restoring(f) /\ op.step \in RestoreSteps /\ op # Idle
      /\ candidate' = candidate /\ intact' = intact /\ uploaded' = uploaded /\ receipt' = receipt
      /\ done \/ raised
  <2>1. op.step = Restoring(f) /\ op.step \in RestoreSteps
    BY DEF Restore, Restoring, Files, RestoreSteps
  <2>2. Idle.step \notin RestoreSteps
    BY DEF Idle, RestoreSteps
  <2> QED BY <2>1, <2>2 DEF Restore
<1>2. /\ OpTyped(op) /\ files \in Contents /\ op.before \in Contents
  BY <1>1 DEF WInv, Typed, TypeOK, OpTyped
<1>3. /\ files' \in Contents
      /\ files'.current \in {files.current, op.before.current}
      /\ files'.state \in {files.state, op.before.state}
  <2>1. CASE done
    <3>1. files' = [files EXCEPT ![f] = op.before[f]]
      BY <2>1 DEF Restore
    <3>2. FieldsTyped(op.before) /\ FilesShape(files)
      BY <1>2, ContentsFields
    <3>3. files'[f] = op.before[f] /\ \A g \in Files \ {f} : files'[g] = files[g]
      BY <3>1, <3>2, OneFile
    <3>4. files' \in Contents
      BY <1>2, <3>1, <3>2, OneContent DEF FieldsTyped, Files
    <3>5. /\ files'["current"] \in {files["current"], op.before["current"]}
          /\ files'["state"] \in {files["state"], op.before["state"]}
      BY <3>3 DEF Files
    <3> QED BY <3>4, <3>5
  <2>2. CASE ~done
    BY <1>2, <2>2 DEF Restore
  <2> QED BY <2>1, <2>2
<1>4. {op.before.current, files'.current} \subseteq acceptable
  BY <1>1, <1>3 DEF WInv, Committed
<1>5. ~torn => Truthful(files'.state) /\ Truthful(op.before.state) /\ Matching(op.before)
  BY <1>1, <1>3 DEF WInv, ReceiptsKept
<1>6. files'.state # None /\ files'.state.receipts # {} => files'.state = op.before.state
  BY <1>1, <1>3 DEF WInv, ReceiptsKept
<1>7. CASE last
  <2>1. Finish(IF incomplete THEN "incomplete" ELSE "failed",
               IF incomplete THEN acceptable ELSE {op.before.current})
    BY <1>7 DEF Restore
  <2>2. /\ op' = Idle
        /\ outcome' = (IF incomplete THEN "incomplete" ELSE "failed")
        /\ acceptable' = (IF incomplete THEN acceptable ELSE {op.before.current})
        /\ torn' = (incomplete \/ torn)
    BY <2>1 DEF Finish, WInv, Typed
  <2>3. ~incomplete => files' = op.before
    <3>1. ~incomplete => outcome' = "failed"
      BY <2>2
    <3> QED BY <3>1, RestoreKeeps
  <2> HIDE DEF incomplete
  <2>4. Typed'
    <3>1. acceptable' \subseteq Ids \cup {None}
      BY <1>4, <2>2 DEF WInv, Typed, TypeOK
    <3> QED BY <1>1, <1>3, <2>2, <3>1, TypedAgain DEF WInv, Typed, TypeOK
  <2>5. Committed'
    <3>1. files'.current \in acceptable'
      BY <1>4, <2>2, <2>3
    <3> QED BY <1>1, <2>2, <3>1 DEF WInv, Committed
  <2>6. ReceiptsKept'
    <3>1. ~torn' => Truthful(files'.state) /\ Matching(files')
      BY <1>5, <2>2, <2>3
    <3>2. receipt # None => \A s \in receipt.storages : uploaded[s] = receipt.id
      BY DEF WInv, ReceiptsKept
    <3> QED BY <1>1, <2>2, <3>1, <3>2 DEF ReceiptsKept, Truthful, Matching
  <2> QED BY <2>4, <2>5, <2>6 DEF WInv
<1>8. CASE ~last
  <2>1. /\ op' = [op EXCEPT !.step = Restoring(AfterRestore(f))]
        /\ outcome' \in {"restoring", outcome} /\ acceptable' = acceptable /\ torn' = torn
    BY <1>8 DEF Restore, history
  <2>2. Restoring(AfterRestore(f)) \in RestoreSteps
    BY <1>8 DEF AfterRestore, Restoring, Files, RestoreSteps
  <2>3. /\ op'.step \in RestoreSteps /\ op'.kind = op.kind
        /\ op'.before = op.before /\ op'.id = op.id /\ op'.index = op.index
    BY <2>1, <2>2, OneStep DEF RInv, Shaped
  <2>4. op'.step \notin Files \cup {"stage"}
    BY <2>3 DEF RestoreSteps, Files
  <2>5. Typed'
    <3>1. OpTyped(op')
      BY <1>2, <2>3, <2>4 DEF OpTyped, Steps
    <3> QED BY <1>1, <1>3, <2>1, <3>1, TypedAgain DEF WInv, Typed, TypeOK
  <2>6. Committed'
    <3>1. op.step # "stage" /\ op.id \in acceptable
      BY <1>1 DEF WInv, Committed, RestoreSteps
    <3> QED BY <1>1, <1>4, <2>1, <2>3, <3>1 DEF WInv, Committed
  <2>7. ReceiptsKept'
    BY <1>1, <1>5, <1>6, <2>1, <2>3, <2>4
       DEF WInv, ReceiptsKept, Truthful, Matching, Files
  <2> QED BY <2>5, <2>6, <2>7 DEF WInv
<1> QED BY <1>7, <1>8

\* An upload, with the receipt its caller has still to record.
LEMMA UploadTrue ==
  ASSUME RInv, WInv, NEW stores \in (SUBSET Storages) \ {{}}, Upload(stores) PROVE WInv'
<1>1. /\ op = Idle /\ files.current # None /\ files.current \in Ids /\ op.step = "none"
      /\ files' = files /\ candidate' = candidate /\ intact' = intact /\ op' = op
      /\ outcome' = "none" /\ acceptable' = acceptable /\ torn' = torn
      /\ uploaded' = [s \in Storages |-> IF s \in stores THEN files.current ELSE uploaded[s]]
      /\ receipt' = [id |-> files.current, storages |-> stores]
  BY ContentsFields DEF Upload, history, Idle, WInv, Typed, TypeOK, FieldsTyped
<1>2. Typed'
  <2>1. receipt' \in [id : Ids, storages : SUBSET Storages]
    BY <1>1
  <2>2. uploaded' \in [Storages -> Ids \cup {None}]
    BY <1>1 DEF WInv, Typed, TypeOK
  <2> QED BY <1>1, <2>1, <2>2 DEF WInv, Typed, TypeOK
<1>3. Committed'
  BY <1>1 DEF WInv, Committed
<1>4. ReceiptsKept'
  <2>1. receipt'.id = files.current /\ receipt'.storages = stores
    BY <1>1
  <2>2. \A s \in stores : uploaded'[s] = files.current
    BY <1>1
  <2>3. ASSUME ~torn, files.state # None, NEW s \in files.state.receipts
        PROVE  uploaded'[s] = files.state.current
    <3>1. files.state.receipts # {} /\ files.state \in States
      BY <2>3, ContentsFields DEF WInv, Typed, TypeOK, FieldsTyped
    <3>2. files.state.current = files.current /\ s \in Storages
      BY <1>1, <2>3, <3>1, StateFields DEF WInv, ReceiptsKept, Matching, RestoreSteps
    <3>3. uploaded[s] = files.state.current
      BY <2>3 DEF WInv, ReceiptsKept, Truthful
    <3> QED BY <1>1, <3>2, <3>3
  <2>4. ~torn => Matching(files)
    BY <1>1 DEF WInv, ReceiptsKept, RestoreSteps
  <2> QED BY <1>1, <2>1, <2>2, <2>3, <2>4 DEF ReceiptsKept, Truthful, Matching
<1> QED BY <1>2, <1>3, <1>4 DEF WInv

\* record_uploaded_storages: receipts of the current candidate join those of a
\* state that names it.
LEMMA RecordTrue ==
  ASSUME RInv, WInv, NEW synced \in BOOLEAN, Record(synced) PROVE WInv'
<1>1. /\ op = Idle /\ receipt # None /\ receipt' = None /\ op.step = "none"
      /\ candidate' = candidate /\ intact' = intact /\ op' = op /\ uploaded' = uploaded
      /\ acceptable' = acceptable /\ torn' = torn
      /\ outcome' \in {"ok", "unsynced", "failed"}
  BY DEF Record, history, Idle
<1>2. CASE ~Recordable(receipt.id)
  <2>1. files' = files
    BY <1>2 DEF Record
  <2>2. Typed'
    BY <1>1, <2>1 DEF WInv, Typed, TypeOK
  <2>3. Committed'
    BY <1>1, <2>1 DEF WInv, Committed
  <2>4. ReceiptsKept'
    BY <1>1, <2>1 DEF WInv, ReceiptsKept, Truthful, Matching
  <2> QED BY <2>2, <2>3, <2>4 DEF WInv
<1>3. CASE Recordable(receipt.id)
  <2> DEFINE r == StoredReceipts \cup receipt.storages
             st == [enabled |-> TRUE, current |-> files.current, receipts |-> r]
  <2>1. files' = [files EXCEPT !["state"] = st]
    BY <1>3 DEF Record
  <2>2. /\ files.current # None /\ files.current = receipt.id /\ files \in Contents
        /\ files.state # None /\ files.state.current # None => files.state.current = receipt.id
        /\ receipt \in [id : Ids, storages : SUBSET Storages]
    BY <1>1, <1>3 DEF Recordable, WInv, Typed, TypeOK
  <2>3. /\ FieldsTyped(files) /\ FilesShape(files) /\ files.current \in Ids
    BY <2>2, ContentsFields
  <2>4. StoredReceipts \subseteq Storages /\ receipt.storages \subseteq Storages
    BY <2>2, <2>3, StateFields DEF StoredReceipts, FieldsTyped
  <2>5. st \in States
    BY <2>2, <2>3, <2>4, StateFields
  <2>6. /\ files' \in Contents /\ files'["state"] = st
        /\ files'["current"] = files["current"]
    <3> HIDE DEF st
    <3>1. {"state", "current"} \subseteq Files
      BY DEF Files
    <3>2. files' \in Contents
      BY <2>1, <2>2, <2>5, <3>1, OneContent
    <3> QED BY <2>1, <2>3, <3>1, <3>2, OneFile
  <2>7. st.receipts = r /\ st.current = receipt.id
    BY <2>2
  <2>8. ~torn => \A s \in StoredReceipts : uploaded[s] = receipt.id
    <3>1. CASE files.state = None
      BY <3>1 DEF StoredReceipts
    <3>2. CASE files.state # None
      <4>1. files.state \in States /\ StoredReceipts = files.state.receipts
        BY <2>3, <3>2 DEF FieldsTyped, StoredReceipts
      <4>2. files.state.current = None => files.state.receipts = {}
        BY <4>1, StateFields
      <4> QED BY <2>2, <3>2, <4>1, <4>2 DEF WInv, ReceiptsKept, Truthful
    <3> QED BY <3>1, <3>2
  <2>9. \A s \in receipt.storages : uploaded[s] = receipt.id
    BY <1>1 DEF WInv, ReceiptsKept
  <2> HIDE DEF st, r
  <2>10. Typed'
    BY <1>1, <2>6 DEF WInv, Typed, TypeOK
  <2>11. Committed'
    BY <1>1, <2>6 DEF WInv, Committed
  <2>12. ReceiptsKept'
    <3>1. ~torn' => Truthful(files.state)'
      <4>1. files'.state.receipts = r /\ files'.state.current = receipt.id
        BY <2>6, <2>7
      <4> QED BY <1>1, <2>8, <2>9, <4>1 DEF Truthful, r
    <3>2. Matching(files)'
      BY <2>2, <2>6, <2>7 DEF Matching
    <3> QED BY <1>1, <3>1, <3>2 DEF ReceiptsKept, Truthful
  <2> QED BY <2>10, <2>11, <2>12 DEF WInv
<1> QED BY <1>2, <1>3

\* The process is killed: receipts are as true as they were, unless a restore
\* was under way.
LEMMA CrashTrue ==
  ASSUME RInv, WInv, Crash PROVE WInv'
<1>1. /\ op' = Idle /\ receipt' = None /\ outcome' = "none"
      /\ files' = files /\ candidate' = candidate /\ intact' = intact
      /\ uploaded' = uploaded /\ acceptable' = acceptable
      /\ torn' = (torn \/ op.step \in RestoreSteps)
  BY DEF Crash, Restoring, Files, RestoreSteps
<1>2. Typed'
  BY <1>1, TypedAgain DEF WInv, Typed, TypeOK
<1>3. Committed'
  BY <1>1 DEF WInv, Committed
<1>4. ReceiptsKept'
  BY <1>1 DEF WInv, ReceiptsKept, Truthful, Matching
<1> QED BY <1>2, <1>3, <1>4 DEF WInv
-----------------------------------------------------------------------------
(* What the files and the receipts are worth.                              *)

\* No file is there at first.
LEMMA RolloutTypesInit == Init => WInv
<1> SUFFICES ASSUME Init PROVE WInv
  OBVIOUS
<1>1. files \in Contents /\ files.current = None /\ files.state = None
  BY ContentsFields DEF Init, FilesShape, FieldsTyped, Files
<1>2. Typed
  BY <1>1 DEF Init, Typed, TypeOK, Idle
<1>3. Committed /\ ReceiptsKept
  BY <1>1 DEF Init, Committed, ReceiptsKept, Truthful, Matching
<1> QED BY <1>2, <1>3 DEF WInv

\* Every step keeps the types, the generations and the receipts.
LEMMA RolloutTrueStep == RInv /\ WInv /\ [Next]_vars => WInv'
<1> SUFFICES ASSUME RInv, WInv, [Next]_vars PROVE WInv'
  OBVIOUS
<1> USE DEF Kinds
<1>1. ASSUME NEW r \in {"ok", "failed"}, Return(r) PROVE WInv'
  BY <1>1, QuietTrue DEF Return, history
<1>2. ASSUME NEW i \in Ids, NEW x \in Indexes, PublishCandidate(i, x) PROVE WInv'
  <2>1. CASE x \in Publishable /\ Readable
    <3>1. op = Idle /\ Begin("publish", i, x, "stage") /\ acceptable' = acceptable
      BY <1>2, <2>1 DEF PublishCandidate
    <3>2. acceptable \subseteq Ids \cup {None}
      BY DEF WInv, Typed, TypeOK
    <3> QED BY <2>1, <3>1, <3>2, BeginTrue
  <2>2. CASE ~(x \in Publishable /\ Readable)
    BY <1>1, <1>2, <2>2 DEF PublishCandidate
  <2> QED BY <2>1, <2>2
<1>3. ASSUME NEW i \in Ids, Rollback(i) PROVE WInv'
  <2>1. CASE Begin("rollback", i, candidate[i], "index") /\ acceptable' = acceptable \cup {i}
    <3>1. op = Idle /\ candidate[i] \in Indexes \cup {None} /\ acceptable \subseteq Ids \cup {None}
      BY <1>3 DEF Rollback, WInv, Typed, TypeOK
    <3> QED BY <2>1, <3>1, BeginTrue
  <2>2. CASE ~(Begin("rollback", i, candidate[i], "index") /\ acceptable' = acceptable \cup {i})
    BY <1>1, <1>3, <2>2 DEF Rollback
  <2> QED BY <2>1, <2>2
<1>4. CASE Disable
  <2>1. /\ op = Idle /\ Begin("disable", None, None, "state")
        /\ acceptable' = acceptable \cup {None} /\ acceptable \subseteq Ids \cup {None}
    BY <1>4 DEF Disable, WInv, Typed, TypeOK
  <2> QED BY <2>1, BeginTrue
<1>5. CASE Step
  BY <1>5, StageTrue, WriteTrue, WriteFailsTrue, RestoreTrue DEF Step
<1>6. CASE Receipts
  BY <1>6, UploadTrue, RecordTrue DEF Receipts
<1>7. CASE \E i \in Ids : Damage(i)
  BY <1>7, QuietTrue DEF Damage, history
<1>8. CASE UNCHANGED vars
  <2>1. outcome \in {"none", "running", "restoring", "ok", "failed", "incomplete", "unsynced"}
    BY DEF WInv, Typed, TypeOK
  <2> QED BY <1>8, <2>1, QuietTrue DEF vars, history
<1> QED BY <1>2, <1>3, <1>4, <1>5, <1>6, <1>7, <1>8, CrashTrue DEF Next, Call

\* The strengthening holds in every reachable state.
THEOREM RolloutInvariance == Spec => [](RInv /\ WInv)
<1>1. Init => RInv /\ WInv
  BY RolloutInit, RolloutTypesInit
<1>2. RInv /\ WInv /\ [Next]_vars => (RInv /\ WInv)'
  BY RolloutStep, RolloutTrueStep
<1> QED BY <1>1, <1>2, PTL DEF Spec

\* live2d/rollout.py: every variable keeps its type.
THEOREM RolloutTypes == Spec => []TypeOK
<1>1. RInv /\ WInv => TypeOK
  BY DEF WInv, Typed
<1> QED BY <1>1, RolloutInvariance, PTL

\* load_current_pointer: whatever step a call is at, and wherever it was killed
\* or a write failed, a reader is refused or given a committed generation.
THEOREM ReadersServed == Spec => []ServedIsCommitted
<1>1. RInv /\ WInv => ServedIsCommitted
  <2> SUFFICES ASSUME WInv PROVE ServedIsCommitted
    OBVIOUS
  <2>1. files.current \in acceptable /\ files.current \in Ids \cup {None}
    BY ContentsFields DEF WInv, Typed, TypeOK, Committed, FieldsTyped
  <2>2. \A i \in Ids : candidate[i] # None => candidate[i] \in Publishable
    BY DEF WInv, Committed
  <2> QED BY <2>1, <2>2 DEF ServedIsCommitted, Served, Readable, Verified
<1> QED BY <1>1, RolloutInvariance, PTL

\* record_uploaded_storages: a receipt stands for an upload of the candidate
\* the state names, for any number of candidates and storages.
THEOREM ReceiptsTrue == Spec => []ReceiptsTruthful
<1>1. RInv /\ WInv => ReceiptsTruthful
  BY DEF WInv, ReceiptsKept, Truthful, ReceiptsTruthful
<1> QED BY <1>1, RolloutInvariance, PTL
=============================================================================
