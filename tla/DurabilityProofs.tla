-------------------------- MODULE DurabilityProofs --------------------------
(***************************************************************************)
(* Safety theorems about module Lifecycle, for every value of its          *)
(* constants: at any instant the state file can rebuild the engine of      *)
(* every generation the table queues (DurableCoverage), the controller     *)
(* claims to steer only while the table does (SteeringHonest), every file  *)
(* it writes is one it loads (DiskLoadable), and the table's generations   *)
(* have their engines (EngineCoverage).  Each inductive invariant rests on *)
(* the ones before it.                                                     *)
(***************************************************************************)
EXTENDS TypeCorrectness, FiniteSetTheorems

-----------------------------------------------------------------------------
\* The inductive invariant

Known(art) == \A i \in Ids : rules.scope[i] # None => rules.scope[i] = art[i]

Recorded(art, except) ==
    \A i \in Ids \ except : art[i] # None => disk # NoFile /\ disk.art[i] = art[i]

\* The generation that Prepare has not persisted yet.
Fresh == IF pc \in {"prep_persist", "rollback_persist"} THEN {op.id} ELSE {}

\* The state file records every generation in memory but a fresh one, which
\* has no rules.
MemoryRecorded ==
    /\ Recorded(mem.art, Fresh)
    /\ Fresh \subseteq Ids /\ \A i \in Fresh : rules.scope[i] = None

\* The table has rules of generations in memory only: a transaction installs
\* no others, and a compensation brings back what it had.  A collection has
\* forgotten one that a failure would bring back; a new process has yet to
\* remove its predecessor's table.
TableKnown ==
    \/ Known(IF pc = "gc_program" THEN op.saved.art ELSE mem.art)
    \/ /\ pc \in {"down", "start_remove", "close_rules", "exit"}
       /\ ~ raising /\ reconciling = "no"

\* What an operation restores when it fails.
SavedRecorded ==
    /\ op.kind \in {"activate", "deactivate"} => op.saved.art = mem.art
    /\ pc = "gc_program" =>
          /\ Recorded(op.saved.art, {})
          /\ \A i \in Ids : mem.art[i] \in {None, op.saved.art[i]}

\* The operation that each step belongs to.
StepOfOperation ==
    /\ pc \in {"act_persist", "act_unwind", "act_stage", "act_sweep", "act_flip", "act_engine"} =>
          op.kind = "activate"
    /\ pc \in {"offload", "claim", "disable", "unclaim"} => op.kind \in {"activate", "start"}
    /\ pc \in {"deact_persist", "deact_program"} => op.kind = "deactivate"
    /\ pc \in {"start_remove", "start_load", "start_audit", "start_persist"} => op.kind = "start"
    /\ pc \in {"down", "start_remove", "start_load"} => \A i \in Ids : mem.art[i] = None
    /\ pc = "start_load" => \A i \in Ids : rules.scope[i] = None

DurableInv == DurableCoverage /\ MemoryRecorded /\ TableKnown /\ SavedRecorded /\ StepOfOperation

-----------------------------------------------------------------------------
\* Updates of the state that leave the artifacts alone

LEMMA ArtKept ==
    ASSUME NEW m \in States
    PROVE  /\ MarkUnsafe(m).art = m.art
           /\ Quarantined(m).art = m.art
           /\ \A i : Activated(m, i).art = m.art
           /\ Deactivated(m).art = m.art
           /\ \A b : [m EXCEPT !.offloads = b].art = m.art
           /\ [m EXCEPT !.offloads = TRUE].art = m.art
           /\ [m EXCEPT !.offloads = FALSE].art = m.art
           /\ [m EXCEPT !.unsafe = TRUE].art = m.art
           /\ \A b, c : [m EXCEPT !.offloads = b, !.unsafe = c].art = m.art
           /\ \A p : [m EXCEPT !.phase = p].art = m.art
  BY DEF States, MarkUnsafe, Quarantined, Activated, Deactivated

LEMMA StateTypes ==
    ASSUME TypeOK
    PROVE  mem \in States /\ op.saved \in States /\ op.id \in 0 .. MaxId
  BY OpParts DEF TypeOK, StateTypeOK, ControlTypeOK

\* Updates of the operation's locals that leave what it saved alone.
LEMMA OpKept ==
    ASSUME TypeOK
    PROVE  /\ \A b : LET o == [op EXCEPT !.restoreNic = b] IN o.kind = op.kind /\ o.saved = op.saved
           /\ \A b : LET o == [op EXCEPT !.failed = b] IN o.kind = op.kind /\ o.saved = op.saved
           /\ \A b : LET o == [op EXCEPT !.loaded = b] IN o.kind = op.kind /\ o.saved = op.saved
           /\ \A b : LET o == [op EXCEPT !.audited = b] IN o.kind = op.kind /\ o.saved = op.saved
           /\ \A k, b : [op EXCEPT !.kind = k, !.back = b].kind = k
  <1>1. op \in Ops
    BY DEF TypeOK, ControlTypeOK
  <1> QED BY <1>1 DEF Ops

LEMMA NoFileIsNoState == NoFile \notin States
  BY DEF NoFile, States

\* A generation is forgotten, or recorded.
LEMMA WithoutArt ==
    ASSUME NEW m \in States, NEW i \in Ids
    PROVE  /\ Without(m, i).art = [m.art EXCEPT ![i] = None]
           /\ \A x : [Without(m, i) EXCEPT !.previous = x].art = [m.art EXCEPT ![i] = None]
  BY DEF States, Without

LEMMA PreparedArt ==
    ASSUME NEW m \in States, NEW i \in Ids, NEW a
    PROVE  Prepared(m, i, a).art = [m.art EXCEPT ![i] = a]
  BY DEF States, Prepared

LEMMA NextGenerationFree ==
    ASSUME NEW m, NEW res, NextGeneration(m, res) # 0
    PROVE  NextGeneration(m, res) \in Ids /\ m.art[NextGeneration(m, res)] = None
  <1> DEFINE free == Ids \ (Retained(m) \cup res)
  <1>1. free # {}
    BY DEF NextGeneration
  <1>2. \E i \in free : \A j \in free : i <= j
    <2>1. free \in SUBSET Nat
      BY DEF Ids
    <2> HIDE DEF free
    <2> QED BY <1>1, <2>1, LeastExists
  <1>3. NextGeneration(m, res) \in free
    BY <1>1, <1>2 DEF NextGeneration
  <1> QED BY <1>3 DEF Retained, Has

\* The table the controller programs has rules of generations in memory only.
LEMMA TableScope ==
    ASSUME NEW r \in {StageTable, FlipTable, OldTable, NoRules, Program(mem, 0, FALSE),
                      Program(mem, 0, TRUE), Program(mem, mem.active, FALSE)},
           NEW i \in Ids
    PROVE  r.scope[i] \in {None, mem.art[i]}
  BY DEF StageTable, FlipTable, OldTable, NoRules, Program

LEMMA NoRulesScope == \A i \in Ids : NoRules.scope[i] = None
  BY DEF NoRules

-----------------------------------------------------------------------------
\* Between two transactions: memory, table and file agree

Settled == Known(mem.art) /\ Recorded(mem.art, {})

Unsettled == {"prep_persist", "rollback_persist", "gc_program"}
Ends == {"down", "start_remove", "close_rules", "exit"}

LEMMA SettledBefore ==
    ASSUME DurableInv, pc \notin Unsettled, pc \notin Ends \/ raising \/ reconciling # "no"
    PROVE  Settled
  BY DEF DurableInv, MemoryRecorded, TableKnown, Fresh, Settled, Unsettled, Ends

LEMMA SettledAfter ==
    ASSUME Settled', pc' \notin Unsettled, SavedRecorded', StepOfOperation'
    PROVE  DurableInv'
  BY DEF DurableInv, MemoryRecorded, TableKnown, Fresh, Settled, Unsettled, DurableCoverage, Known, Recorded

\* A transaction, whatever becomes of it.
LEMMA SettledTable ==
    ASSUME Settled, mem'.art = mem.art, disk' = disk,
           \A i \in Ids : rules'.scope[i] \in {None, rules.scope[i], mem.art[i]}
    PROVE  Settled'
  BY DEF Settled, Known, Recorded

\* The file is written, or left, or nobody knows which.
LEMMA SettledFile ==
    ASSUME Settled, mem \in States, mem'.art = mem.art, rules' = rules, disk' \in {disk, mem}
    PROVE  Settled'
  BY NoFileIsNoState DEF Settled, Known, Recorded

-----------------------------------------------------------------------------
\* The locals of the operation

ActivationPcs == {"act_persist", "act_unwind", "act_stage", "act_sweep", "act_flip", "act_engine"}
ClaimPcs == {"offload", "claim", "disable", "unclaim"}
DeactivationPcs == {"deact_persist", "deact_program"}
EarlyPcs == {"down", "start_remove", "start_load", "start_audit", "start_persist"}

LEMMA OperationOver ==
    ASSUME op'.kind \notin {"activate", "deactivate"},
           pc' \notin ActivationPcs \cup DeactivationPcs \cup EarlyPcs \cup {"gc_program"},
           pc' \in ClaimPcs => op'.kind = "start"
    PROVE  SavedRecorded' /\ StepOfOperation'
  BY DEF SavedRecorded, StepOfOperation, ActivationPcs, DeactivationPcs, EarlyPcs, ClaimPcs

LEMMA OperationGoesOn ==
    ASSUME SavedRecorded, op'.kind = op.kind, op'.saved = op.saved, mem'.art = mem.art,
           pc' \notin EarlyPcs \cup {"gc_program"},
           pc' \in ActivationPcs => op.kind = "activate",
           pc' \in ClaimPcs => op.kind \in {"activate", "start"},
           pc' \in DeactivationPcs => op.kind = "deactivate"
    PROVE  SavedRecorded' /\ StepOfOperation'
  BY DEF SavedRecorded, StepOfOperation, ActivationPcs, DeactivationPcs, EarlyPcs, ClaimPcs

\* The operation's state before it began is restored.
LEMMA OperationUndone ==
    ASSUME SavedRecorded, op.kind \in {"activate", "deactivate"}
    PROVE  op.saved.art = mem.art
  BY DEF SavedRecorded

LEMMA DurableParts ==
    ASSUME DurableInv
    PROVE  SavedRecorded /\ StepOfOperation
  BY DEF DurableInv

\* What the constructors of op say about kind and saved.
LEMMA NoOpKind ==
    /\ NoOp.kind = "none"
    /\ \A k : [NoOp EXCEPT !.kind = k].kind = k
  BY DEF NoOp

-----------------------------------------------------------------------------
\* Steps that leave table, file and memory alone

LEMMA DurableKept ==
    ASSUME DurableInv, UNCHANGED <<rules, pc, op, mem, disk, raising, reconciling>>
    PROVE  DurableInv'
  BY DEF DurableInv, DurableCoverage, MemoryRecorded, TableKnown, SavedRecorded,
         StepOfOperation, Known, Recorded, Fresh

LEMMA DurableSignal ==
    ASSUME DurableInv, UNCHANGED <<rules, pc, op, mem, disk>>,
           Running \/ raising \/ reconciling # "no"
    PROVE  DurableInv'
  BY DEF DurableInv, DurableCoverage, MemoryRecorded, TableKnown, SavedRecorded,
         StepOfOperation, Known, Recorded, Fresh, Running, StartPcs

LEMMA DurableKernel ==
    ASSUME DurableInv, Kernel \/ UNCHANGED vars
    PROVE  DurableInv'
  BY DurableKept
     DEF Kernel, KernelNext, Syn, FlowEnd, FlowIdle, controllerVars, vars, kernelVars, signalVars

\* Requests that only look, and requests waiting for the mutex.
LEMMA DurableLooks ==
    ASSUME DurableInv,
           \/ PrepareGateFails
           \/ \E c \in Clients :
                 \/ \E a \in Artifacts : DrainBegin(c, a) \/ RollbackBegin(c, a)
                 \/ \E i \in Ids : GcList(c, i)
                 \/ GcBegin(c) \/ CountBegin(c) \/ CountSucceeds(c) \/ CountFails(c)
    PROVE  DurableInv'
  BY DurableKept
     DEF PrepareGateFails, DrainBegin, RollbackBegin, GcList, GcBegin, CountBegin,
         CountSucceeds, CountFails, RequestFrame, kernelVars, signalVars

LEMMA DurableRaises ==
    ASSUME DurableInv, IntegrityFailure \/ ReconcileStart \/ ReconcileEnd
    PROVE  DurableInv'
  BY DurableSignal DEF IntegrityFailure, ReconcileStart, ReconcileEnd, kernelVars

-----------------------------------------------------------------------------
\* Prepare

\* A generation enters memory before it enters the file.
LEMMA DurablePrepared ==
    ASSUME TypeOK, DurableInv, pc = "idle", NEW i \in Ids, NEW a, mem.art[i] = None,
           mem' = Prepared(mem, i, a), UNCHANGED <<rules, disk>>,
           pc' \in {"prep_persist", "rollback_persist"}, op'.id = i,
           op'.kind \notin {"activate", "deactivate"}
    PROVE  DurableInv'
  <1>1. Settled
    BY SettledBefore DEF Unsettled, Ends
  <1>2. mem'.art = [mem.art EXCEPT ![i] = a]
    BY PreparedArt, StateTypes
  <1>3. mem.art \in [Ids -> OrNone(Artifacts)]
    BY StateParts, StateTypes
  <1>4. rules.scope[i] = None
    BY <1>1 DEF Settled, Known
  <1>5. Known(mem.art)' /\ Recorded(mem.art, {i})'
    BY <1>1, <1>2, <1>3, <1>4 DEF Settled, Known, Recorded
  <1>6. SavedRecorded' /\ StepOfOperation'
    BY OperationOver DEF ActivationPcs, DeactivationPcs, EarlyPcs, ClaimPcs
  <1> QED BY <1>4, <1>5, <1>6
       DEF DurableInv, DurableCoverage, MemoryRecorded, TableKnown, Fresh, Known, Recorded

LEMMA DurablePrepare ==
    ASSUME TypeOK, DurableInv, NEW a \in Artifacts, Prepare(a)
    PROVE  DurableInv'
  <1> DEFINE res == IF latched THEN Reserve(mem, Counts) ELSE reserved
             id == NextGeneration(mem, res)
             new == /\ IdOf(mem, a) = 0
                    /\ Cardinality(Retained(mem)) < MaxGenerations
                    /\ id # 0
                    /\ WithinBudgets(Prepared(mem, id, a))
  <1>1. pc = "idle" /\ UNCHANGED <<rules, disk, raising, reconciling>>
    BY DEF Prepare, MayRequest, Idle, kernelVars, signalVars
  <1>2. CASE new
    <2>1. id \in Ids /\ mem.art[id] = None
      BY <1>2, NextGenerationFree
    <2>2. /\ mem' = Prepared(mem, id, a) /\ pc' = "prep_persist"
          /\ op' = [NoOp EXCEPT !.kind = "prepare", !.id = id, !.repair = latched, !.epoch = epoch]
      BY <1>2 DEF Prepare
    <2>3. op'.id = id /\ op'.kind = "prepare"
      BY <2>2 DEF NoOp
    <2> HIDE DEF id
    <2> QED BY <1>1, <2>1, <2>2, <2>3, DurablePrepared
  <1>3. CASE ~ new
    <2>1. UNCHANGED <<mem, pc, op>>
      BY <1>3 DEF Prepare
    <2> QED BY <1>1, <2>1, DurableKept
  <1> QED BY <1>2, <1>3

\* The fresh generation is forgotten again, or recorded.
LEMMA DurableUnprepared ==
    ASSUME TypeOK, DurableInv, pc \in {"prep_persist", "rollback_persist"},
           mem'.art = [mem.art EXCEPT ![op.id] = None], rules' = rules, disk' \in {disk, mem},
           pc' = "idle", op' = NoOp
    PROVE  DurableInv'
  <1>1. /\ Known(mem.art) /\ Recorded(mem.art, {op.id})
        /\ op.id \in Ids /\ rules.scope[op.id] = None
    BY DEF DurableInv, MemoryRecorded, TableKnown, Fresh
  <1>2. mem.art \in [Ids -> OrNone(Artifacts)]
    BY StateParts, StateTypes
  <1>3. Settled'
    BY <1>1, <1>2, NoFileIsNoState, StateTypes DEF Settled, Known, Recorded
  <1>4. SavedRecorded' /\ StepOfOperation'
    BY OperationOver, NoOpKind DEF ActivationPcs, DeactivationPcs, EarlyPcs, ClaimPcs
  <1> QED BY <1>3, <1>4, SettledAfter DEF Unsettled

LEMMA DurablePrepareRecorded ==
    ASSUME TypeOK, DurableInv, PreparePersists
    PROVE  DurableInv'
  <1>1. /\ pc \in {"prep_persist", "rollback_persist"} /\ UNCHANGED <<rules, mem>> /\ disk' = mem
        /\ \/ pc' = "idle" /\ op' = NoOp
           \/ pc' = "rollback_activate" /\ op' = op
    BY DEF PreparePersists, Persists, Return, GoTo, kernelVars
  <1>2. Known(mem.art)
    BY <1>1 DEF DurableInv, TableKnown
  <1>3. Settled'
    BY <1>1, <1>2, NoFileIsNoState, StateTypes DEF Settled, Known, Recorded
  <1>4. SavedRecorded' /\ StepOfOperation'
    <2>1. CASE op' = NoOp
      BY <1>1, <2>1, OperationOver, NoOpKind DEF ActivationPcs, DeactivationPcs, EarlyPcs, ClaimPcs
    <2>2. CASE pc' = "rollback_activate" /\ op' = op
      BY <1>1, <2>2, OperationGoesOn, DurableParts
         DEF ActivationPcs, DeactivationPcs, EarlyPcs, ClaimPcs
    <2> QED BY <1>1, <2>1, <2>2
  <1> QED BY <1>1, <1>3, <1>4, SettledAfter DEF Unsettled

LEMMA DurablePrepareFails ==
    ASSUME TypeOK, DurableInv, PrepareInterrupted \/ PreparePersistFails
    PROVE  DurableInv'
  <1>1. op.id \in Ids
    BY DEF PrepareInterrupted, PreparePersistFails, DurableInv, MemoryRecorded, Fresh
  <1>2. mem \in States /\ MarkUnsafe(mem) \in States /\ MarkUnsafe(mem).art = mem.art
    BY StateTypes, MarkUnsafeType, ArtKept
  <1>3. mem' \in {Without(mem, op.id), Without(MarkUnsafe(mem), op.id)}
    BY DEF PrepareInterrupted, PreparePersistFails, Unprepare
  <1>4. mem'.art = [mem.art EXCEPT ![op.id] = None]
    BY <1>1, <1>2, <1>3, WithoutArt
  <1>5. /\ pc \in {"prep_persist", "rollback_persist"} /\ pc' = "idle" /\ op' = NoOp
        /\ rules' = rules /\ disk' \in {disk, mem}
    BY DEF PrepareInterrupted, PreparePersistFails, PersistFails, Return, kernelVars
  <1> QED BY <1>4, <1>5, DurableUnprepared

-----------------------------------------------------------------------------
\* Steps between settled states

LEMMA DurableReturn ==
    ASSUME Settled', pc' = "idle", op' = NoOp
    PROVE  DurableInv'
  <1>1. SavedRecorded' /\ StepOfOperation'
    BY OperationOver, NoOpKind DEF ActivationPcs, DeactivationPcs, EarlyPcs, ClaimPcs
  <1> QED BY <1>1, SettledAfter DEF Unsettled

LEMMA DurableOver ==
    ASSUME Settled', op'.kind \notin {"activate", "deactivate"},
           pc' \notin ActivationPcs \cup DeactivationPcs \cup EarlyPcs \cup Unsettled,
           pc' \in ClaimPcs => op'.kind = "start"
    PROVE  DurableInv'
  <1>1. SavedRecorded' /\ StepOfOperation'
    BY OperationOver DEF Unsettled
  <1> QED BY <1>1, SettledAfter

LEMMA DurableGoesOn ==
    ASSUME DurableInv, Settled', op'.kind = op.kind, op'.saved = op.saved, mem'.art = mem.art,
           pc' \notin EarlyPcs \cup Unsettled,
           pc' \in ActivationPcs => op.kind = "activate",
           pc' \in ClaimPcs => op.kind \in {"activate", "start"},
           pc' \in DeactivationPcs => op.kind = "deactivate"
    PROVE  DurableInv'
  <1>1. SavedRecorded' /\ StepOfOperation'
    BY OperationGoesOn, DurableParts DEF Unsettled
  <1> QED BY <1>1, SettledAfter

\* A step of one of these three kinds, by what it does to table and file.
LEMMA DurableFile ==
    ASSUME TypeOK, DurableInv, pc \notin Unsettled \cup Ends,
           mem'.art = mem.art, rules' = rules, disk' \in {disk, mem}
    PROVE  Settled'
  <1>1. Settled
    BY SettledBefore
  <1> QED BY <1>1, SettledFile, StateTypes

LEMMA DurableTable ==
    ASSUME TypeOK, DurableInv, pc \notin Unsettled \cup Ends, mem'.art = mem.art, disk' = disk,
           rules' \in {rules, StageTable, FlipTable, OldTable, NoRules, Program(mem, 0, FALSE),
                      Program(mem, 0, TRUE), Program(mem, mem.active, FALSE)}
    PROVE  Settled'
  <1>1. \A i \in Ids : rules'.scope[i] \in {None, rules.scope[i], mem.art[i]}
    BY TableScope, ZenonT(30)
  <1> QED BY <1>1, SettledBefore, SettledTable

-----------------------------------------------------------------------------
\* Activation

LEMMA DurableActivateLocked ==
    ASSUME TypeOK, DurableInv, pc \in {"idle", "rollback_activate"}, UNCHANGED <<rules, disk>>,
           NEW id, NEW repair, ActivateLocked(id, repair)
    PROVE  DurableInv'
  <1>1. CASE UNCHANGED mem /\ Return
    <2>1. Settled'
      BY <1>1, DurableFile DEF Unsettled, Ends
    <2> QED BY <1>1, <2>1, DurableReturn DEF Return
  <1>2. CASE /\ mem' = IF repair THEN [Activated(mem, id) EXCEPT !.unsafe = FALSE] ELSE Activated(mem, id)
             /\ pc' = "act_persist" /\ op'.kind = "activate" /\ op'.saved = mem
    <2>1. mem \in States /\ Activated(mem, id).art = mem.art
      BY StateTypes, ArtKept
    <2>2. [Activated(mem, id) EXCEPT !.unsafe = FALSE].art = Activated(mem, id).art
      BY <2>1 DEF Activated, States
    <2>3. mem'.art = mem.art
      BY <1>2, <2>1, <2>2
    <2>4. Settled'
      BY <1>2, <2>3, DurableFile DEF Unsettled, Ends
    <2>5. SavedRecorded' /\ StepOfOperation'
      BY <1>2, <2>3 DEF SavedRecorded, StepOfOperation
    <2> QED BY <1>2, <2>4, <2>5, SettledAfter DEF Unsettled
  <1>3. ActivateLocked(id, repair) =>
          \/ UNCHANGED mem /\ Return
          \/ /\ mem' = IF repair THEN [Activated(mem, id) EXCEPT !.unsafe = FALSE] ELSE Activated(mem, id)
             /\ pc' = "act_persist" /\ op'.kind = "activate" /\ op'.saved = mem
    BY DEF ActivateLocked, NoOp
  <1> QED BY <1>1, <1>2, <1>3

LEMMA DurableActivates ==
    ASSUME TypeOK, DurableInv,
           \/ \E a \in Artifacts : ActivateForNewConnections(a) \/ Rollback(a)
           \/ RollbackActivate
    PROVE  DurableInv'
  <1>1. UNCHANGED <<rules, disk>> /\ pc \in {"idle", "rollback_activate"}
    BY DEF ActivateForNewConnections, Rollback, RollbackActivate, ActivateFrame, MayRequest,
           Idle, kernelVars
  <1>2. \/ \E id, repair : ActivateLocked(id, repair)
        \/ UNCHANGED mem /\ Return
    BY DEF ActivateForNewConnections, Rollback, RollbackActivate
  <1>3. CASE UNCHANGED mem /\ Return
    <2>1. Settled'
      BY <1>1, <1>3, DurableFile DEF Unsettled, Ends
    <2> QED BY <1>3, <2>1, DurableReturn DEF Return
  <1> QED BY <1>1, <1>2, <1>3, DurableActivateLocked

\* What each step of an operation knows of it.
LEMMA OperationKnown ==
    ASSUME DurableInv
    PROVE  /\ pc \in ActivationPcs => op.kind = "activate" /\ op.saved.art = mem.art
           /\ pc \in ClaimPcs => op.kind \in {"activate", "start"}
           /\ pc \in DeactivationPcs => op.kind = "deactivate" /\ op.saved.art = mem.art
           /\ op.kind \in {"activate", "deactivate"} => op.saved.art = mem.art
  BY DEF DurableInv, SavedRecorded, StepOfOperation, ActivationPcs, ClaimPcs, DeactivationPcs

\* The compensations restore the artifacts too.
LEMMA RestoredArt ==
    ASSUME TypeOK
    PROVE  /\ Restored.art = op.saved.art
           /\ [Restored EXCEPT !.unsafe = MarkUnsafe(mem).unsafe].art = op.saved.art
           /\ \A durable : RestoreState(durable) => mem'.art = op.saved.art
  <1>1. op.saved \in States
    BY StateTypes
  <1>2. /\ Restored.art = op.saved.art
        /\ [Restored EXCEPT !.unsafe = MarkUnsafe(mem).unsafe].art = op.saved.art
    BY <1>1 DEF Restored, States
  <1>3. \A b, c : [op.saved EXCEPT !.offloads = b, !.unsafe = c].art = op.saved.art
    BY <1>1, ArtKept
  <1>4. \A durable : RestoreState(durable) => mem'.art = op.saved.art
    BY <1>3 DEF RestoreState
  <1> QED BY <1>2, <1>4

LEMMA DurableActivateStep ==
    ASSUME TypeOK, DurableInv, ActivateStep
    PROVE  DurableInv'
  <1> USE DEF Unsettled, Ends, ActivationPcs, ClaimPcs, DeactivationPcs, EarlyPcs, kernelVars
  <1>1. CASE RollbackActivate
    BY <1>1, DurableActivates
  <1>2. CASE ActivatePersists \/ SweepSucceeds
    <2>1. /\ pc \in {"act_persist", "act_sweep", "start_sweep"} /\ UNCHANGED <<rules, mem, op>>
          /\ disk' \in {disk, mem}
          /\ pc' = CASE pc = "act_persist" -> "offload" [] pc = "act_sweep" -> "act_flip"
                      [] pc = "start_sweep" -> "start_flip"
      BY <1>2 DEF ActivatePersists, SweepSucceeds, Persists, GoTo
    <2>2. Settled'
      BY <2>1, DurableFile
    <2> QED BY <2>1, <2>2, DurableGoesOn, OperationKnown
  <1>3. CASE ActivatePersistFails
    <2>1. /\ pc = "act_persist" /\ pc' = "idle" /\ op' = NoOp /\ rules' = rules /\ disk' \in {disk, mem}
          /\ RestoreState(FALSE)
      BY <1>3 DEF ActivatePersistFails, PersistFails, Return
    <2>2. mem'.art = mem.art
      BY <2>1, RestoredArt, OperationKnown
    <2>3. Settled'
      BY <2>1, <2>2, DurableFile
    <2> QED BY <2>1, <2>3, DurableReturn
  <1>4. CASE StageInstalls \/ FlipInstalls
    <2>1. /\ pc \in {"act_stage", "act_flip"} /\ UNCHANGED <<mem, op, disk>>
          /\ rules' \in {StageTable, FlipTable}
          /\ pc' \in {"act_sweep", "act_flip", "act_engine"}
      BY <1>4 DEF StageInstalls, FlipInstalls, Installs, GoTo
    <2>2. Settled'
      BY <2>1, DurableTable
    <2> QED BY <2>1, <2>2, DurableGoesOn, OperationKnown
  <1>5. CASE TransactionFails
    <2>1. /\ pc \in {"act_stage", "act_flip"} /\ UNCHANGED <<op, disk>>
          /\ rules' \in {rules, StageTable, FlipTable}
          /\ pc' = "comp_program" /\ RestoreState(~ persistFatal)
      BY <1>5 DEF TransactionFails, InstallFails, GoTo
    <2>2. mem'.art = mem.art
      BY <2>1, RestoredArt, OperationKnown
    <2>3. Settled'
      BY <2>1, <2>2, DurableTable
    <2> QED BY <2>1, <2>2, <2>3, DurableGoesOn
  <1>6. CASE SweepFails
    <2>1. /\ pc = "act_sweep" /\ UNCHANGED <<rules, disk>>
          /\ pc' = "comp_program" /\ RestoreState(~ persistFatal)
          /\ op' = [op EXCEPT !.restoreNic = FALSE]
      BY <1>6 DEF SweepFails
    <2>2. op'.kind = op.kind /\ op'.saved = op.saved
      BY <2>1, OpKept
    <2>3. mem'.art = mem.art
      BY <2>1, RestoredArt, OperationKnown
    <2>4. Settled'
      BY <2>1, <2>3, DurableFile
    <2> QED BY <2>1, <2>2, <2>3, <2>4, DurableGoesOn
  <1>7. CASE ActivateDone
    <2>1. pc = "act_engine" /\ UNCHANGED <<rules, mem, disk>> /\ pc' = "idle" /\ op' = NoOp
      BY <1>7 DEF ActivateDone, Return
    <2>2. Settled'
      BY <2>1, DurableFile
    <2> QED BY <2>1, <2>2, DurableReturn
  <1> QED BY <1>1, <1>2, <1>3, <1>4, <1>5, <1>6, <1>7 DEF ActivateStep

-----------------------------------------------------------------------------
\* NIC offloads

\* ensureOffloadsDown fails: an activation is undone, a start abandoned.
LEMMA DurableOffloadsFail ==
    ASSUME TypeOK, DurableInv, pc \in ClaimPcs, rules' = rules, disk' \in {disk, mem},
           NEW m, m.art = mem.art, NEW durable, OffloadsFailed(m, durable)
    PROVE  DurableInv'
  <1> USE DEF Unsettled, Ends, ActivationPcs, ClaimPcs, DeactivationPcs, EarlyPcs
  <1>1. CASE op.kind = "start"
    <2>1. mem' = m /\ pc' = "close_rules" /\ op'.kind = "close"
      BY <1>1, NoOpKind DEF OffloadsFailed
    <2>2. Settled'
      BY <2>1, DurableFile
    <2> QED BY <2>1, <2>2, DurableOver
  <1>2. CASE op.kind # "start"
    <2>1. pc' = "act_unwind" /\ op' = op /\ op.kind = "activate"
      BY <1>2, OperationKnown DEF OffloadsFailed, GoTo
    <2>2. mem'.art = op.saved.art
      <3>1. mem' = [op.saved EXCEPT !.offloads = m.offloads, !.unsafe = @ \/ ~ durable]
        BY <1>2 DEF OffloadsFailed
      <3> QED BY <3>1, StateTypes, ArtKept
    <2>3. mem'.art = mem.art
      BY <2>1, <2>2, OperationKnown
    <2>4. Settled'
      BY <2>3, DurableFile
    <2> QED BY <2>1, <2>3, <2>4, DurableGoesOn
  <1> QED BY <1>1, <1>2

LEMMA DurableClaimStep ==
    ASSUME TypeOK, DurableInv,
           \/ OffloadsDown \/ OffloadsCapture \/ OffloadsCallFails \/ ClaimPersists
           \/ ClaimPersistFails \/ DisableSucceeds \/ DisableFails \/ UnclaimPersists
           \/ UnclaimPersistFails
    PROVE  DurableInv'
  <1> USE DEF Unsettled, Ends, ActivationPcs, ClaimPcs, DeactivationPcs, EarlyPcs, kernelVars
  <1>0. mem \in States /\ MarkUnsafe(mem) \in States
    BY StateTypes, MarkUnsafeType
  <1>1. CASE OffloadsDown \/ DisableSucceeds
    <2>1. /\ pc \in ClaimPcs /\ UNCHANGED <<rules, mem, op, disk>>
          /\ pc' \in {"start_boundary", "start_program", "act_stage"}
          /\ op.kind # "start" => pc' = "act_stage"
          /\ op.kind = "start" => pc' # "act_stage"
      BY <1>1 DEF OffloadsDown, DisableSucceeds, OffloadsDone, StartPath, GoTo
    <2>2. Settled'
      BY <2>1, DurableFile
    <2> QED BY <2>1, <2>2, DurableGoesOn, OperationKnown
  <1>2. CASE OffloadsCapture \/ ClaimPersists
    <2>1. /\ pc \in ClaimPcs /\ UNCHANGED <<rules, op>> /\ disk' \in {disk, mem}
          /\ pc' \in ClaimPcs /\ mem' \in {mem, [mem EXCEPT !.offloads = TRUE]}
      BY <1>2 DEF OffloadsCapture, ClaimPersists, Persists, GoTo
    <2>2. mem'.art = mem.art
      BY <1>0, <2>1, ArtKept
    <2>3. Settled'
      BY <2>1, <2>2, DurableFile
    <2> QED BY <2>1, <2>2, <2>3, DurableGoesOn, OperationKnown
  <1>3. CASE DisableFails
    <2>1. /\ pc \in ClaimPcs /\ UNCHANGED <<rules, op, disk>> /\ pc' \in ClaimPcs
          /\ mem' \in {[mem EXCEPT !.offloads = TRUE], [mem EXCEPT !.offloads = FALSE]}
      BY <1>3 DEF DisableFails, GoTo
    <2>2. mem'.art = mem.art
      BY <1>0, <2>1, ArtKept
    <2>3. Settled'
      BY <2>1, <2>2, DurableFile
    <2> QED BY <2>1, <2>2, <2>3, DurableGoesOn, OperationKnown
  <1>4. CASE OffloadsCallFails \/ UnclaimPersists
    <2>1. /\ pc \in ClaimPcs /\ rules' = rules /\ disk' \in {disk, mem}
          /\ OffloadsFailed(mem, ~ persistFatal)
      BY <1>4 DEF OffloadsCallFails, UnclaimPersists, Persists
    <2> QED BY <2>1, DurableOffloadsFail
  <1>5. CASE ClaimPersistFails \/ UnclaimPersistFails
    <2>1. /\ pc \in ClaimPcs /\ rules' = rules /\ disk' \in {disk, mem}
          /\ \E m \in {MarkUnsafe(mem), [MarkUnsafe(mem) EXCEPT !.offloads = FALSE]} :
                 OffloadsFailed(m, FALSE)
      BY <1>5 DEF ClaimPersistFails, UnclaimPersistFails, PersistFails
    <2>2. \A m \in {MarkUnsafe(mem), [MarkUnsafe(mem) EXCEPT !.offloads = FALSE]} : m.art = mem.art
      BY <1>0, ArtKept
    <2> QED BY <2>1, <2>2, DurableOffloadsFail
  <1> QED BY <1>1, <1>2, <1>3, <1>4, <1>5

\* restoreOffloads, on behalf of any operation.
LEMMA DurableRestoreReturns ==
    ASSUME TypeOK, DurableInv, Settled', mem'.art = mem.art, NEW failed, RestoreReturns(failed)
    PROVE  DurableInv'
  <1> USE DEF Unsettled, Ends, ActivationPcs, ClaimPcs, DeactivationPcs, EarlyPcs
  <1>1. \/ pc' = "idle" /\ op' = NoOp
        \/ pc' = "close_rules" /\ op' = [NoOp EXCEPT !.kind = "close"]
        \/ pc' \in {"gc_persist", "exit", "comp_done"} /\ op' = [op EXCEPT !.failed = failed]
    BY DEF RestoreReturns, AfterRestore
  <1>2. CASE pc' = "idle" /\ op' = NoOp
    BY <1>2, DurableReturn
  <1>3. CASE pc' = "close_rules" /\ op' = [NoOp EXCEPT !.kind = "close"]
    BY <1>3, DurableOver, NoOpKind
  <1>4. CASE pc' \in {"gc_persist", "exit", "comp_done"} /\ op' = [op EXCEPT !.failed = failed]
    <2>1. op'.kind = op.kind /\ op'.saved = op.saved
      BY <1>4, OpKept
    <2> QED BY <1>4, <2>1, DurableGoesOn
  <1> QED BY <1>1, <1>2, <1>3, <1>4

LEMMA DurableRestoreStep ==
    ASSUME TypeOK, DurableInv,
           RestoreNothing \/ RestoreCall \/ RestorePersists \/ RestorePersistFails
    PROVE  DurableInv'
  <1> USE DEF Unsettled, Ends, ActivationPcs, ClaimPcs, DeactivationPcs, EarlyPcs, kernelVars
  <1>0. mem \in States
    BY StateTypes
  <1>1. CASE RestoreNothing \/ RestorePersists \/ RestorePersistFails
    <2>1. /\ pc \in {"restore", "restore_persist"} /\ rules' = rules /\ disk' \in {disk, mem}
          /\ mem' \in {mem, MarkUnsafe(mem)} /\ \E failed : RestoreReturns(failed)
      BY <1>1 DEF RestoreNothing, RestorePersists, RestorePersistFails, Persists, PersistFails
    <2>2. mem'.art = mem.art
      BY <1>0, <2>1, ArtKept
    <2>3. Settled'
      BY <2>1, <2>2, DurableFile
    <2> QED BY <2>1, <2>2, <2>3, DurableRestoreReturns
  <1>2. CASE RestoreCall
    <2>1. /\ pc = "restore" /\ pc' = "restore_persist" /\ UNCHANGED <<rules, disk>>
          /\ mem' \in {mem, [mem EXCEPT !.offloads = FALSE]}
          /\ op' \in {op, [op EXCEPT !.failed = TRUE]}
      BY <1>2 DEF RestoreCall
    <2>2. mem'.art = mem.art
      BY <1>0, <2>1, ArtKept
    <2>3. op'.kind = op.kind /\ op'.saved = op.saved
      BY <2>1, OpKept
    <2>4. Settled'
      BY <2>1, <2>2, DurableFile
    <2> QED BY <2>1, <2>2, <2>3, <2>4, DurableGoesOn
  <1> QED BY <1>1, <1>2

LEMMA DurableOffloadStep ==
    ASSUME TypeOK, DurableInv, OffloadStep
    PROVE  DurableInv'
  BY DurableClaimStep, DurableRestoreStep DEF OffloadStep

-----------------------------------------------------------------------------
\* Compensation

LEMMA DurableCompensationStep ==
    ASSUME TypeOK, DurableInv, CompensationStep
    PROVE  DurableInv'
  <1> USE DEF Unsettled, Ends, ActivationPcs, ClaimPcs, DeactivationPcs, EarlyPcs, kernelVars
  <1>0. mem \in States
    BY StateTypes
  <1>1. CASE UnwindPersists \/ CompensationPersists \/ CompensationPersistFails
    <2>1. /\ pc \in {"act_unwind", "comp_persist"} /\ pc' \in {"restore", "comp_done"}
          /\ rules' = rules /\ disk' \in {disk, mem} /\ mem' \in {mem, MarkUnsafe(mem)}
          /\ op' \in {op, [op EXCEPT !.failed = TRUE]}
      BY <1>1 DEF UnwindPersists, CompensationPersists, CompensationPersistFails, Persists,
                 PersistFails, GoTo, AfterCompensation
    <2>2. mem'.art = mem.art
      BY <1>0, <2>1, ArtKept
    <2>3. op'.kind = op.kind /\ op'.saved = op.saved
      BY <2>1, OpKept
    <2>4. Settled'
      BY <2>1, <2>2, DurableFile
    <2> QED BY <2>1, <2>2, <2>3, <2>4, DurableGoesOn
  <1>2. CASE CompensationInstalls \/ CompensationInstallFails
    <2>1. /\ pc = "comp_program" /\ pc' \in {"comp_done", "comp_persist"}
          /\ rules' \in {rules, OldTable} /\ UNCHANGED <<disk, mem>>
          /\ op' \in {op, [op EXCEPT !.failed = TRUE]}
      BY <1>2 DEF CompensationInstalls, CompensationInstallFails, Installs, InstallFails,
                 GoTo, AfterOldTable
    <2>2. op'.kind = op.kind /\ op'.saved = op.saved
      BY <2>1, OpKept
    <2>3. Settled'
      BY <2>1, DurableTable
    <2> QED BY <2>1, <2>2, <2>3, DurableGoesOn
  <1>3. CASE CompensationDone
    <2>1. pc = "comp_done" /\ pc' = "idle" /\ op' = NoOp /\ UNCHANGED <<rules, mem, disk>>
      BY <1>3 DEF CompensationDone, Return
    <2>2. Settled'
      BY <2>1, DurableFile
    <2> QED BY <2>1, <2>2, DurableReturn
  <1>4. CASE IntegrityFailureLocked
    <2>1. /\ pc = "comp_done" /\ pc' = "rec_program" /\ op'.kind = "reconcile"
          /\ mem' = Quarantined(mem) /\ UNCHANGED <<rules, disk>>
      BY <1>4, NoOpKind DEF IntegrityFailureLocked
    <2>2. mem'.art = mem.art
      BY <1>0, <2>1, ArtKept
    <2>3. Settled'
      BY <2>1, <2>2, DurableFile
    <2> QED BY <2>1, <2>3, DurableOver
  <1> QED BY <1>1, <1>2, <1>3, <1>4 DEF CompensationStep

-----------------------------------------------------------------------------
\* Deactivation

LEMMA DurableDeactivates ==
    ASSUME TypeOK, DurableInv, NEW a \in Artifacts, DeactivateForNewConnections(a)
    PROVE  DurableInv'
  <1>1. /\ pc = "idle" /\ pc' = "deact_persist" /\ mem' = Deactivated(mem) /\ UNCHANGED <<rules, disk>>
        /\ op'.kind = "deactivate" /\ op'.saved = mem
    BY DEF DeactivateForNewConnections, MayRequest, Idle, NoOp, kernelVars
  <1>2. mem'.art = mem.art
    BY <1>1, StateTypes, ArtKept
  <1>3. Settled'
    BY <1>1, <1>2, DurableFile DEF Unsettled, Ends
  <1>4. SavedRecorded' /\ StepOfOperation'
    BY <1>1, <1>2 DEF SavedRecorded, StepOfOperation
  <1> QED BY <1>1, <1>3, <1>4, SettledAfter DEF Unsettled

LEMMA DurableDeactivateStep ==
    ASSUME TypeOK, DurableInv, DeactivateStep
    PROVE  DurableInv'
  <1> USE DEF Unsettled, Ends, ActivationPcs, ClaimPcs, DeactivationPcs, EarlyPcs, kernelVars
  <1>1. CASE DeactivatePersists
    <2>1. /\ pc = "deact_persist" /\ pc' = "deact_program" /\ UNCHANGED <<rules, mem, op>>
          /\ disk' \in {disk, mem}
      BY <1>1 DEF DeactivatePersists, Persists, GoTo
    <2>2. Settled'
      BY <2>1, DurableFile
    <2> QED BY <2>1, <2>2, DurableGoesOn, OperationKnown
  <1>2. CASE DeactivatePersistFails
    <2>1. /\ pc = "deact_persist" /\ pc' = "idle" /\ op' = NoOp /\ rules' = rules
          /\ disk' \in {disk, mem} /\ mem' = [Restored EXCEPT !.unsafe = MarkUnsafe(mem).unsafe]
      BY <1>2 DEF DeactivatePersistFails, PersistFails, Return
    <2>2. mem'.art = mem.art
      BY <2>1, RestoredArt, OperationKnown
    <2>3. Settled'
      BY <2>1, <2>2, DurableFile
    <2> QED BY <2>1, <2>3, DurableReturn
  <1>3. CASE DeactivateInstalls
    <2>1. /\ pc = "deact_program" /\ pc' = "idle" /\ op' = NoOp /\ UNCHANGED <<mem, disk>>
          /\ rules' = Program(mem, 0, FALSE)
      BY <1>3 DEF DeactivateInstalls, Installs, Return
    <2>2. Settled'
      BY <2>1, DurableTable
    <2> QED BY <2>1, <2>2, DurableReturn
  <1>4. CASE DeactivateInstallFails
    <2>1. /\ pc = "deact_program" /\ pc' = "comp_program" /\ UNCHANGED <<op, disk>>
          /\ rules' \in {rules, Program(mem, 0, FALSE)} /\ mem' = Restored
      BY <1>4 DEF DeactivateInstallFails, InstallFails, GoTo
    <2>2. mem'.art = mem.art
      BY <2>1, RestoredArt, OperationKnown
    <2>3. Settled'
      BY <2>1, <2>2, DurableTable
    <2> QED BY <2>1, <2>2, <2>3, DurableGoesOn
  <1> QED BY <1>1, <1>2, <1>3, <1>4 DEF DeactivateStep

-----------------------------------------------------------------------------
\* Drain and garbage collection

LEMMA DurableDrains ==
    ASSUME TypeOK, DurableInv, \E c \in Clients : DrainFinish(c) \/ RollbackCountFails(c)
    PROVE  DurableInv'
  <1> USE DEF Unsettled, Ends, ActivationPcs, ClaimPcs, DeactivationPcs, EarlyPcs, kernelVars
  <1>1. PICK c \in Clients : DrainFinish(c) \/ RollbackCountFails(c)
    OBVIOUS
  <1>2. mem'.art = mem.art
    <2>1. CASE DrainFinish(c)
      <3>1. mem' \in {mem, [mem EXCEPT !.phase = [@ EXCEPT ![pend[c].id] = DrainPhase(pend[c])]]}
        BY <2>1 DEF DrainFinish
      <3> QED BY <3>1, StateTypes DEF States
    <2>2. CASE RollbackCountFails(c)
      BY <2>2, StateTypes, ArtKept DEF RollbackCountFails
    <2> QED BY <1>1, <2>1, <2>2
  <1>3. /\ pc = "idle" /\ UNCHANGED <<rules, disk>>
        /\ \/ UNCHANGED <<pc, op>>
           \/ pc' = "drain_persist" /\ op'.kind = "drain"
           \/ pc' = "comp_done" /\ op'.kind = "rollback"
    BY <1>1, NoOpKind DEF DrainFinish, RollbackCountFails, Idle, NoOp
  <1>4. Settled'
    BY <1>2, <1>3, DurableFile
  <1>5. CASE UNCHANGED <<pc, op>>
    BY <1>2, <1>3, <1>4, <1>5, DurableGoesOn
  <1>6. CASE ~ UNCHANGED <<pc, op>>
    BY <1>3, <1>4, <1>6, DurableOver
  <1> QED BY <1>5, <1>6

\* The collection forgets a generation that its failure would bring back.
LEMMA DurableGcFinish ==
    ASSUME TypeOK, DurableInv, NEW c \in Clients, GcFinish(c)
    PROVE  DurableInv'
  <1> USE DEF Unsettled, Ends, ActivationPcs, ClaimPcs, DeactivationPcs, EarlyPcs, kernelVars
  <1> DEFINE i == pend[c].id
  <1>1. pc = "idle" /\ UNCHANGED <<rules, disk, raising, reconciling>>
    BY DEF GcFinish, Idle, signalVars
  <1>2. CASE UNCHANGED <<mem, pc, op>>
    BY <1>1, <1>2, DurableKept
  <1>3. CASE /\ pc' = "gc_program"
             /\ op' = [NoOp EXCEPT !.kind = "gc", !.id = i, !.saved = mem]
             /\ mem' = [Without(mem, i) EXCEPT !.previous = IF @ = i THEN 0 ELSE @]
             /\ Unchanged(pend[c])
    <2>1. op'.kind = "gc" /\ op'.saved = mem
      BY <1>3 DEF NoOp
    <2>2. mem \in States /\ mem.art \in [Ids -> OrNone(Artifacts)]
      BY StateTypes, StateParts
    <2>3. \A j \in Ids : mem'.art[j] \in {None, mem.art[j]}
      <3> HIDE DEF i
      <3>1. mem'.art = [mem.art EXCEPT ![i] = None]
        BY <1>3, <2>2 DEF Without, States
      <3> QED BY <3>1, <2>2
    <2>4. Settled
      BY <1>1, SettledBefore
    <2>5. Known(op.saved.art)' /\ Recorded(op.saved.art, {})' /\ Recorded(mem.art, {})'
      BY <1>1, <2>1, <2>3, <2>4 DEF Settled, Known, Recorded
    <2>6. DurableCoverage'
      BY <2>5 DEF DurableCoverage, Known, Recorded
    <2>7. MemoryRecorded' /\ TableKnown' /\ SavedRecorded' /\ StepOfOperation'
      BY <1>3, <2>1, <2>3, <2>5
         DEF MemoryRecorded, Fresh, TableKnown, SavedRecorded, StepOfOperation
    <2> QED BY <2>6, <2>7 DEF DurableInv
  <1> QED BY <1>2, <1>3 DEF GcFinish, MayCollect

LEMMA DurableCollectStep ==
    ASSUME TypeOK, DurableInv, CollectStep
    PROVE  DurableInv'
  <1> USE DEF Unsettled, Ends, ActivationPcs, ClaimPcs, DeactivationPcs, EarlyPcs, kernelVars
  <1>0. mem \in States
    BY StateTypes
  <1>1. CASE DrainPersists \/ DrainPersistFails
    <2>1. /\ pc \in {"drain_persist", "gc_persist"} /\ pc' = "idle" /\ op' = NoOp /\ rules' = rules
          /\ disk' \in {disk, mem} /\ mem' \in {mem, MarkUnsafe(mem)}
      BY <1>1 DEF DrainPersists, DrainPersistFails, Persists, PersistFails, Return
    <2>2. mem'.art = mem.art
      BY <1>0, <2>1, ArtKept
    <2>3. Settled'
      BY <2>1, <2>2, DurableFile
    <2> QED BY <2>1, <2>3, DurableReturn
  <1>2. CASE pc = "gc_program"
    <2>1. /\ Known(op.saved.art) /\ Recorded(op.saved.art, {}) /\ Recorded(mem.art, {})
          /\ \A i \in Ids : mem.art[i] \in {None, op.saved.art[i]}
      BY <1>2 DEF DurableInv, TableKnown, MemoryRecorded, Fresh, SavedRecorded
    <2>2. \A i \in Ids : Program(mem, mem.active, FALSE).scope[i] \in {None, mem.art[i]}
      BY TableScope
    <2>3. CASE GcInstalls
      <3>1. /\ pc' \in {"gc_persist", "restore"} /\ UNCHANGED <<mem, op, disk>>
            /\ rules' = Program(mem, mem.active, FALSE)
        BY <2>3 DEF GcInstalls, Installs, GoTo, AfterCollection
      <3>2. Settled'
        BY <2>1, <2>2, <3>1 DEF Settled, Known, Recorded
      <3> QED BY <3>1, <3>2, DurableGoesOn
    <2>4. CASE GcInstallFails
      <3>1. /\ pc' = "comp_program" /\ UNCHANGED <<op, disk>> /\ mem' = Restored
            /\ rules' \in {rules, Program(mem, mem.active, FALSE)}
        BY <2>4 DEF GcInstallFails, InstallFails, GoTo
      <3>2. mem'.art = op.saved.art
        BY <3>1, RestoredArt
      <3>3. Settled'
        BY <2>1, <2>2, <3>1, <3>2 DEF Settled, Known, Recorded
      <3>4. SavedRecorded' /\ StepOfOperation'
        BY <3>1, <3>2, DurableParts DEF SavedRecorded, StepOfOperation
      <3> QED BY <3>1, <3>3, <3>4, SettledAfter
    <2>5. CASE DrainPersists \/ DrainPersistFails
      BY <1>1, <2>5
    <2> QED BY <2>3, <2>4, <2>5 DEF CollectStep
  <1> QED BY <1>1, <1>2 DEF CollectStep, GcInstalls, GcInstallFails

-----------------------------------------------------------------------------
\* Rollback to an artifact that was not retained

LEMMA DurableRollbackFinish ==
    ASSUME TypeOK, DurableInv, NEW c \in Clients, RollbackFinish(c)
    PROVE  DurableInv'
  <1> DEFINE r == pend[c]
             id == NextGeneration(mem, Reserve(mem, r.ids))
  <1>1. pc = "idle" /\ UNCHANGED <<rules, disk, raising, reconciling>>
    BY DEF RollbackFinish, Idle, kernelVars, signalVars
  <1>2. \/ UNCHANGED <<mem, pc, op>>
        \/ \E i : ActivateLocked(i, TRUE)
        \/ /\ id # 0 /\ mem' = Prepared(mem, id, r.art) /\ pc' = "rollback_persist"
           /\ op' = [NoOp EXCEPT !.kind = "rollback", !.id = id]
    BY DEF RollbackFinish
  <1>3. CASE UNCHANGED <<mem, pc, op>>
    BY <1>1, <1>3, DurableKept
  <1>4. CASE \E i : ActivateLocked(i, TRUE)
    BY <1>1, <1>4, DurableActivateLocked
  <1>5. CASE /\ id # 0 /\ mem' = Prepared(mem, id, r.art) /\ pc' = "rollback_persist"
             /\ op' = [NoOp EXCEPT !.kind = "rollback", !.id = id]
    <2>1. id \in Ids /\ mem.art[id] = None
      BY <1>5, NextGenerationFree
    <2>2. op'.id = id /\ op'.kind = "rollback"
      BY <1>5 DEF NoOp
    <2> HIDE DEF id, r
    <2> QED BY <1>1, <1>5, <2>1, <2>2, DurablePrepared
  <1> QED BY <1>2, <1>3, <1>4, <1>5

-----------------------------------------------------------------------------
\* The reconciler

LEMMA DurableReconcileBegin ==
    ASSUME TypeOK, DurableInv, ReconcileBegin
    PROVE  DurableInv'
  <1> USE DEF Unsettled, Ends, ActivationPcs, ClaimPcs, DeactivationPcs, EarlyPcs, kernelVars
  <1>1. /\ pc \in {"idle", "close_rules", "exit"} /\ reconciling # "no" /\ pc' = "rec_program"
        /\ mem' = Quarantined(mem) /\ UNCHANGED <<rules, disk>>
    BY DEF ReconcileBegin
  <1>2. op'.kind = "reconcile"
    BY OpKept DEF ReconcileBegin
  <1>3. mem'.art = mem.art
    BY <1>1, StateTypes, ArtKept
  <1>4. Settled
    BY <1>1, SettledBefore
  <1>5. Settled'
    BY <1>1, <1>3, <1>4, SettledFile, StateTypes
  <1> QED BY <1>1, <1>2, <1>5, DurableOver

LEMMA DurableReconcileStep ==
    ASSUME TypeOK, DurableInv, ReconcileStep
    PROVE  DurableInv'
  <1> USE DEF Unsettled, Ends, ActivationPcs, ClaimPcs, DeactivationPcs, EarlyPcs, kernelVars
  <1>0. mem \in States
    BY StateTypes
  <1>1. CASE ReconcileInstalls \/ ReconcileInstallFails
    <2>1. /\ pc \in {"rec_program", "rec_remove"} /\ pc' \in {"rec_remove", "rec_persist"}
          /\ UNCHANGED <<op, mem, disk>> /\ rules' \in {rules, NoRules, Program(mem, 0, FALSE)}
      BY <1>1 DEF ReconcileInstalls, ReconcileInstallFails, Installs, InstallFails, GoTo
    <2>2. Settled'
      BY <2>1, DurableTable
    <2> QED BY <2>1, <2>2, DurableGoesOn
  <1>2. CASE ReconcilePersists \/ ReconcilePersistFails
    <2>1. /\ pc = "rec_persist" /\ rules' = rules /\ disk' \in {disk, mem}
          /\ mem' \in {mem, MarkUnsafe(mem)} /\ ReconcileReturn
      BY <1>2 DEF ReconcilePersists, ReconcilePersistFails, Persists, PersistFails
    <2>2. mem'.art = mem.art
      BY <1>0, <2>1, ArtKept
    <2>3. Settled'
      BY <2>1, <2>2, DurableFile
    <2>4. CASE op.back = "idle"
      BY <2>1, <2>3, <2>4, DurableReturn DEF ReconcileReturn
    <2>5. CASE op.back # "idle"
      <3>1. pc' \in {"close_rules", "exit"} /\ op' = [op EXCEPT !.kind = "close", !.back = "idle"]
        BY <2>1, <2>5 DEF ReconcileReturn, TypeOK, ControlTypeOK, Ops
      <3>2. op'.kind = "close"
        BY <3>1, OpKept
      <3> QED BY <2>3, <3>1, <3>2, DurableOver
    <2> QED BY <2>4, <2>5
  <1> QED BY <1>1, <1>2 DEF ReconcileStep

-----------------------------------------------------------------------------
\* Startup

\* A start that has only just begun has nothing in memory yet.
LEMMA DurableEarly ==
    ASSUME Recorded(mem.art, {})', DurableCoverage', op'.kind \notin {"activate", "deactivate"},
           pc' \in {"down", "start_remove", "close_rules", "exit"}, ~ raising', reconciling' = "no",
           pc' \in {"down", "start_remove"} => \A i \in Ids : mem'.art[i] = None,
           pc' = "start_remove" => op'.kind = "start"
    PROVE  DurableInv'
  BY DEF DurableInv, MemoryRecorded, Fresh, TableKnown, SavedRecorded, StepOfOperation

\* A start goes on once the predecessor's table is gone.
LEMMA DurableStarted ==
    ASSUME DurableInv, Settled', pc \in {"start_load", "start_audit", "start_persist"}, op'.kind = op.kind,
           pc' \in {"start_audit", "start_persist", "offload", "start_boundary", "start_program"}
    PROVE  DurableInv'
  <1>1. op'.kind = "start"
    BY DEF DurableInv, StepOfOperation
  <1>2. SavedRecorded' /\ StepOfOperation'
    BY <1>1 DEF SavedRecorded, StepOfOperation
  <1> QED BY <1>2, SettledAfter DEF Unsettled

LEMMA DurableStartStep ==
    ASSUME TypeOK, DurableInv, StartStep
    PROVE  DurableInv'
  <1> USE DEF Unsettled, Ends, ActivationPcs, ClaimPcs, DeactivationPcs, EarlyPcs, kernelVars
  <1>0. mem \in States
    BY StateTypes
  <1>1. CASE StartRemoves
    <2>1. /\ pc = "start_remove" /\ pc' = "start_load" /\ UNCHANGED <<op, mem, disk>> /\ rules' = NoRules
      BY <1>1 DEF StartRemoves, Installs, GoTo
    <2>2. \A i \in Ids : mem.art[i] = None /\ rules'.scope[i] = None
      BY <2>1, NoRulesScope DEF DurableInv, StepOfOperation
    <2>3. Settled'
      BY <2>1, <2>2 DEF Settled, Known, Recorded
    <2>4. SavedRecorded' /\ StepOfOperation'
      BY <2>1, <2>2, DurableParts DEF SavedRecorded, StepOfOperation
    <2> QED BY <2>1, <2>3, <2>4, SettledAfter
  <1>2. CASE StartLoads
    <2>1. /\ pc = "start_load" /\ pc' = "start_audit" /\ UNCHANGED <<rules, disk>>
          /\ op' = [op EXCEPT !.loaded = disk # NoFile]
          /\ mem' = IF disk = NoFile THEN mem ELSE disk
      BY <1>2 DEF StartLoads
    <2>2. \A i \in Ids : mem.art[i] = None /\ rules.scope[i] = None
      BY <2>1 DEF DurableInv, StepOfOperation
    <2>3. Settled'
      BY <2>1, <2>2 DEF Settled, Known, Recorded
    <2>4. op'.kind = op.kind
      BY <2>1, OpKept
    <2> QED BY <2>1, <2>3, <2>4, DurableStarted
  <1>3. CASE StartQuarantines \/ StartQuarantineFails
    <2>1. /\ pc = "start_load" /\ rules' = rules
          /\ \/ pc' = "start_audit" /\ op' = op
             \/ pc' = "close_rules" /\ op' = [NoOp EXCEPT !.kind = "close"]
          /\ \/ \E b : mem' = [EmptyState EXCEPT !.unsafe = TRUE, !.offloads = b]
             \/ \E b : mem' = [mem EXCEPT !.offloads = b]
      BY <1>3 DEF StartQuarantines, StartQuarantineFails, Abandon, GoTo
    <2>2. \A i \in Ids : mem.art[i] = None /\ rules.scope[i] = None
      BY <2>1 DEF DurableInv, StepOfOperation
    <2>3. \A i \in Ids : mem'.art[i] = None
      <3>1. CASE \E b : mem' = [EmptyState EXCEPT !.unsafe = TRUE, !.offloads = b]
        BY <3>1 DEF EmptyState
      <3>2. CASE \E b : mem' = [mem EXCEPT !.offloads = b]
        BY <1>0, <2>2, <3>2, ArtKept
      <3> QED BY <2>1, <3>1, <3>2
    <2>4. Settled'
      BY <2>1, <2>2, <2>3 DEF Settled, Known, Recorded
    <2> QED BY <2>1, <2>4, DurableStarted, DurableOver, NoOpKind
  <1>4. CASE StartAudits \/ StartAuditFails \/ StartPersists \/ StartPersistFails
    <2>1. /\ pc \in {"start_audit", "start_persist"} /\ rules' = rules /\ disk' \in {disk, mem}
      BY <1>4 DEF StartAudits, StartAuditFails, StartPersists, StartPersistFails, Persists, PersistFails
    <2>2. mem'.art = mem.art
      <3>1. CASE StartAudits
        <4>1. [mem EXCEPT !.unsafe = TRUE, !.active = 0] \in States
          BY AuditedType
        <4>2. [mem EXCEPT !.unsafe = TRUE, !.active = 0].art = mem.art
          BY <1>0 DEF States
        <4>3. PICK m \in {mem, [mem EXCEPT !.unsafe = TRUE, !.active = 0]} : mem' \in {m, Quarantined(m)}
          BY <3>1 DEF StartAudits
        <4>4. m \in States /\ m.art = mem.art
          BY <1>0, <4>1, <4>2
        <4>5. Quarantined(m).art = m.art
          BY <4>4, ArtKept
        <4> QED BY <4>3, <4>4, <4>5
      <3>2. CASE StartAuditFails
        BY <1>0, <3>2 DEF StartAuditFails, States
      <3>3. CASE StartPersists \/ StartPersistFails
        BY <1>0, <3>3, ArtKept DEF StartPersists, StartPersistFails
      <3> QED BY <1>4, <3>1, <3>2, <3>3
    <2>3. \/ pc' = "start_persist" /\ op' \in {op, [op EXCEPT !.audited = TRUE]}
          \/ pc' \in {"offload", "start_boundary", "start_program"} /\ op' = op /\ pc = "start_persist"
          \/ pc' = "close_rules" /\ op' = [NoOp EXCEPT !.kind = "close"]
      BY <1>4 DEF StartAudits, StartAuditFails, StartPersists, StartPersistFails, GoTo, StartPath, Abandon
    <2>4. Settled'
      BY <2>1, <2>2, DurableFile
    <2>5. [op EXCEPT !.audited = TRUE].kind = op.kind
      BY OpKept
    <2> QED BY <2>1, <2>3, <2>4, <2>5, DurableStarted, DurableOver, NoOpKind
  <1>5. CASE StartInstallsBoundary \/ StartFlips \/ StartPrograms \/ StartProgramsUngated
    <2>1. /\ pc \in {"start_boundary", "start_flip", "start_program"} /\ UNCHANGED <<mem, disk>>
          /\ rules' \in {Program(mem, 0, TRUE), Program(mem, mem.active, FALSE)}
          /\ \/ pc' \in {"start_sweep", "restore"} /\ op' = op
             \/ pc' = "idle" /\ op' = NoOp
      BY <1>5 DEF StartInstallsBoundary, StartFlips, StartPrograms, StartProgramsUngated,
                 Installs, GoTo, Return
    <2>2. Settled'
      BY <2>1, DurableTable
    <2>3. CASE pc' = "idle" /\ op' = NoOp
      BY <2>2, <2>3, DurableReturn
    <2>4. CASE pc' \in {"start_sweep", "restore"} /\ op' = op
      BY <2>1, <2>2, <2>4, DurableGoesOn
    <2> QED BY <2>1, <2>3, <2>4
  <1>6. CASE StartFails
    <2>1. /\ pc' = "close_rules" /\ op' = [NoOp EXCEPT !.kind = "close"]
          /\ UNCHANGED <<mem, disk, raising, reconciling>>
      BY <1>6 DEF StartFails, Abandon, signalVars
    <2>2. \/ /\ pc \in {"start_boundary", "start_program", "start_flip", "start_sweep"}
             /\ rules' \in {rules, Program(mem, 0, TRUE), Program(mem, mem.active, FALSE)}
          \/ pc = "start_remove" /\ rules' \in {rules, NoRules}
      BY <1>6 DEF StartFails, InstallFails
    <2>3. CASE pc # "start_remove"
      <3>1. Settled'
        BY <2>1, <2>2, <2>3, DurableTable
      <3> QED BY <2>1, <3>1, DurableOver, NoOpKind
    <2>4. CASE pc = "start_remove"
      <3>1. Recorded(mem.art, {})'
        BY <2>1, <2>4 DEF DurableInv, StepOfOperation, Recorded
      <3>2. DurableCoverage'
        BY <2>1, <2>2, <2>4, NoRulesScope DEF DurableInv, DurableCoverage
      <3>3. op'.kind = "close"
        BY <2>1, NoOpKind
      <3>4. CASE ~ raising /\ reconciling = "no"
        BY <2>1, <3>1, <3>2, <3>3, <3>4, DurableEarly
      <3>5. CASE raising \/ reconciling # "no"
        <4>1. Settled
          BY <2>4, <3>5, SettledBefore
        <4>2. Settled'
          BY <2>1, <2>2, <2>4, <4>1, NoRulesScope, SettledTable
        <4> QED BY <2>1, <3>3, <4>2, DurableOver
      <3> QED BY <3>4, <3>5
    <2> QED BY <2>3, <2>4
  <1> QED BY <1>1, <1>2, <1>3, <1>4, <1>5, <1>6 DEF StartStep

-----------------------------------------------------------------------------
\* Shutdown, crash and boot

LEMMA DurableGone ==
    ASSUME DurableInv, ProcessGone
    PROVE  DurableInv'
  <1>1. /\ pc' = "down" /\ op' = NoOp /\ mem' = EmptyState /\ raising' = FALSE /\ reconciling' = "no"
        /\ UNCHANGED <<rules, disk>>
    BY DEF ProcessGone, kernelVars
  <1>2. \A i \in Ids : mem'.art[i] = None
    BY <1>1 DEF EmptyState
  <1>3. Recorded(mem.art, {})'
    BY <1>2 DEF Recorded
  <1>4. DurableCoverage'
    BY <1>1 DEF DurableInv, DurableCoverage
  <1> QED BY <1>1, <1>2, <1>3, <1>4, NoOpKind, DurableEarly

LEMMA DurableCloses ==
    ASSUME TypeOK, DurableInv, CloseRemoves \/ CloseFails
    PROVE  DurableInv'
  <1> USE DEF Unsettled, Ends, ActivationPcs, ClaimPcs, DeactivationPcs, EarlyPcs, kernelVars
  <1>1. /\ pc = "close_rules" /\ UNCHANGED <<mem, disk, raising, reconciling>>
        /\ op' \in {op, [op EXCEPT !.failed = TRUE]}
    BY DEF CloseRemoves, CloseFails, GoTo, signalVars
  <1>2. op'.kind = op.kind /\ op'.saved = op.saved
    BY <1>1, OpKept
  <1>3. Recorded(mem.art, {})
    BY <1>1 DEF DurableInv, MemoryRecorded, Fresh
  <1>4. CASE CloseRemoves
    <2>1. pc' = "restore" /\ rules' = NoRules
      BY <1>4 DEF CloseRemoves, Installs, GoTo
    <2>2. Settled'
      BY <1>1, <1>3, <2>1, NoRulesScope DEF Settled, Known, Recorded
    <2> QED BY <1>1, <1>2, <2>1, <2>2, DurableGoesOn
  <1>5. CASE CloseFails
    <2>1. pc' \in {"close_rules", "exit"} /\ rules' \in {rules, NoRules}
      BY <1>5 DEF CloseFails, InstallFails, GoTo
    <2>2. SavedRecorded' /\ StepOfOperation'
      BY <1>1, <1>2, <2>1, OperationGoesOn, DurableParts
    <2>3. DurableCoverage' /\ MemoryRecorded' /\ TableKnown'
      BY <1>1, <1>3, <2>1, NoRulesScope
         DEF DurableInv, DurableCoverage, MemoryRecorded, TableKnown, Fresh, Known, Recorded
    <2> QED BY <2>2, <2>3 DEF DurableInv
  <1> QED BY <1>4, <1>5

LEMMA DurableShutdown ==
    ASSUME TypeOK, DurableInv, Shutdown
    PROVE  DurableInv'
  <1>1. /\ pc = "idle" /\ pc' = "close_rules" /\ op' = [NoOp EXCEPT !.kind = "close"]
        /\ UNCHANGED <<rules, mem, disk>>
    BY DEF Shutdown, Abandon, Idle, kernelVars
  <1>2. Settled'
    BY <1>1, DurableFile DEF Unsettled, Ends
  <1> QED BY <1>1, <1>2, DurableOver, NoOpKind
       DEF Unsettled, ActivationPcs, ClaimPcs, DeactivationPcs, EarlyPcs

LEMMA DurableBoot ==
    ASSUME DurableInv, Boot
    PROVE  DurableInv'
  <1>1. /\ pc = "down" /\ pc' = "start_remove" /\ op' = [NoOp EXCEPT !.kind = "start"]
        /\ UNCHANGED <<rules, mem, disk, raising, reconciling>>
    BY DEF Boot, kernelVars, signalVars
  <1>2. \A i \in Ids : mem'.art[i] = None
    BY <1>1 DEF DurableInv, StepOfOperation
  <1>3. Recorded(mem.art, {})' /\ DurableCoverage'
    BY <1>1, <1>2 DEF DurableInv, Recorded, DurableCoverage
  <1>4. op'.kind = "start"
    BY <1>1, NoOpKind
  <1>5. SavedRecorded' /\ StepOfOperation'
    BY <1>1, <1>2, <1>4 DEF SavedRecorded, StepOfOperation
  <1>6. MemoryRecorded' /\ TableKnown'
    BY <1>1, <1>3 DEF DurableInv, MemoryRecorded, TableKnown, Fresh, Known
  <1> QED BY <1>3, <1>5, <1>6 DEF DurableInv

-----------------------------------------------------------------------------
\* The theorem

LEMMA DurableInit == Init => DurableInv
  <1> SUFFICES ASSUME Init PROVE DurableInv
    OBVIOUS
  <1>1. pc = "down" /\ op = NoOp /\ ~ raising /\ reconciling = "no"
    BY DEF Init
  <1>2. \A i \in Ids : mem.art[i] = None /\ rules.scope[i] = None
    BY DEF Init, KernelInit, EmptyState, NoRules
  <1> QED BY <1>1, <1>2, NoOpKind
       DEF DurableInv, DurableCoverage, MemoryRecorded, TableKnown, SavedRecorded,
           StepOfOperation, Fresh, Recorded

LEMMA DurableNext ==
    ASSUME TypeOK, DurableInv, [Next]_vars
    PROVE  DurableInv'
  <1>1. CASE Kernel \/ UNCHANGED vars
    BY <1>1, DurableKernel
  <1>2. CASE Request
    BY <1>2, DurablePrepare, DurableActivates, DurableDeactivates, DurableLooks DEF Request
  <1>3. CASE Pending
    BY <1>3, DurableLooks, DurableDrains, DurableGcFinish, DurableRollbackFinish DEF Pending
  <1>4. CASE PrepareStep
    BY <1>4, DurablePrepareRecorded, DurablePrepareFails DEF PrepareStep
  <1>5. CASE ActivateStep \/ OffloadStep \/ CompensationStep
    BY <1>5, DurableActivateStep, DurableOffloadStep, DurableCompensationStep
  <1>6. CASE DeactivateStep \/ CollectStep \/ ReconcileStep \/ StartStep
    BY <1>6, DurableDeactivateStep, DurableCollectStep, DurableReconcileStep, DurableStartStep
  <1>7. CASE CloseStep \/ Crash
    BY <1>7, DurableCloses, DurableGone DEF CloseStep, Exit, Crash
  <1>8. CASE IntegrityFailure \/ ReconcileStart \/ ReconcileEnd
    BY <1>8, DurableRaises
  <1>9. CASE ReconcileBegin \/ Boot \/ Shutdown
    BY <1>9, DurableReconcileBegin, DurableBoot, DurableShutdown
  <1> QED BY <1>1, <1>2, <1>3, <1>4, <1>5, <1>6, <1>7, <1>8, <1>9 DEF Next, LockedStep

\* After a crash at any instant, between any two calls and however many of
\* them failed, the state file rebuilds the engine of every generation that
\* the table assigns or queues (activateLocked, persistLocked, loadLocked).
THEOREM StateFileSuffices == Spec => []DurableCoverage
  <1>1. Init => DurableInv
    BY DurableInit
  <1>2. TypeOK /\ DurableInv /\ [Next]_vars => DurableInv'
    BY DurableNext
  <1>3. DurableInv => DurableCoverage
    BY DEF DurableInv
  <1> QED BY <1>1, <1>2, <1>3, TypeCorrect, PTL DEF Spec

-----------------------------------------------------------------------------
\* steeringInstalled

LEMMA HonestInstalls ==
    ASSUME NEW r, Installs(r)
    PROVE  SteeringHonest'
  BY DEF Installs, SteeringHonest

LEMMA HonestFails ==
    ASSUME NEW r, InstallFails(r)
    PROVE  SteeringHonest'
  BY DEF InstallFails, SteeringHonest

LEMMA HonestKept ==
    ASSUME SteeringHonest, UNCHANGED <<rules, installed>>
    PROVE  SteeringHonest'
  BY DEF SteeringHonest

LEMMA HonestGone ==
    ASSUME ProcessGone
    PROVE  SteeringHonest'
  BY DEF ProcessGone, SteeringHonest

LEMMA HonestStep ==
    ASSUME SteeringHonest, [Next]_vars
    PROVE  SteeringHonest'
  <1> USE DEF kernelVars
  <1>1. CASE Kernel
    BY <1>1, HonestKept
       DEF Kernel, KernelNext, Syn, FlowEnd, FlowIdle, controllerVars
  <1>2. CASE Request
    BY <1>2, HonestKept
       DEF Request, Prepare, PrepareGateFails, ActivateForNewConnections, Rollback,
           ActivateFrame, DeactivateForNewConnections, DrainBegin, GcList, RollbackBegin,
           RequestFrame
  <1>3. CASE Pending
    BY <1>3, HonestKept
       DEF Pending, GcBegin, CountBegin, CountSucceeds, CountFails, RollbackCountFails, RequestFrame,
           DrainFinish, GcFinish, RollbackFinish
  <1>4. CASE PrepareStep
    BY <1>4, HonestKept DEF PrepareStep, PrepareInterrupted, PreparePersists, PreparePersistFails
  <1>5. CASE ActivateStep
    <2>1. CASE StageInstalls \/ FlipInstalls
      BY <2>1, HonestInstalls DEF StageInstalls, FlipInstalls
    <2>2. CASE TransactionFails
      BY <2>2, HonestFails DEF TransactionFails
    <2>3. CASE RollbackActivate \/ ActivatePersists \/ ActivatePersistFails
               \/ SweepSucceeds \/ SweepFails \/ ActivateDone
      BY <2>3, HonestKept
         DEF RollbackActivate, ActivateFrame, ActivatePersists, ActivatePersistFails,
             SweepSucceeds, SweepFails, ActivateDone
    <2> QED BY <1>5, <2>1, <2>2, <2>3 DEF ActivateStep
  <1>6. CASE OffloadStep
    BY <1>6, HonestKept
       DEF OffloadStep, OffloadsDown, OffloadsCapture, OffloadsCallFails, ClaimPersists,
           ClaimPersistFails, DisableSucceeds, DisableFails, UnclaimPersists,
           UnclaimPersistFails, RestoreNothing, RestoreCall, RestorePersists,
           RestorePersistFails
  <1>7. CASE CompensationStep
    <2>1. CASE CompensationInstalls
      BY <2>1, HonestInstalls DEF CompensationInstalls
    <2>2. CASE CompensationInstallFails
      BY <2>2, HonestFails DEF CompensationInstallFails
    <2>3. CASE UnwindPersists \/ CompensationPersists \/ CompensationPersistFails
               \/ CompensationDone \/ IntegrityFailureLocked
      BY <2>3, HonestKept
         DEF UnwindPersists, CompensationPersists, CompensationPersistFails,
             CompensationDone, IntegrityFailureLocked
    <2> QED BY <1>7, <2>1, <2>2, <2>3 DEF CompensationStep
  <1>8. CASE DeactivateStep \/ CollectStep
    <2>1. CASE DeactivateInstalls \/ GcInstalls
      BY <2>1, HonestInstalls DEF DeactivateInstalls, GcInstalls
    <2>2. CASE DeactivateInstallFails \/ GcInstallFails
      BY <2>2, HonestFails DEF DeactivateInstallFails, GcInstallFails
    <2>3. CASE DeactivatePersists \/ DeactivatePersistFails \/ DrainPersists \/ DrainPersistFails
      BY <2>3, HonestKept
         DEF DeactivatePersists, DeactivatePersistFails, DrainPersists, DrainPersistFails
    <2> QED BY <1>8, <2>1, <2>2, <2>3 DEF DeactivateStep, CollectStep
  <1>9. CASE ReconcileStep
    <2>1. CASE ReconcileInstalls
      BY <2>1, HonestInstalls DEF ReconcileInstalls
    <2>2. CASE ReconcileInstallFails
      BY <2>2, HonestFails DEF ReconcileInstallFails
    <2>3. CASE ReconcilePersists \/ ReconcilePersistFails
      BY <2>3, HonestKept DEF ReconcilePersists, ReconcilePersistFails
    <2> QED BY <1>9, <2>1, <2>2, <2>3 DEF ReconcileStep
  <1>10. CASE StartStep
    <2>1. CASE StartRemoves \/ StartInstallsBoundary \/ StartFlips \/ StartPrograms
      BY <2>1, HonestInstalls DEF StartRemoves, StartInstallsBoundary, StartFlips, StartPrograms
    <2>2. CASE StartProgramsUngated
      BY <2>2 DEF StartProgramsUngated, SteeringHonest
    <2>3. CASE StartFails
      BY <2>3, HonestFails, HonestKept DEF StartFails
    <2>4. CASE StartLoads \/ StartQuarantines \/ StartQuarantineFails \/ StartAudits
               \/ StartAuditFails \/ StartPersists \/ StartPersistFails
      BY <2>4, HonestKept
         DEF StartLoads, StartQuarantines, StartQuarantineFails, StartAudits,
             StartAuditFails, StartPersists, StartPersistFails
    <2> QED BY <1>10, <2>1, <2>2, <2>3, <2>4 DEF StartStep
  <1>11. CASE CloseStep \/ Crash
    <2>1. CASE CloseRemoves
      BY <2>1, HonestInstalls DEF CloseRemoves
    <2>2. CASE CloseFails
      BY <2>2, HonestFails DEF CloseFails
    <2>3. CASE Exit \/ Crash
      BY <2>3, HonestGone DEF Exit, Crash
    <2> QED BY <1>11, <2>1, <2>2, <2>3 DEF CloseStep
  <1>12. CASE IntegrityFailure \/ ReconcileStart \/ ReconcileBegin \/ ReconcileEnd
              \/ Boot \/ Shutdown
    BY <1>12, HonestKept
       DEF IntegrityFailure, ReconcileStart, ReconcileBegin, ReconcileEnd, Boot, Shutdown
  <1>13. CASE UNCHANGED vars
    BY <1>13, HonestKept DEF vars
  <1> QED
    BY <1>1, <1>2, <1>3, <1>4, <1>5, <1>6, <1>7, <1>8, <1>9, <1>10, <1>11, <1>12, <1>13
       DEF Next, LockedStep

\* steeringInstalled never claims steering the table does not do: it is set by
\* a transaction that was read back, and cleared before one is tried
\* (programModeLocked).
THEOREM SteeringIsHonest == Spec => []SteeringHonest
  <1>1. Init => SteeringHonest
    BY DEF Init, SteeringHonest
  <1>2. SteeringHonest /\ [Next]_vars => SteeringHonest'
    BY HonestStep
  <1> QED BY <1>1, <1>2, PTL DEF Spec

-----------------------------------------------------------------------------
\* Books: what the loader checks of a state

\* Only an artifact with rules of its own is ever assigned.
Assignable(m) == m.active # 0 => m.art[m.active] \notin Inert

Sound(m) == Loadable(m) /\ Assignable(m)

\* A request names an artifact, or a generation that was retained.
Asked ==
    \A c \in Clients :
        /\ pend[c].kind = "rollback" => pend[c].art \in Artifacts
        /\ pend[c].kind \in {"drain", "gc"} => pend[c].id \in Ids

\* Memory, the file and what the operation restores would all load.  The
\* generation that Prepare may still forget is not the assigned one.
LoadInv ==
    /\ Asked
    /\ Sound(mem) /\ Sound(op.saved)
    /\ disk # NoFile => Sound(disk)
    /\ pc \in {"prep_persist", "rollback_persist"} => op.id # mem.active
    /\ pc \in {"rollback_persist", "rollback_activate"} => op.id \in Ids /\ Has(mem, op.id)

\* n has the generations of m, and its assignment or none.
SameBooks(n, m) ==
    /\ n.art = m.art
    /\ n.active = 0 \/ (n.active = m.active /\ n.phase[m.active] = m.phase[m.active])

LEMMA SoundKept ==
    ASSUME NEW m, NEW n, Sound(m), SameBooks(n, m)
    PROVE  Sound(n)
  BY DEF Sound, Loadable, Assignable, SameBooks, Has, Retained, WithinBudgets

LEMMA BooksKept ==
    ASSUME NEW m \in States
    PROVE  /\ SameBooks(m, m)
           /\ SameBooks(MarkUnsafe(m), m)
           /\ SameBooks(Quarantined(m), m)
           /\ SameBooks(Deactivated(m), m)
           /\ \A b : SameBooks([m EXCEPT !.offloads = b], m)
           /\ SameBooks([m EXCEPT !.offloads = TRUE], m)
           /\ SameBooks([m EXCEPT !.offloads = FALSE], m)
           /\ \A b, c : SameBooks([m EXCEPT !.offloads = b, !.unsafe = c], m)
           /\ SameBooks([m EXCEPT !.unsafe = TRUE], m)
           /\ SameBooks([m EXCEPT !.unsafe = TRUE, !.active = 0], m)
           /\ \A p : SameBooks([m EXCEPT !.unsafe = TRUE, !.active = 0, !.phase = p], m)
           /\ \A i, p : i # m.active => SameBooks([m EXCEPT !.phase[i] = p], m)
  BY DEF States, SameBooks, MarkUnsafe, Quarantined, Deactivated

LEMMA SameBooksTransitive ==
    ASSUME NEW l, NEW m, NEW n, SameBooks(n, m), SameBooks(m, l)
    PROVE  SameBooks(n, l)
  BY DEF SameBooks

\* The sets the budgets count are finite.
LEMMA RetainedFinite ==
    ASSUME NEW m
    PROVE  /\ IsFiniteSet(Retained(m)) /\ Cardinality(Retained(m)) \in Nat
           /\ \A S \in SUBSET Retained(m) : IsFiniteSet(S) /\ Cardinality(S) \in Nat
  <1>1. IsFiniteSet(1 .. MaxId)
    BY FS_Interval, SteeringAssumption
  <1>2. \A S \in SUBSET Ids : IsFiniteSet(S) /\ Cardinality(S) \in Nat
    BY <1>1, FS_Subset, FS_CardinalityType DEF Ids
  <1> QED BY <1>2 DEF Retained

LEMMA SoundEmptyState ==
    /\ Sound(EmptyState)
    /\ \A b : Sound([EmptyState EXCEPT !.unsafe = TRUE, !.offloads = b])
  <1>1. Sound(EmptyState)
    <2>1. Retained(EmptyState) = {} /\ EmptyState.active = 0
      BY DEF EmptyState, Retained, Has
    <2>2. {i \in {} : EmptyState.art[i] \in EveryPacket} = {} /\ {} \ {} = {}
      OBVIOUS
    <2> QED BY <2>1, <2>2, FS_EmptySet, LifecycleAssumption DEF Sound, Loadable, Assignable, WithinBudgets
  <1>2. \A b : SameBooks([EmptyState EXCEPT !.unsafe = TRUE, !.offloads = b], EmptyState)
    BY DEF SameBooks, EmptyState
  <1> QED BY <1>1, <1>2, SoundKept

\* A generation other than the assigned one is forgotten.
LEMMA SoundFewer ==
    ASSUME NEW m, NEW n, Sound(m), \A i \in Ids : n.art[i] \in {None, m.art[i]},
           n.active = m.active,
           m.active # 0 => n.art[m.active] = m.art[m.active] /\ n.phase[m.active] = m.phase[m.active]
    PROVE  Sound(n)
  <1> DEFINE every(s) == {i \in Retained(s) : s.art[i] \in EveryPacket}
  <1>1. /\ Retained(n) \subseteq Retained(m) /\ every(n) \subseteq every(m)
        /\ Retained(n) \ every(n) \subseteq Retained(m) \ every(m)
    BY DEF Retained, Has
  <1>2. /\ Cardinality(Retained(n)) <= Cardinality(Retained(m))
        /\ Cardinality(every(n)) <= Cardinality(every(m))
        /\ Cardinality(Retained(n) \ every(n)) <= Cardinality(Retained(m) \ every(m))
    <2>1. IsFiniteSet(Retained(m)) /\ IsFiniteSet(every(m)) /\ IsFiniteSet(Retained(m) \ every(m))
      BY RetainedFinite
    <2> HIDE DEF every
    <2> QED BY <1>1, <2>1, FS_Subset
  <1>3. /\ Cardinality(Retained(n)) \in Nat /\ Cardinality(Retained(m)) \in Nat
        /\ Cardinality(every(n)) \in Nat /\ Cardinality(every(m)) \in Nat
        /\ Cardinality(Retained(n) \ every(n)) \in Nat /\ Cardinality(Retained(m) \ every(m)) \in Nat
    BY RetainedFinite
  <1>4. /\ Cardinality(Retained(m)) <= MaxGenerations
        /\ Cardinality(every(m)) <= MaxEvery /\ Cardinality(Retained(m) \ every(m)) <= MaxScoped
    BY DEF Sound, Loadable, WithinBudgets
  <1>5. /\ Cardinality(Retained(n)) <= MaxGenerations
        /\ Cardinality(every(n)) <= MaxEvery /\ Cardinality(Retained(n) \ every(n)) <= MaxScoped
    <2> HIDE DEF every
    <2> QED BY <1>2, <1>3, <1>4, LifecycleAssumption
  <1>6. \A i, j \in Retained(n) : n.art[i] = n.art[j] => i = j
    BY DEF Sound, Loadable, Retained, Has
  <1>7. n.active # 0 => Has(n, n.active) /\ n.phase[n.active] = "active" /\ n.art[n.active] \notin Inert
    BY DEF Sound, Loadable, Assignable, Has
  <1> QED BY <1>5, <1>6, <1>7 DEF Sound, Loadable, Assignable, WithinBudgets

LEMMA SoundWithout ==
    ASSUME NEW m \in States, NEW i, Sound(m), i # m.active
    PROVE  /\ Sound(Without(m, i))
           /\ \A x : Sound([Without(m, i) EXCEPT !.previous = x])
  <1>1. /\ \A j \in Ids : Without(m, i).art[j] \in {None, m.art[j]}
        /\ Without(m, i).active = m.active
        /\ \A j \in Ids \ {i} : /\ Without(m, i).art[j] = m.art[j]
                                 /\ Without(m, i).phase[j] = m.phase[j]
    BY DEF States, Without
  <1>2. Sound(Without(m, i))
    <2>1. m.active # 0 => m.active \in Ids \ {i}
      BY StateParts DEF Ids
    <2> QED BY <1>1, <2>1, SoundFewer
  <1>3. \A x : SameBooks([Without(m, i) EXCEPT !.previous = x], Without(m, i))
    BY DEF States, Without, SameBooks
  <1> QED BY <1>2, <1>3, SoundKept

\* An artifact that is not retained yet joins, the budgets permitting.
LEMMA SoundPrepared ==
    ASSUME NEW m \in States, NEW i \in Ids, NEW a \in Artifacts, Sound(m), m.art[i] = None,
           IdOf(m, a) = 0, Cardinality(Retained(m)) < MaxGenerations, WithinBudgets(Prepared(m, i, a))
    PROVE  Sound(Prepared(m, i, a)) /\ i # m.active /\ Has(Prepared(m, i, a), i)
  <1> DEFINE n == Prepared(m, i, a)
  <1>1. /\ n.art = [m.art EXCEPT ![i] = a] /\ n.active = m.active
        /\ \A j : j # i => n.phase[j] = m.phase[j]
    BY DEF States, Prepared
  <1>2. m.art \in [Ids -> OrNone(Artifacts)] /\ m.active \in 0 .. MaxId
    BY StateParts
  <1>3. \A j \in Ids : m.art[j] # a
    BY DEF IdOf, Ids
  <1>4. i # m.active /\ (m.active # 0 => m.active \in Ids)
    BY <1>2 DEF Sound, Loadable, Has, Ids
  <1>5. a # None
    BY SteeringAssumption
  <1> HIDE DEF n
  <1>6. Retained(n) = Retained(m) \cup {i} /\ i \notin Retained(m)
    BY <1>1, <1>2, <1>5 DEF Retained, Has
  <1>7. Cardinality(Retained(n)) = Cardinality(Retained(m)) + 1 /\ Cardinality(Retained(m)) \in Nat
    BY <1>6, RetainedFinite, FS_AddElement
  <1>8. Cardinality(Retained(n)) <= MaxGenerations
    BY <1>7, LifecycleAssumption
  <1>9. \A j, k \in Retained(n) : n.art[j] = n.art[k] => j = k
    BY <1>1, <1>2, <1>3 DEF Sound, Loadable, Retained, Has
  <1>10. n.active # 0 => Has(n, n.active) /\ n.phase[n.active] = "active" /\ n.art[n.active] \notin Inert
    BY <1>1, <1>2, <1>4 DEF Sound, Loadable, Assignable, Has
  <1>11. WithinBudgets(n) /\ Has(n, i)
    BY <1>1, <1>2, <1>5 DEF n, Has
  <1> QED BY <1>4, <1>8, <1>9, <1>10, <1>11 DEF Sound, Loadable, Assignable, n

\* A retained generation of an artifact with rules is assigned.
LEMMA SoundActivated ==
    ASSUME NEW m \in States, NEW i \in Ids, Sound(m), Has(m, i), m.art[i] \notin Inert
    PROVE  Sound(Activated(m, i)) /\ Sound([Activated(m, i) EXCEPT !.unsafe = FALSE])
  <1>1. /\ Activated(m, i).art = m.art /\ Activated(m, i).active = i
        /\ Activated(m, i).phase[i] = "active"
    BY DEF States, Activated
  <1>2. Sound(Activated(m, i))
    BY <1>1 DEF Sound, Loadable, Assignable, Has, Retained, WithinBudgets, Ids
  <1>3. SameBooks([Activated(m, i) EXCEPT !.unsafe = FALSE], Activated(m, i))
    BY DEF States, Activated, SameBooks
  <1> QED BY <1>2, <1>3, SoundKept

-----------------------------------------------------------------------------
\* The file and the saved state, whatever the step

\* What the updates of the locals save.
LEMMA OpSaved ==
    ASSUME TypeOK
    PROVE  /\ NoOp.saved = EmptyState
           /\ [NoOp EXCEPT !.kind = "start"].saved = EmptyState
           /\ [NoOp EXCEPT !.kind = "close"].saved = EmptyState
           /\ [NoOp EXCEPT !.kind = "reconcile"].saved = EmptyState
           /\ [op EXCEPT !.kind = "reconcile", !.back = pc].saved = op.saved
           /\ [op EXCEPT !.kind = "close", !.back = "idle"].saved = op.saved
           /\ [op EXCEPT !.failed = TRUE].saved = op.saved
           /\ \A b : [op EXCEPT !.failed = b].saved = op.saved
           /\ [op EXCEPT !.restoreNic = FALSE].saved = op.saved
           /\ [op EXCEPT !.audited = TRUE].saved = op.saved
           /\ [op EXCEPT !.loaded = disk # NoFile].saved = op.saved
  <1>1. op \in Ops
    BY DEF TypeOK, ControlTypeOK
  <1> QED BY <1>1 DEF NoOp, Ops

LEMMA LooksStep ==
    ASSUME \/ Kernel \/ UNCHANGED vars \/ IntegrityFailure \/ ReconcileStart \/ ReconcileEnd
           \/ PrepareGateFails
           \/ \E c \in Clients :
                 \/ \E a \in Artifacts : DrainBegin(c, a) \/ RollbackBegin(c, a)
                 \/ \E i \in Ids : GcList(c, i)
                 \/ GcBegin(c) \/ CountBegin(c) \/ CountSucceeds(c) \/ CountFails(c)
    PROVE  UNCHANGED <<pc, op, mem, disk>>
  BY DEF Kernel, KernelNext, controllerVars, vars, IntegrityFailure, ReconcileStart, ReconcileEnd,
         PrepareGateFails, DrainBegin, RollbackBegin, GcList, GcBegin, CountBegin,
         CountSucceeds, CountFails, RequestFrame

LEMMA FileStep ==
    ASSUME [Next]_vars
    PROVE  disk' \in {disk, mem, NoFile}
  <1>1. CASE Kernel \/ UNCHANGED vars \/ IntegrityFailure \/ ReconcileStart \/ ReconcileEnd
    BY <1>1, LooksStep
  <1>2. CASE Request
    BY <1>2, LooksStep
       DEF Request, Prepare, ActivateForNewConnections, Rollback, ActivateFrame,
           DeactivateForNewConnections
  <1>3. CASE Pending
    BY <1>3, LooksStep DEF Pending, RollbackCountFails, DrainFinish, GcFinish, RollbackFinish
  <1>4. CASE PrepareStep \/ ActivateStep
    BY <1>4
       DEF PrepareStep, PrepareInterrupted, PreparePersists, PreparePersistFails,
           ActivateStep, RollbackActivate, ActivatePersists, ActivatePersistFails,
           StageInstalls, SweepSucceeds, FlipInstalls, TransactionFails, SweepFails, ActivateDone,
           ActivateFrame, Persists, PersistFails
  <1>5. CASE OffloadStep
    BY <1>5
       DEF OffloadStep, OffloadsDown, OffloadsCapture, OffloadsCallFails, ClaimPersists,
           ClaimPersistFails, DisableSucceeds, DisableFails, UnclaimPersists, UnclaimPersistFails,
           RestoreNothing, RestoreCall, RestorePersists, RestorePersistFails, Persists, PersistFails
  <1>6. CASE CompensationStep \/ DeactivateStep \/ CollectStep \/ ReconcileStep
    BY <1>6
       DEF CompensationStep, UnwindPersists, CompensationInstalls, CompensationInstallFails,
           CompensationPersists, CompensationPersistFails, CompensationDone, IntegrityFailureLocked,
           DeactivateStep, DeactivatePersists, DeactivatePersistFails, DeactivateInstalls,
           DeactivateInstallFails, CollectStep, DrainPersists, DrainPersistFails, GcInstalls,
           GcInstallFails, ReconcileStep, ReconcileInstalls, ReconcileInstallFails,
           ReconcilePersists, ReconcilePersistFails, Persists, PersistFails
  <1>7. CASE StartStep \/ CloseStep \/ Crash
    BY <1>7
       DEF StartStep, StartRemoves, StartLoads, StartQuarantines, StartQuarantineFails,
           StartAudits, StartAuditFails, StartPersists, StartPersistFails, StartInstallsBoundary,
           StartFlips, StartPrograms, StartProgramsUngated, StartFails, CloseStep, CloseRemoves,
           CloseFails, Exit, Crash, ProcessGone, Persists, PersistFails
  <1>8. CASE ReconcileBegin \/ Boot \/ Shutdown
    BY <1>8 DEF ReconcileBegin, Boot, Shutdown
  <1> QED BY <1>1, <1>2, <1>3, <1>4, <1>5, <1>6, <1>7, <1>8 DEF Next, LockedStep

LEMMA ActivateLockedSaves ==
    ASSUME NEW id, NEW repair, ActivateLocked(id, repair)
    PROVE  op'.saved \in {mem, EmptyState} /\ pc' \in {"idle", "act_persist"}
  <1>1. \/ op' = NoOp /\ pc' = "idle"
        \/ op'.saved = mem /\ pc' = "act_persist"
    BY DEF ActivateLocked, Return, NoOp
  <1> QED BY <1>1 DEF NoOp

LEMMA SavedStep ==
    ASSUME TypeOK, [Next]_vars
    PROVE  op'.saved \in {op.saved, mem, EmptyState}
  <1> USE OpSaved DEF GoTo, Return, Abandon
  <1>1. CASE Kernel \/ UNCHANGED vars \/ IntegrityFailure \/ ReconcileStart \/ ReconcileEnd
    BY <1>1, LooksStep
  <1>2. CASE Request
    <2>1. ASSUME NEW a \in Artifacts, Prepare(a) \/ DeactivateForNewConnections(a)
          PROVE  op'.saved \in {op.saved, mem, EmptyState}
      BY <2>1 DEF Prepare, DeactivateForNewConnections, NoOp
    <2>2. ASSUME NEW a \in Artifacts, ActivateForNewConnections(a) \/ Rollback(a)
          PROVE  op'.saved \in {mem, EmptyState}
      BY <2>2, ActivateLockedSaves DEF ActivateForNewConnections, Rollback
    <2> QED BY <1>2, <2>1, <2>2, LooksStep DEF Request
  <1>3. CASE Pending
    <2>1. ASSUME NEW c \in Clients, RollbackCountFails(c) \/ DrainFinish(c) \/ GcFinish(c)
          PROVE  op'.saved \in {op.saved, mem, EmptyState}
      BY <2>1 DEF RollbackCountFails, DrainFinish, GcFinish, NoOp
    <2>2. ASSUME NEW c \in Clients, RollbackFinish(c)
          PROVE  op'.saved \in {op.saved, mem, EmptyState}
      <3>1. \/ op' = op \/ \E i : op' = [NoOp EXCEPT !.kind = "rollback", !.id = i]
            \/ \E i : ActivateLocked(i, TRUE)
        BY <2>2 DEF RollbackFinish
      <3> QED BY <3>1, ActivateLockedSaves DEF NoOp
    <2> QED BY <1>3, <2>1, <2>2, LooksStep DEF Pending
  <1>4. CASE PrepareStep \/ ActivateStep
    <2>1. CASE RollbackActivate
      BY <2>1, ActivateLockedSaves DEF RollbackActivate
    <2> QED BY <1>4, <2>1
       DEF PrepareStep, PrepareInterrupted, PreparePersists, PreparePersistFails,
           ActivateStep, ActivatePersists, ActivatePersistFails,
           StageInstalls, SweepSucceeds, FlipInstalls, TransactionFails, SweepFails, ActivateDone
  <1>5. CASE OffloadStep
    <2>1. ASSUME NEW m, NEW durable, OffloadsFailed(m, durable)
          PROVE  op'.saved \in {op.saved, EmptyState}
      <3>1. op' \in {op, [NoOp EXCEPT !.kind = "close"]}
        BY <2>1 DEF OffloadsFailed
      <3> QED BY <3>1
    <2>2. ASSUME NEW failed, RestoreReturns(failed)
          PROVE  op'.saved \in {op.saved, EmptyState}
      BY <2>2 DEF RestoreReturns
    <2> QED BY <1>5, <2>1, <2>2
       DEF OffloadStep, OffloadsDown, OffloadsCapture, OffloadsCallFails, ClaimPersists,
           ClaimPersistFails, DisableSucceeds, DisableFails, UnclaimPersists, UnclaimPersistFails,
           RestoreNothing, RestoreCall, RestorePersists, RestorePersistFails, OffloadsDone
  <1>6. CASE CompensationStep \/ DeactivateStep \/ CollectStep \/ ReconcileStep
    <2>1. CASE ReconcilePersists \/ ReconcilePersistFails
      <3>1. op' \in {NoOp, [op EXCEPT !.kind = "close", !.back = "idle"]}
        BY <2>1 DEF ReconcilePersists, ReconcilePersistFails, ReconcileReturn
      <3> QED BY <3>1
    <2>2. CASE ~ (ReconcilePersists \/ ReconcilePersistFails)
      <3>1. \/ op' \in {op, NoOp, [op EXCEPT !.failed = TRUE]}
            \/ op' = [NoOp EXCEPT !.kind = "reconcile"]
        BY <1>6, <2>2
       DEF CompensationStep, UnwindPersists, CompensationInstalls, CompensationInstallFails,
           CompensationPersists, CompensationPersistFails, CompensationDone, IntegrityFailureLocked,
           DeactivateStep, DeactivatePersists, DeactivatePersistFails, DeactivateInstalls,
           DeactivateInstallFails, CollectStep, DrainPersists, DrainPersistFails, GcInstalls,
           GcInstallFails, ReconcileStep, ReconcileInstalls, ReconcileInstallFails
      <3> QED BY <3>1
    <2> QED BY <2>1, <2>2
  <1>7. CASE StartStep \/ CloseStep \/ Crash
    <2>1. \/ op' \in {op, NoOp, [NoOp EXCEPT !.kind = "close"], [op EXCEPT !.audited = TRUE],
                     [op EXCEPT !.failed = TRUE]}
          \/ op' = [op EXCEPT !.loaded = disk # NoFile]
    BY <1>7
       DEF StartStep, StartRemoves, StartLoads, StartQuarantines, StartQuarantineFails,
           StartAudits, StartAuditFails, StartPersists, StartPersistFails, StartInstallsBoundary,
           StartFlips, StartPrograms, StartProgramsUngated, StartFails, CloseStep, CloseRemoves,
           CloseFails, Exit, Crash, ProcessGone
    <2> QED BY <2>1
  <1>8. CASE ReconcileBegin \/ Boot \/ Shutdown
    <2>1. \/ op' = [NoOp EXCEPT !.kind = "start"] \/ op' = [NoOp EXCEPT !.kind = "close"]
          \/ op' = [op EXCEPT !.kind = "reconcile", !.back = pc]
      BY <1>8 DEF ReconcileBegin, Boot, Shutdown
    <2> QED BY <2>1
  <1> QED BY <1>1, <1>2, <1>3, <1>4, <1>5, <1>6, <1>7, <1>8 DEF Next, LockedStep

-----------------------------------------------------------------------------
\* Memory, whatever the step

LEMMA IdKnown ==
    ASSUME NEW m, NEW a \in Artifacts, IdOf(m, a) # 0
    PROVE  IdOf(m, a) \in Ids /\ m.art[IdOf(m, a)] = a /\ Has(m, IdOf(m, a))
  BY SteeringAssumption DEF IdOf, Has

LEMMA LoadParts ==
    ASSUME LoadInv
    PROVE  Asked /\ Sound(mem) /\ Sound(op.saved) /\ (disk # NoFile => Sound(disk))
  BY DEF LoadInv

LEMMA SoundActivateLocked ==
    ASSUME TypeOK, LoadInv, NEW i \in Ids, NEW repair, Has(mem, i), mem.art[i] \notin Inert,
           ActivateLocked(i, repair)
    PROVE  Sound(mem')
  <1>1. mem' \in {mem, Activated(mem, i), [Activated(mem, i) EXCEPT !.unsafe = FALSE]}
    BY DEF ActivateLocked
  <1> QED BY <1>1, LoadParts, StateTypes, SoundActivated

\* The requests that wait for the mutex stay, or end with their process.
LEMMA OthersPend ==
    ASSUME [Next]_vars, ~ Request, ~ Pending
    PROVE  UNCHANGED pend \/ pend' = [c \in Clients |-> NoRequest]
  <1>1. CASE Kernel \/ UNCHANGED vars \/ IntegrityFailure \/ ReconcileStart \/ ReconcileEnd
    BY <1>1 DEF Kernel, controllerVars, vars, IntegrityFailure, ReconcileStart, ReconcileEnd
  <1>2. CASE PrepareStep \/ ActivateStep
    BY <1>2
       DEF PrepareStep, PrepareInterrupted, PreparePersists, PreparePersistFails,
           ActivateStep, RollbackActivate, ActivatePersists, ActivatePersistFails,
           StageInstalls, SweepSucceeds, FlipInstalls, TransactionFails, SweepFails, ActivateDone
  <1>3. CASE OffloadStep
    BY <1>3
       DEF OffloadStep, OffloadsDown, OffloadsCapture, OffloadsCallFails, ClaimPersists,
           ClaimPersistFails, DisableSucceeds, DisableFails, UnclaimPersists, UnclaimPersistFails,
           RestoreNothing, RestoreCall, RestorePersists, RestorePersistFails
  <1>4. CASE CompensationStep \/ DeactivateStep \/ CollectStep \/ ReconcileStep
    BY <1>4
       DEF CompensationStep, UnwindPersists, CompensationInstalls, CompensationInstallFails,
           CompensationPersists, CompensationPersistFails, CompensationDone, IntegrityFailureLocked,
           DeactivateStep, DeactivatePersists, DeactivatePersistFails, DeactivateInstalls,
           DeactivateInstallFails, CollectStep, DrainPersists, DrainPersistFails, GcInstalls,
           GcInstallFails, ReconcileStep, ReconcileInstalls, ReconcileInstallFails,
           ReconcilePersists, ReconcilePersistFails
  <1>5. CASE StartStep \/ CloseStep \/ Crash
    BY <1>5
       DEF StartStep, StartRemoves, StartLoads, StartQuarantines, StartQuarantineFails,
           StartAudits, StartAuditFails, StartPersists, StartPersistFails, StartInstallsBoundary,
           StartFlips, StartPrograms, StartProgramsUngated, StartFails, CloseStep, CloseRemoves,
           CloseFails, Exit, Crash, ProcessGone
  <1>6. CASE ReconcileBegin \/ Boot \/ Shutdown
    BY <1>6 DEF ReconcileBegin, Boot, Shutdown
  <1> QED BY <1>1, <1>2, <1>3, <1>4, <1>5, <1>6 DEF Next, LockedStep

\* They are sent, go on or are answered.
LEMMA PendStep ==
    ASSUME TypeOK, [Next]_vars
    PROVE  \/ UNCHANGED pend
           \/ pend' = [c \in Clients |-> NoRequest]
           \/ \E c \in Clients :
                 \/ Answer(c)
                 \/ \E kind, stage, id : \E a \in Artifacts :
                       Ask(c, kind, stage, a, id) /\ (kind = "rollback" \/ id \in Ids)
                 \/ GcBegin(c) \/ CountBegin(c) \/ CountSucceeds(c)
  <1>1. CASE Request
    <2>1. ASSUME NEW a \in Artifacts,
                 \/ Prepare(a) \/ ActivateForNewConnections(a) \/ Rollback(a)
                 \/ DeactivateForNewConnections(a) \/ PrepareGateFails
          PROVE  UNCHANGED pend
      BY <2>1 DEF Prepare, PrepareGateFails, ActivateForNewConnections, Rollback,
                  DeactivateForNewConnections
    <2>2. ASSUME NEW c \in Clients, NEW id \in Ids, GcList(c, id)
          PROVE  \E a \in Artifacts : Ask(c, "gc", "listed", a, id)
      <3>1. mem.art[id] \in Artifacts
        BY <2>2, StateTypes, StateParts DEF GcList, Has, OrNone
      <3> QED BY <2>2, <3>1 DEF GcList
    <2>3. ASSUME NEW c \in Clients, NEW a \in Artifacts, DrainBegin(c, a)
          PROVE  \E id \in Ids : Ask(c, "drain", "matched", a, id)
      BY <2>3, IdKnown DEF DrainBegin
    <2>4. ASSUME NEW c \in Clients, NEW a \in Artifacts, RollbackBegin(c, a)
          PROVE  Ask(c, "rollback", "begun", a, 0)
      BY <2>4 DEF RollbackBegin
    <2>5. CASE PrepareGateFails
      BY <2>5 DEF PrepareGateFails
    <2> QED BY <1>1, <2>1, <2>2, <2>3, <2>4, <2>5 DEF Request
  <1>2. CASE Pending
    BY <1>2
       DEF Pending, CountFails, RollbackCountFails, DrainFinish, GcFinish, RollbackFinish
  <1> QED BY <1>1, <1>2, OthersPend

LEMMA AskedStep ==
    ASSUME TypeOK, Asked, [Next]_vars
    PROVE  Asked'
  <1>1. pend \in [Clients -> Requests]
    BY DEF TypeOK, ControlTypeOK
  <1>2. ASSUME NEW c \in Clients, Answer(c)
        PROVE  Asked'
    BY <1>1, <1>2 DEF Answer, NoRequest, Asked
  <1>3. ASSUME NEW c \in Clients, NEW kind, NEW stage, NEW id, NEW a \in Artifacts,
               Ask(c, kind, stage, a, id), kind = "rollback" \/ id \in Ids
        PROVE  Asked'
    BY <1>1, <1>3 DEF Ask, NoRequest, Asked
  <1>4. ASSUME NEW c \in Clients, GcBegin(c) \/ CountSucceeds(c)
        PROVE  Asked'
    <2>0. pend[c] \in Requests
      BY <1>1
    <2>1. Answer(c) \/ \E r : pend' = [pend EXCEPT ![c] = r] /\ r.kind = pend[c].kind /\ r.art = pend[c].art /\ r.id = pend[c].id
      <3>1. CASE GcBegin(c)
        BY <1>1, <2>0, <3>1 DEF GcBegin, Requests
      <3>2. CASE CountSucceeds(c)
        <4> DEFINE r == IF pend[c].kind = "rollback"
                        THEN [pend[c] EXCEPT !.stage = "counted", !.ids = Counts]
                        ELSE [pend[c] EXCEPT !.stage = "counted", !.live = Count(pend[c].id)]
        <4>1. pend' = [pend EXCEPT ![c] = r]
          BY <1>1, <3>2 DEF CountSucceeds
        <4>2. r.kind = pend[c].kind /\ r.art = pend[c].art /\ r.id = pend[c].id
          BY <2>0 DEF Requests
        <4> QED BY <4>1, <4>2
      <3> QED BY <1>4, <3>1, <3>2
    <2> QED BY <1>1, <1>2, <2>1 DEF Asked
  <1>5. ASSUME NEW c \in Clients, CountBegin(c)
        PROVE  Asked'
    <2>1. CASE Answer(c)
      BY <1>2, <2>1
    <2>2. CASE /\ pend' = [pend EXCEPT ![c].stage = "begun", ![c].art = mem.art[pend[c].id]]
               /\ pend[c].id \in Retained(mem)
      <3>1. mem.art[pend[c].id] \in Artifacts
        BY <2>2, StateTypes, StateParts DEF Retained, Has, OrNone
      <3> QED BY <1>1, <2>2, <3>1 DEF Asked, Requests
    <2> QED BY <1>5, <2>1, <2>2 DEF CountBegin
  <1>6. CASE pend' = [c \in Clients |-> NoRequest]
    BY <1>6 DEF NoRequest, Asked
  <1>7. CASE UNCHANGED pend
    BY <1>7 DEF Asked
  <1> QED BY <1>2, <1>3, <1>4, <1>5, <1>6, <1>7, PendStep

LEMMA SoundRequest ==
    ASSUME TypeOK, LoadInv, Request
    PROVE  Sound(mem')
  <1>0. Sound(mem) /\ mem \in States
    BY LoadParts, StateTypes
  <1>1. ASSUME NEW a \in Artifacts, Prepare(a)
        PROVE  Sound(mem')
    <2> DEFINE id == NextGeneration(mem, IF latched THEN Reserve(mem, Counts) ELSE reserved)
    <2>1. \/ mem' = mem
          \/ /\ mem' = Prepared(mem, id, a) /\ id # 0 /\ IdOf(mem, a) = 0
             /\ Cardinality(Retained(mem)) < MaxGenerations /\ WithinBudgets(Prepared(mem, id, a))
      BY <1>1 DEF Prepare
    <2>2. id # 0 => id \in Ids /\ mem.art[id] = None
      BY NextGenerationFree
    <2> HIDE DEF id
    <2> QED BY <1>0, <2>1, <2>2, SoundPrepared
  <1>2. ASSUME NEW a \in Artifacts, ActivateForNewConnections(a) \/ Rollback(a)
        PROVE  Sound(mem')
    <2>1. /\ IdOf(mem, a) # 0 /\ a \notin Inert
          /\ \E repair : ActivateLocked(IdOf(mem, a), repair)
      BY <1>2 DEF ActivateForNewConnections, Rollback
    <2> QED BY <2>1, IdKnown, SoundActivateLocked
  <1>3. ASSUME NEW a \in Artifacts, DeactivateForNewConnections(a)
        PROVE  Sound(mem')
    <2>1. mem' = Deactivated(mem)
      BY <1>3 DEF DeactivateForNewConnections
    <2> QED BY <1>0, <2>1, BooksKept, SoundKept
  <1> QED BY <1>0, <1>1, <1>2, <1>3, LooksStep DEF Request

LEMMA SoundPending ==
    ASSUME TypeOK, LoadInv, Pending
    PROVE  Sound(mem')
  <1>0. Sound(mem) /\ mem \in States
    BY LoadParts, StateTypes
  <1>1. ASSUME NEW c \in Clients, RollbackCountFails(c)
        PROVE  Sound(mem')
    <2>1. mem' = [mem EXCEPT !.unsafe = TRUE]
      BY <1>1 DEF RollbackCountFails
    <2> QED BY <1>0, <2>1, BooksKept, SoundKept
  <1>2. ASSUME NEW c \in Clients, DrainFinish(c)
        PROVE  Sound(mem')
    <2>1. \/ mem' = mem
          \/ \E i, p : i # mem.active /\ mem' = [mem EXCEPT !.phase[i] = p]
      BY <1>2 DEF DrainFinish, Unchanged
    <2>2. ASSUME NEW i, NEW p, i # mem.active, mem' = [mem EXCEPT !.phase[i] = p]
          PROVE  Sound(mem')
      <3>1. SameBooks(mem', mem)
        BY <1>0, <2>2, BooksKept
      <3> QED BY <1>0, <3>1, SoundKept
    <2> QED BY <1>0, <2>1, <2>2
  <1>3. ASSUME NEW c \in Clients, GcFinish(c)
        PROVE  Sound(mem')
    <2> DEFINE i == pend[c].id
    <2>1. \/ mem' = mem
          \/ i # mem.active /\ mem' = [Without(mem, i) EXCEPT !.previous = IF @ = i THEN 0 ELSE @]
      BY <1>3 DEF GcFinish, MayCollect, Unchanged
    <2> HIDE DEF i
    <2> QED BY <1>0, <2>1, SoundWithout
  <1>4. ASSUME NEW c \in Clients, RollbackFinish(c)
        PROVE  Sound(mem')
    <2> DEFINE r == pend[c]
               id == NextGeneration(mem, Reserve(mem, r.ids))
    <2>0. r.kind = "rollback" /\ r.stage = "counted"
      BY <1>4 DEF RollbackFinish
    <2>1. \/ mem' = mem
          \/ IdOf(mem, r.art) # 0 /\ r.art \notin Inert /\ ActivateLocked(IdOf(mem, r.art), TRUE)
          \/ /\ mem' = Prepared(mem, id, r.art) /\ id # 0 /\ IdOf(mem, r.art) = 0
             /\ Cardinality(Retained(mem)) < MaxGenerations /\ WithinBudgets(Prepared(mem, id, r.art))
      BY <1>4 DEF RollbackFinish, Room
    <2>2. id # 0 => id \in Ids /\ mem.art[id] = None
      BY NextGenerationFree
    <2>3. r.art \in Artifacts
      BY <2>0, LoadParts DEF Asked
    <2> HIDE DEF id, r
    <2>4. CASE IdOf(mem, r.art) # 0 /\ r.art \notin Inert /\ ActivateLocked(IdOf(mem, r.art), TRUE)
      BY <2>3, <2>4, IdKnown, SoundActivateLocked
    <2> QED BY <1>0, <2>1, <2>2, <2>3, <2>4, SoundPrepared
  <1> QED BY <1>0, <1>1, <1>2, <1>3, <1>4, LooksStep DEF Pending

-----------------------------------------------------------------------------
\* The state an operation restores has the books of the one it saved.
LEMMA UndoneBooks ==
    ASSUME NEW m \in States, NEW b, NEW durable
    PROVE  SameBooks([m EXCEPT !.offloads = b, !.unsafe = @ \/ ~ durable], m)
  BY DEF States, SameBooks

LEMMA RestoredBooks ==
    ASSUME TypeOK
    PROVE  /\ SameBooks(Restored, op.saved)
           /\ SameBooks([Restored EXCEPT !.unsafe = MarkUnsafe(mem).unsafe], op.saved)
           /\ \A durable : RestoreState(durable) => SameBooks(mem', op.saved)
  <1>1. op.saved \in States
    BY StateTypes
  <1>2. /\ SameBooks(Restored, op.saved)
        /\ SameBooks([Restored EXCEPT !.unsafe = MarkUnsafe(mem).unsafe], op.saved)
    BY <1>1 DEF Restored, States, SameBooks
  <1>3. ASSUME NEW durable, RestoreState(durable)
        PROVE  SameBooks(mem', op.saved)
    <2>1. mem' = [op.saved EXCEPT !.offloads = mem.offloads, !.unsafe = @ \/ ~ durable]
      BY <1>3 DEF RestoreState
    <2> QED BY <1>1, <2>1, UndoneBooks
  <1> QED BY <1>2, <1>3

\* Memory after a step is memory before it, or what the operation saved, but
\* for fields the loader does not check.
LEMMA SoundBooks ==
    ASSUME LoadInv, SameBooks(mem', mem) \/ SameBooks(mem', op.saved)
    PROVE  Sound(mem')
  BY LoadParts, SoundKept

LEMMA SoundPrepareStep ==
    ASSUME TypeOK, LoadInv, PrepareStep
    PROVE  Sound(mem')
  <1>0. Sound(mem) /\ mem \in States
    BY LoadParts, StateTypes
  <1>1. CASE PrepareInterrupted \/ PreparePersistFails
    <2>1. /\ op.id # mem.active
          /\ mem' \in {Without(mem, op.id), Without(MarkUnsafe(mem), op.id)}
      BY <1>1 DEF PrepareInterrupted, PreparePersistFails, Unprepare, LoadInv
    <2>2. /\ MarkUnsafe(mem) \in States /\ Sound(MarkUnsafe(mem))
          /\ MarkUnsafe(mem).active = mem.active
      <3>1. MarkUnsafe(mem).active = mem.active
        BY <1>0 DEF MarkUnsafe, States
      <3> QED BY <1>0, <3>1, MarkUnsafeType, BooksKept, SoundKept
    <2> QED BY <1>0, <2>1, <2>2, SoundWithout
  <1>2. CASE PreparePersists
    BY <1>0, <1>2 DEF PreparePersists
  <1> QED BY <1>1, <1>2 DEF PrepareStep

LEMMA SoundActivateStep ==
    ASSUME TypeOK, LoadInv, ActivateStep
    PROVE  Sound(mem')
  <1>0. Sound(mem) /\ mem \in States
    BY LoadParts, StateTypes
  <1>1. CASE RollbackActivate
    <2>1. op.id \in Ids /\ Has(mem, op.id)
      BY <1>1 DEF RollbackActivate, LoadInv
    <2>2. CASE mem.art[op.id] \in Inert
      BY <1>0, <1>1, <2>2 DEF RollbackActivate
    <2>3. CASE mem.art[op.id] \notin Inert
      <3>1. ActivateLocked(op.id, TRUE)
        BY <1>1, <2>3 DEF RollbackActivate
      <3> QED BY <2>1, <2>3, <3>1, SoundActivateLocked
    <2> QED BY <2>2, <2>3
  <1>2. CASE ActivatePersistFails \/ TransactionFails \/ SweepFails
    <2>1. \E durable : RestoreState(durable)
      BY <1>2 DEF ActivatePersistFails, TransactionFails, SweepFails
    <2> QED BY <2>1, RestoredBooks, SoundBooks
  <1>3. CASE ActivatePersists \/ StageInstalls \/ SweepSucceeds \/ FlipInstalls \/ ActivateDone
    BY <1>0, <1>3 DEF ActivatePersists, StageInstalls, SweepSucceeds, FlipInstalls, ActivateDone
  <1> QED BY <1>1, <1>2, <1>3 DEF ActivateStep

LEMMA SoundOffloadStep ==
    ASSUME TypeOK, LoadInv, OffloadStep
    PROVE  Sound(mem')
  <1>0. Sound(mem) /\ mem \in States /\ MarkUnsafe(mem) \in States /\ op.saved \in States
    BY LoadParts, StateTypes, MarkUnsafeType
  <1>1. ASSUME NEW m, SameBooks(m, mem), NEW durable, OffloadsFailed(m, durable)
        PROVE  Sound(mem')
    <2>1. \/ mem' = m
          \/ mem' = [op.saved EXCEPT !.offloads = m.offloads, !.unsafe = @ \/ ~ durable]
      BY <1>1 DEF OffloadsFailed
    <2>2. SameBooks([op.saved EXCEPT !.offloads = m.offloads, !.unsafe = @ \/ ~ durable], op.saved)
      BY <1>0, UndoneBooks
    <2> QED BY <1>1, <2>1, <2>2, SoundBooks
  <1>2. CASE OffloadsCallFails \/ UnclaimPersists
    <2>1. SameBooks(mem, mem) /\ OffloadsFailed(mem, ~ persistFatal)
      BY <1>0, <1>2, BooksKept DEF OffloadsCallFails, UnclaimPersists
    <2> QED BY <1>1, <2>1
  <1>3. CASE ClaimPersistFails \/ UnclaimPersistFails
    <2>1. SameBooks(MarkUnsafe(mem), mem)
      BY <1>0, BooksKept
    <2>2. SameBooks([MarkUnsafe(mem) EXCEPT !.offloads = FALSE], MarkUnsafe(mem))
      BY <1>0, BooksKept
    <2>3. SameBooks([MarkUnsafe(mem) EXCEPT !.offloads = FALSE], mem)
      BY <2>1, <2>2, SameBooksTransitive
    <2>4. \/ OffloadsFailed(MarkUnsafe(mem), FALSE)
          \/ OffloadsFailed([MarkUnsafe(mem) EXCEPT !.offloads = FALSE], FALSE)
      BY <1>3 DEF ClaimPersistFails, UnclaimPersistFails
    <2> QED BY <1>1, <2>1, <2>3, <2>4
  <1>4. CASE /\ OffloadStep
             /\ ~ (OffloadsCallFails \/ UnclaimPersists \/ ClaimPersistFails \/ UnclaimPersistFails)
    <2>1. mem' \in {mem, [mem EXCEPT !.offloads = TRUE], [mem EXCEPT !.offloads = FALSE], MarkUnsafe(mem)}
      BY <1>4
         DEF OffloadStep, OffloadsDown, OffloadsCapture, ClaimPersists, DisableSucceeds,
             DisableFails, RestoreNothing, RestoreCall, RestorePersists, RestorePersistFails
    <2> QED BY <1>0, <2>1, BooksKept, SoundKept
  <1> QED BY <1>2, <1>3, <1>4

LEMMA SoundLockedStep ==
    ASSUME TypeOK, LoadInv, CompensationStep \/ DeactivateStep \/ CollectStep \/ ReconcileStep
    PROVE  Sound(mem')
  <1>0. Sound(mem) /\ mem \in States
    BY LoadParts, StateTypes
  <1>1. mem' \in {mem, MarkUnsafe(mem), Quarantined(mem), Restored,
                  [Restored EXCEPT !.unsafe = MarkUnsafe(mem).unsafe]}
    BY DEF CompensationStep, UnwindPersists, CompensationInstalls, CompensationInstallFails,
           CompensationPersists, CompensationPersistFails, CompensationDone, IntegrityFailureLocked,
           DeactivateStep, DeactivatePersists, DeactivatePersistFails, DeactivateInstalls,
           DeactivateInstallFails, CollectStep, DrainPersists, DrainPersistFails, GcInstalls,
           GcInstallFails, ReconcileStep, ReconcileInstalls, ReconcileInstallFails,
           ReconcilePersists, ReconcilePersistFails
  <1>2. SameBooks(mem', mem) \/ SameBooks(mem', op.saved)
    BY <1>0, <1>1, BooksKept, RestoredBooks
  <1> QED BY <1>2, SoundBooks

LEMMA SoundStartStep ==
    ASSUME TypeOK, LoadInv, StartStep
    PROVE  Sound(mem')
  <1>0. Sound(mem) /\ mem \in States /\ (disk # NoFile => Sound(disk))
    BY LoadParts, StateTypes
  <1>1. CASE StartAudits
    <2>1. [mem EXCEPT !.unsafe = TRUE, !.active = 0] \in States
      BY AuditedType
    <2>2. PICK m \in {mem, [mem EXCEPT !.unsafe = TRUE, !.active = 0]} : mem' \in {m, Quarantined(m)}
      BY <1>1 DEF StartAudits
    <2>3. m \in States /\ Sound(m)
      BY <1>0, <2>1, BooksKept, SoundKept
    <2> QED BY <2>2, <2>3, BooksKept, SoundKept
  <1>2. CASE StartAuditFails
    <2>1. PICK p : mem' = [mem EXCEPT !.unsafe = TRUE, !.active = 0, !.phase = p]
      BY <1>2 DEF StartAuditFails
    <2>2. SameBooks(mem', mem)
      BY <1>0, <2>1, BooksKept
    <2> QED BY <1>0, <2>2, SoundKept
  <1>3. CASE StartQuarantines
    <2>1. \E b : mem' = [EmptyState EXCEPT !.unsafe = TRUE, !.offloads = b]
      BY <1>3 DEF StartQuarantines
    <2> QED BY <2>1, SoundEmptyState
  <1>4. CASE StartQuarantineFails
    <2>1. \E b : mem' = [mem EXCEPT !.offloads = b]
      BY <1>4 DEF StartQuarantineFails
    <2> QED BY <1>0, <2>1, BooksKept, SoundKept
  <1>5. CASE StartLoads
    BY <1>0, <1>5 DEF StartLoads
  <1>6. CASE \/ StartRemoves \/ StartPersists \/ StartPersistFails \/ StartInstallsBoundary
             \/ StartFlips \/ StartPrograms \/ StartProgramsUngated \/ StartFails
    <2>1. mem' \in {mem, MarkUnsafe(mem)}
      BY <1>6
         DEF StartRemoves, StartPersists, StartPersistFails, StartInstallsBoundary,
             StartFlips, StartPrograms, StartProgramsUngated, StartFails
    <2> QED BY <1>0, <2>1, BooksKept, SoundKept
  <1> QED BY <1>1, <1>2, <1>3, <1>4, <1>5, <1>6 DEF StartStep

LEMMA MemoryStep ==
    ASSUME TypeOK, LoadInv, [Next]_vars
    PROVE  Sound(mem')
  <1>0. Sound(mem) /\ mem \in States
    BY LoadParts, StateTypes
  <1>1. CASE Kernel \/ UNCHANGED vars \/ IntegrityFailure \/ ReconcileStart \/ ReconcileEnd
    BY <1>0, <1>1, LooksStep
  <1>2. CASE CloseStep \/ Crash
    <2>1. mem' \in {mem, EmptyState}
      BY <1>2 DEF CloseStep, CloseRemoves, CloseFails, Exit, Crash, ProcessGone
    <2> QED BY <1>0, <2>1, SoundEmptyState
  <1>3. CASE ReconcileBegin \/ Boot \/ Shutdown
    <2>1. mem' \in {mem, Quarantined(mem)}
      BY <1>3 DEF ReconcileBegin, Boot, Shutdown
    <2> QED BY <1>0, <2>1, BooksKept, SoundKept
  <1> QED BY <1>1, <1>2, <1>3, SoundRequest, SoundPending, SoundPrepareStep, SoundActivateStep,
             SoundOffloadStep, SoundLockedStep, SoundStartStep DEF Next, LockedStep

-----------------------------------------------------------------------------
\* The generation that Prepare made

FreshPcs == {"prep_persist", "rollback_persist", "rollback_activate"}

LEMMA FreshStep ==
    ASSUME TypeOK, LoadInv, [Next]_vars, pc' \in FreshPcs
    PROVE  \/ /\ pc' \in {"prep_persist", "rollback_persist"} /\ mem.art[op'.id] = None
              /\ op'.id \in Ids /\ \E a \in Artifacts : mem' = Prepared(mem, op'.id, a)
           \/ /\ mem' = mem /\ op' = op
              /\ pc' = pc \/ (pc = "rollback_persist" /\ pc' = "rollback_activate")
  <1> USE DEF FreshPcs
  <1>1. CASE Kernel \/ UNCHANGED vars \/ IntegrityFailure \/ ReconcileStart \/ ReconcileEnd
    BY <1>1, LooksStep
  <1>2. CASE Request
    <2>1. ASSUME NEW a \in Artifacts, ActivateForNewConnections(a) \/ Rollback(a)
          PROVE  FALSE
      <3>1. \E i, repair : ActivateLocked(i, repair)
        BY <2>1 DEF ActivateForNewConnections, Rollback
      <3> QED BY <3>1, ActivateLockedSaves
    <2>2. ASSUME NEW a \in Artifacts, Prepare(a)
          PROVE  /\ pc' = "prep_persist" /\ mem.art[op'.id] = None
                 /\ op'.id \in Ids /\ mem' = Prepared(mem, op'.id, a)
      <3> DEFINE id == NextGeneration(mem, IF latched THEN Reserve(mem, Counts) ELSE reserved)
      <3>1. pc = "idle"
        BY <2>2 DEF Prepare, MayRequest, Idle
      <3>2. /\ id # 0 /\ mem' = Prepared(mem, id, a) /\ pc' = "prep_persist"
            /\ op' = [NoOp EXCEPT !.kind = "prepare", !.id = id, !.repair = latched, !.epoch = epoch]
        BY <2>2, <3>1 DEF Prepare
      <3>3. op'.id = id
        BY <3>2 DEF NoOp
      <3>4. id \in Ids /\ mem.art[id] = None
        BY <3>2, NextGenerationFree
      <3> HIDE DEF id
      <3> QED BY <3>2, <3>3, <3>4
    <2>3. ASSUME NEW a \in Artifacts, DeactivateForNewConnections(a)
          PROVE  FALSE
      BY <2>3 DEF DeactivateForNewConnections
    <2> QED BY <1>2, <2>1, <2>2, <2>3, LooksStep DEF Request
  <1>3. CASE Pending
    <2>1. ASSUME NEW c \in Clients, RollbackFinish(c)
          PROVE  /\ pc' = "rollback_persist" /\ mem.art[op'.id] = None
                 /\ op'.id \in Ids /\ \E a \in Artifacts : mem' = Prepared(mem, op'.id, a)
      <3> DEFINE r == pend[c]
                 id == NextGeneration(mem, Reserve(mem, r.ids))
      <3>1. pc = "idle" /\ r.kind = "rollback"
        BY <2>1 DEF RollbackFinish, Idle
      <3>2. \/ UNCHANGED pc
            \/ \E i : ActivateLocked(i, TRUE)
            \/ /\ id # 0 /\ mem' = Prepared(mem, id, r.art) /\ pc' = "rollback_persist"
               /\ op' = [NoOp EXCEPT !.kind = "rollback", !.id = id]
        BY <2>1 DEF RollbackFinish
      <3>3. /\ id # 0 /\ mem' = Prepared(mem, id, r.art) /\ pc' = "rollback_persist"
            /\ op' = [NoOp EXCEPT !.kind = "rollback", !.id = id]
        BY <3>1, <3>2, ActivateLockedSaves
      <3>4. op'.id = id
        BY <3>3 DEF NoOp
      <3>5. id \in Ids /\ mem.art[id] = None
        BY <3>3, NextGenerationFree
      <3>6. r.art \in Artifacts
        BY <3>1, LoadParts DEF Asked
      <3> HIDE DEF id, r
      <3> QED BY <3>3, <3>4, <3>5, <3>6
    <2>2. ASSUME NEW c \in Clients, DrainFinish(c) \/ GcFinish(c) \/ RollbackCountFails(c)
          PROVE  FALSE
      BY <2>2 DEF DrainFinish, GcFinish, RollbackCountFails, Idle
    <2> QED BY <1>3, <2>1, <2>2, LooksStep DEF Pending
  <1>4. CASE PrepareStep \/ ActivateStep
    <2>1. CASE RollbackActivate
      <3>1. pc' = "idle" \/ \E i : ActivateLocked(i, TRUE)
        BY <2>1 DEF RollbackActivate, Return
      <3> QED BY <3>1, ActivateLockedSaves
    <2> QED BY <1>4, <2>1
       DEF PrepareStep, PrepareInterrupted, PreparePersists, PreparePersistFails,
           ActivateStep, ActivatePersists, ActivatePersistFails, StageInstalls, SweepSucceeds,
           FlipInstalls, TransactionFails, SweepFails, ActivateDone, GoTo, Return
  <1>5. CASE OffloadStep
    <2>1. ASSUME NEW m, NEW durable, OffloadsFailed(m, durable)
          PROVE  pc' \notin FreshPcs
      BY <2>1 DEF OffloadsFailed, GoTo
    <2>2. ASSUME NEW failed, RestoreReturns(failed)
          PROVE  pc' \notin FreshPcs
      BY <2>2 DEF RestoreReturns, AfterRestore
    <2> QED BY <1>5, <2>1, <2>2
       DEF OffloadStep, OffloadsDown, OffloadsCapture, OffloadsCallFails, ClaimPersists,
           ClaimPersistFails, DisableSucceeds, DisableFails, UnclaimPersists, UnclaimPersistFails,
           RestoreNothing, RestoreCall, RestorePersists, RestorePersistFails, OffloadsDone, GoTo,
           StartPath
  <1>6. CASE CompensationStep \/ DeactivateStep \/ CollectStep
    BY <1>6
       DEF CompensationStep, UnwindPersists, CompensationInstalls, CompensationInstallFails,
           CompensationPersists, CompensationPersistFails, CompensationDone, IntegrityFailureLocked,
           DeactivateStep, DeactivatePersists, DeactivatePersistFails, DeactivateInstalls,
           DeactivateInstallFails, CollectStep, DrainPersists, DrainPersistFails, GcInstalls,
           GcInstallFails, GoTo, Return, AfterOldTable, AfterCompensation, AfterCollection
  <1>7. CASE ReconcileStep
    <2>1. op.back \in {"idle", "close_rules", "exit"}
      BY OpParts DEF TypeOK, ControlTypeOK
    <2> QED BY <1>7, <2>1
       DEF ReconcileStep, ReconcileInstalls, ReconcileInstallFails, ReconcilePersists,
           ReconcilePersistFails, ReconcileReturn, GoTo
  <1>8. CASE StartStep \/ CloseStep \/ Crash
    BY <1>8
       DEF StartStep, StartRemoves, StartLoads, StartQuarantines, StartQuarantineFails,
           StartAudits, StartAuditFails, StartPersists, StartPersistFails, StartInstallsBoundary,
           StartFlips, StartPrograms, StartProgramsUngated, StartFails, CloseStep, CloseRemoves,
           CloseFails, Exit, Crash, ProcessGone, GoTo, Return, Abandon, StartPath
  <1>9. CASE ReconcileBegin \/ Boot \/ Shutdown
    BY <1>9 DEF ReconcileBegin, Boot, Shutdown, Abandon
  <1> QED BY <1>1, <1>2, <1>3, <1>4, <1>5, <1>6, <1>7, <1>8, <1>9 DEF Next, LockedStep

LEMMA LoadNext ==
    ASSUME TypeOK, LoadInv, [Next]_vars
    PROVE  LoadInv'
  <1>1. Asked' /\ Sound(mem')
    BY AskedStep, MemoryStep, LoadParts
  <1>2. Sound(op'.saved) /\ (disk' # NoFile => Sound(disk'))
    BY SavedStep, FileStep, LoadParts, SoundEmptyState
  <1>3. pc' \in {"prep_persist", "rollback_persist"} => op'.id # mem'.active
    <2>1. ASSUME NEW a \in Artifacts, mem' = Prepared(mem, op'.id, a), mem.art[op'.id] = None,
                 op'.id \in Ids
          PROVE  op'.id # mem'.active
      <3>1. mem'.active = mem.active
        BY <2>1, StateTypes DEF Prepared, States
      <3> QED BY <2>1, <3>1, LoadParts DEF Sound, Loadable, Has, Ids
    <2> QED BY <2>1, FreshStep DEF FreshPcs, LoadInv
  <1>4. pc' \in {"rollback_persist", "rollback_activate"} => op'.id \in Ids /\ Has(mem', op'.id)
    <2>1. ASSUME NEW a \in Artifacts, mem' = Prepared(mem, op'.id, a), op'.id \in Ids
          PROVE  Has(mem', op'.id)
      <3>1. mem'.art = [mem.art EXCEPT ![op'.id] = a] /\ mem.art \in [Ids -> OrNone(Artifacts)]
        BY <2>1, StateTypes, StateParts, PreparedArt
      <3> QED BY <2>1, <3>1, SteeringAssumption DEF Has
    <2> QED BY <2>1, FreshStep DEF FreshPcs, LoadInv
  <1> QED BY <1>1, <1>2, <1>3, <1>4 DEF LoadInv

LEMMA LoadInit == Init => LoadInv
  <1> SUFFICES ASSUME Init PROVE LoadInv
    OBVIOUS
  <1>1. pc = "down" /\ op.saved = EmptyState /\ mem = EmptyState /\ disk = NoFile
    BY DEF Init, NoOp
  <1>2. Asked
    BY DEF Init, Asked, NoRequest
  <1> QED BY <1>1, <1>2, SoundEmptyState DEF LoadInv

\* Whatever operation was under way when it was written, and whichever write
\* failed, the state file is one that the next start accepts: its assignment is
\* retained in phase active, no artifact has two generations and the budgets
\* hold (persistLocked, loadLocked).
THEOREM StateFileLoads == Spec => []DiskLoadable
  <1>1. TypeOK /\ LoadInv /\ [Next]_vars => LoadInv'
    BY LoadNext
  <1>2. LoadInv => DiskLoadable
    BY DEF LoadInv, Sound, DiskLoadable
  <1> QED BY <1>1, <1>2, LoadInit, TypeCorrect, PTL DEF Spec

-----------------------------------------------------------------------------
\* Engines

Engined(art) == \A i \in Ids : art[i] # None => engines[i] = art[i]

\* Activation, from its first assignment to its second transaction.
ActingPcs == {"act_persist", "act_stage", "act_sweep", "act_flip"}
Activating == pc \in ActingPcs \/ (pc \in ClaimPcs /\ op.kind = "activate")

EngineInv ==
    /\ Engined(mem.art)
    /\ pc = "gc_program" => Engined(op.saved.art) /\ mem.art[op.id] = None
    /\ pc = "close_rules" => op.kind = "close"
    /\ Activating /\ op.saved.active # 0 => mem.phase[op.saved.active] \in {"active", "draining"}
    /\ rules.active # 0 => rules.scope[rules.active] # None

LEMMA ActivateLockedShape ==
    ASSUME NEW id, NEW repair, ActivateLocked(id, repair)
    PROVE  \/ UNCHANGED <<mem, engines>> /\ pc' = "idle" /\ op' = NoOp
           \/ /\ mem' = IF repair THEN [Activated(mem, id) EXCEPT !.unsafe = FALSE] ELSE Activated(mem, id)
              /\ engines' \in {engines, Reconstructed(Activated(mem, id))}
              /\ pc' = "act_persist"
              /\ op'.kind = "activate" /\ op'.id = id /\ op'.saved = mem /\ op'.repair = repair
  <1>1. CASE repair /\ ~ ((guard \/ gate = NoGate) /\ reconciling = "no")
    BY <1>1 DEF ActivateLocked, Return
  <1>2. CASE ~ (repair /\ ~ ((guard \/ gate = NoGate) /\ reconciling = "no"))
    <2>1. /\ mem' = IF repair THEN [Activated(mem, id) EXCEPT !.unsafe = FALSE] ELSE Activated(mem, id)
          /\ engines' \in {engines, Reconstructed(Activated(mem, id))}
          /\ pc' = "act_persist"
          /\ op' = [NoOp EXCEPT !.kind = "activate", !.id = id, !.repair = repair,
                       !.saved = mem, !.gate = gate, !.guard = guard, !.epoch = epoch,
                       !.restoreNic = ~ HasSteering(mem)]
      BY <1>2 DEF ActivateLocked
    <2> QED BY <2>1 DEF NoOp
  <1> QED BY <1>1, <1>2

\* Who enters or leaves an activation, and what it does to memory meanwhile.
LEMMA ActivatingStep ==
    ASSUME TypeOK, DurableInv, [Next]_vars, Activating'
    PROVE  \/ pc' = "act_persist" /\ \E id, repair : ActivateLocked(id, repair)
           \/ /\ Activating /\ op' = op /\ UNCHANGED <<engActive, engines, fatal, persistFatal>>
              /\ mem'.phase = mem.phase /\ mem'.active = mem.active
  <1> USE DEF Activating, ActingPcs, ClaimPcs
  <1>0. mem \in States /\ (pc \in ClaimPcs => op.kind \in {"activate", "start"})
    BY StateTypes, OperationKnown
  <1>1. CASE Kernel \/ UNCHANGED vars \/ IntegrityFailure \/ ReconcileStart \/ ReconcileEnd
    BY <1>1 DEF Kernel, controllerVars, vars, IntegrityFailure, ReconcileStart, ReconcileEnd,
         engineVars, exitVars
  <1>2. CASE Request
    <2>1. ASSUME NEW a \in Artifacts, Prepare(a) \/ DeactivateForNewConnections(a)
          PROVE  FALSE
      BY <2>1 DEF Prepare, DeactivateForNewConnections, MayRequest, Idle
    <2>2. ASSUME NEW a \in Artifacts, ActivateForNewConnections(a) \/ Rollback(a)
          PROVE  pc' = "act_persist" /\ \E id, repair : ActivateLocked(id, repair)
      <3>1. \E id, repair : ActivateLocked(id, repair)
        BY <2>2 DEF ActivateForNewConnections, Rollback
      <3> QED BY <3>1, ActivateLockedSaves
    <2>3. CASE PrepareGateFails
      BY <2>3 DEF PrepareGateFails, MayRequest, Idle
    <2> QED BY <1>2, <2>1, <2>2, <2>3
         DEF Request, DrainBegin, RollbackBegin, GcList, MayRequest, Idle
  <1>3. CASE Pending
    <2>1. ASSUME NEW c \in Clients, RollbackFinish(c)
          PROVE  pc' = "act_persist" /\ \E id, repair : ActivateLocked(id, repair)
      <3>1. \/ UNCHANGED pc \/ pc' = "rollback_persist" \/ \E i : ActivateLocked(i, TRUE)
        BY <2>1 DEF RollbackFinish
      <3>2. pc = "idle"
        BY <2>1 DEF RollbackFinish, Idle
      <3> QED BY <3>1, <3>2, ActivateLockedSaves
    <2>2. ASSUME NEW c \in Clients, DrainFinish(c) \/ GcFinish(c) \/ RollbackCountFails(c)
          PROVE  FALSE
      BY <2>2 DEF DrainFinish, GcFinish, RollbackCountFails, Idle
    <2>3. ASSUME NEW c \in Clients, GcBegin(c) \/ CountBegin(c) \/ CountSucceeds(c) \/ CountFails(c)
          PROVE  UNCHANGED <<pc, op, mem, engActive, engines, fatal, persistFatal>>
      BY <2>3 DEF GcBegin, CountBegin, CountSucceeds, CountFails, RequestFrame, engineVars, exitVars
    <2> QED BY <1>3, <2>1, <2>2, <2>3 DEF Pending
  <1>4. CASE PrepareStep
    BY <1>4
       DEF PrepareStep, PrepareInterrupted, PreparePersists, PreparePersistFails, GoTo, Return
  <1>5. CASE ActivateStep
    <2>1. CASE RollbackActivate
      <3>1. pc' = "idle" \/ \E i : ActivateLocked(i, TRUE)
        BY <2>1 DEF RollbackActivate, Return
      <3> QED BY <3>1, ActivateLockedSaves
    <2> QED BY <1>5, <2>1
       DEF ActivateStep, ActivatePersists, ActivatePersistFails, StageInstalls, SweepSucceeds,
           FlipInstalls, TransactionFails, SweepFails, ActivateDone, GoTo, Return, Persists,
           engineVars, exitVars
  <1>6. CASE OffloadStep
    <2>1. ASSUME NEW m, NEW durable, OffloadsFailed(m, durable)
          PROVE  pc' \in {"close_rules", "act_unwind"}
      BY <2>1 DEF OffloadsFailed, GoTo
    <2>2. ASSUME NEW failed, RestoreReturns(failed)
          PROVE  pc' \in {"idle", "gc_persist", "close_rules", "exit", "comp_done"}
      BY <2>2 DEF RestoreReturns, AfterRestore
    <2>3. CASE OffloadsCapture \/ DisableFails
      <3>1. /\ pc \in ClaimPcs /\ pc' \in ClaimPcs /\ op' = op /\ UNCHANGED <<engActive, engines, fatal, persistFatal>>
            /\ \E b : mem' = [mem EXCEPT !.offloads = b]
        BY <2>3 DEF OffloadsCapture, DisableFails, GoTo, engineVars, exitVars
      <3>2. mem'.phase = mem.phase /\ mem'.active = mem.active
        BY <1>0, <3>1 DEF States
      <3> QED BY <3>1, <3>2
    <2>4. CASE OffloadsDown \/ ClaimPersists \/ DisableSucceeds
      <3>1. /\ pc \in ClaimPcs /\ op' = op /\ mem' = mem
            /\ UNCHANGED <<engActive, engines, fatal, persistFatal>>
            /\ op.kind = "start" => pc' \in {"disable", "start_boundary", "start_program"}
        BY <2>4 DEF OffloadsDown, ClaimPersists, DisableSucceeds, OffloadsDone, StartPath, GoTo,
                    Persists, engineVars, exitVars
      <3> QED BY <1>0, <3>1
    <2>5. CASE RestoreCall
      BY <2>5 DEF RestoreCall
    <2> QED BY <1>6, <2>1, <2>2, <2>3, <2>4, <2>5
       DEF OffloadStep, OffloadsCallFails, ClaimPersistFails, UnclaimPersists, UnclaimPersistFails,
           RestoreNothing, RestorePersists, RestorePersistFails
  <1>7. CASE CompensationStep \/ DeactivateStep \/ CollectStep
    BY <1>7
       DEF CompensationStep, UnwindPersists, CompensationInstalls, CompensationInstallFails,
           CompensationPersists, CompensationPersistFails, CompensationDone, IntegrityFailureLocked,
           DeactivateStep, DeactivatePersists, DeactivatePersistFails, DeactivateInstalls,
           DeactivateInstallFails, CollectStep, DrainPersists, DrainPersistFails, GcInstalls,
           GcInstallFails, GoTo, Return, AfterOldTable, AfterCompensation, AfterCollection
  <1>8. CASE ReconcileStep
    <2>1. op.back \in {"idle", "close_rules", "exit"}
      BY OpParts DEF TypeOK, ControlTypeOK
    <2> QED BY <1>8, <2>1
       DEF ReconcileStep, ReconcileInstalls, ReconcileInstallFails, ReconcilePersists,
           ReconcilePersistFails, ReconcileReturn, GoTo
  <1>9. CASE StartStep
    <2>1. CASE StartPersists
      <3>1. op.kind = "start" /\ op' = op
        BY <2>1 DEF StartPersists, GoTo, DurableInv, StepOfOperation
      <3> QED BY <2>1, <3>1 DEF StartPersists, GoTo, StartPath
    <2> QED BY <1>9, <2>1
       DEF StartStep, StartRemoves, StartLoads, StartQuarantines, StartQuarantineFails,
           StartAudits, StartAuditFails, StartPersistFails, StartInstallsBoundary,
           StartFlips, StartPrograms, StartProgramsUngated, StartFails, GoTo, Return, Abandon
  <1>10. CASE CloseStep \/ Crash \/ ReconcileBegin \/ Boot \/ Shutdown
    BY <1>10 DEF CloseStep, CloseRemoves, CloseFails, Exit, Crash, ProcessGone, GoTo, Abandon,
                 ReconcileBegin, Boot, Shutdown
  <1> QED BY <1>1, <1>2, <1>3, <1>4, <1>5, <1>6, <1>7, <1>8, <1>9, <1>10 DEF Next, LockedStep

\* The tables a step may install.
LEMMA TableStep ==
    ASSUME [Next]_vars
    PROVE  \/ rules' \in {rules, NoRules, Program(mem, 0, FALSE), Program(mem, 0, TRUE),
                          Program(mem, mem.active, FALSE)}
           \/ pc = "act_stage" /\ rules' = StageTable
  <1> USE DEF kernelVars, Installs, InstallFails, FlipTable, OldTable
  <1>1. CASE \/ Kernel \/ UNCHANGED vars \/ IntegrityFailure \/ ReconcileStart \/ ReconcileEnd
             \/ Request \/ Pending \/ PrepareStep
    BY <1>1
       DEF Kernel, KernelNext, Syn, FlowEnd, FlowIdle, vars, IntegrityFailure, ReconcileStart, ReconcileEnd,
           Request, Prepare, PrepareGateFails, ActivateForNewConnections, Rollback,
           ActivateFrame, DeactivateForNewConnections, DrainBegin, GcList, RollbackBegin,
           RequestFrame,
           Pending, GcBegin, CountBegin, CountSucceeds, CountFails, RollbackCountFails,
           DrainFinish, GcFinish, RollbackFinish,
           PrepareStep, PrepareInterrupted, PreparePersists, PreparePersistFails
  <1>2. CASE ActivateStep \/ OffloadStep
    BY <1>2
       DEF ActivateStep, RollbackActivate, ActivateFrame, ActivatePersists, ActivatePersistFails,
           StageInstalls, SweepSucceeds, FlipInstalls, TransactionFails, SweepFails, ActivateDone,
           OffloadStep, OffloadsDown, OffloadsCapture, OffloadsCallFails, ClaimPersists,
           ClaimPersistFails, DisableSucceeds, DisableFails, UnclaimPersists, UnclaimPersistFails,
           RestoreNothing, RestoreCall, RestorePersists, RestorePersistFails
  <1>3. CASE CompensationStep \/ DeactivateStep \/ CollectStep \/ ReconcileStep
    BY <1>3
       DEF CompensationStep, UnwindPersists, CompensationInstalls, CompensationInstallFails,
           CompensationPersists, CompensationPersistFails, CompensationDone, IntegrityFailureLocked,
           DeactivateStep, DeactivatePersists, DeactivatePersistFails, DeactivateInstalls,
           DeactivateInstallFails, CollectStep, DrainPersists, DrainPersistFails, GcInstalls,
           GcInstallFails, ReconcileStep, ReconcileInstalls, ReconcileInstallFails,
           ReconcilePersists, ReconcilePersistFails
  <1>4. CASE StartStep \/ CloseStep \/ Crash \/ ReconcileBegin \/ Boot \/ Shutdown
    BY <1>4
       DEF StartStep, StartRemoves, StartLoads, StartQuarantines, StartQuarantineFails,
           StartAudits, StartAuditFails, StartPersists, StartPersistFails, StartInstallsBoundary,
           StartFlips, StartPrograms, StartProgramsUngated, StartFails, CloseStep, CloseRemoves,
           CloseFails, Exit, Crash, ProcessGone, ReconcileBegin, Boot, Shutdown
  <1> QED BY <1>1, <1>2, <1>3, <1>4 DEF Next, LockedStep

\* The assigned generation of a table has rules.
LEMMA AssignedStep ==
    ASSUME TypeOK, DurableInv, LoadInv, EngineInv, [Next]_vars
    PROVE  rules'.active # 0 => rules'.scope[rules'.active] # None
  <1>0. /\ mem \in States /\ op.saved \in States
        /\ mem.active \in 0 .. MaxId /\ op.saved.active \in 0 .. MaxId
    BY StateTypes, StateParts
  <1>1. ASSUME NEW n, rules' = Program(mem, mem.active, n)
        PROVE  rules'.active # 0 => rules'.scope[rules'.active] # None
    BY <1>0, <1>1, LoadParts DEF Program, Sound, Loadable, Assignable, Has, Live, Retained, Ids
  <1>2. CASE pc = "act_stage" /\ rules' = StageTable
    <2>1. op.saved.art = mem.art
      BY <1>2, OperationKnown DEF ActivationPcs
    <2>2. op.saved.active # 0 => mem.phase[op.saved.active] \in {"active", "draining"}
      BY <1>2 DEF EngineInv, Activating, ActingPcs
    <2>3. op.saved.active # 0 => Has(mem, op.saved.active) /\ mem.art[op.saved.active] \notin Inert
      BY <2>1, LoadParts DEF Sound, Loadable, Assignable, Has
    <2> QED BY <1>0, <1>2, <2>2, <2>3 DEF StageTable, Program, Live, Retained, Ids, Has
  <1>3. CASE rules' \in {rules, NoRules, Program(mem, 0, FALSE), Program(mem, 0, TRUE)}
    BY <1>3 DEF NoRules, Program, EngineInv
  <1> QED BY <1>1, <1>2, <1>3, TableStep

\* The generation an activation would return to keeps its rules.
LEMMA OutgoingStep ==
    ASSUME TypeOK, DurableInv, LoadInv, EngineInv, [Next]_vars, Activating', op'.saved.active # 0
    PROVE  mem'.phase[op'.saved.active] \in {"active", "draining"}
  <1>1. ASSUME NEW id, NEW repair, ActivateLocked(id, repair), pc' = "act_persist"
        PROVE  mem'.phase[op'.saved.active] \in {"active", "draining"}
    <2>1. /\ mem' = IF repair THEN [Activated(mem, id) EXCEPT !.unsafe = FALSE] ELSE Activated(mem, id)
          /\ op'.saved = mem
      BY <1>1, ActivateLockedShape
    <2>2. mem'.phase = Activated(mem, id).phase
      BY <2>1, StateTypes DEF Activated, States
    <2>3. /\ mem.active \in Ids
          /\ Activated(mem, id).phase = [j \in Ids |-> IF j = id THEN "active"
                                       ELSE IF j = mem.active THEN "draining" ELSE mem.phase[j]]
      BY <2>1, StateTypes, StateParts DEF Activated, States, Ids
    <2> QED BY <2>1, <2>2, <2>3
  <1> QED BY <1>1, ActivatingStep DEF EngineInv

\* Engines are built or rebuilt for the generations in memory, or left alone.
EnginesStand(art) == engines' = engines \/ \E m : m.art = art /\ engines' = Reconstructed(m)

LEMMA EnginedKept ==
    ASSUME Engined(mem.art), mem'.art = mem.art, EnginesStand(mem.art)
    PROVE  Engined(mem.art)'
  BY DEF Engined, EnginesStand, Reconstructed

LEMMA EnginedFewer ==
    ASSUME Engined(mem.art), NEW i, mem.art \in [Ids -> OrNone(Artifacts)],
           engines \in [Ids -> OrNone(Artifacts)],
           mem'.art = [mem.art EXCEPT ![i] = None], engines' \in {engines, [engines EXCEPT ![i] = None]}
    PROVE  Engined(mem.art)'
  BY DEF Engined

LEMMA EnginedMore ==
    ASSUME Engined(mem.art), NEW i \in Ids, NEW a, mem.art \in [Ids -> OrNone(Artifacts)],
           NEW e \in [Ids -> OrNone(Artifacts)], \A j \in Ids : mem.art[j] # None => e[j] = mem.art[j],
           mem'.art = [mem.art EXCEPT ![i] = a], engines' = [e EXCEPT ![i] = a]
    PROVE  Engined(mem.art)'
  BY DEF Engined

LEMMA EnginesType == ASSUME TypeOK PROVE engines \in [Ids -> OrNone(Artifacts)]
  BY DEF TypeOK, StateTypeOK

LEMMA EnginedActivates ==
    ASSUME TypeOK, EngineInv, NEW id, NEW repair, ActivateLocked(id, repair)
    PROVE  Engined(mem.art)' /\ pc' \in {"idle", "act_persist"}
  <1>1. mem \in States /\ Engined(mem.art)
    BY StateTypes DEF EngineInv
  <1>2. CASE UNCHANGED <<mem, engines>>
    BY <1>1, <1>2, EnginedKept, ActivateLockedSaves DEF EnginesStand
  <1>3. CASE /\ mem' = IF repair THEN [Activated(mem, id) EXCEPT !.unsafe = FALSE] ELSE Activated(mem, id)
             /\ engines' \in {engines, Reconstructed(Activated(mem, id))}
    <2>1. Activated(mem, id).art = mem.art /\ [Activated(mem, id) EXCEPT !.unsafe = FALSE].art = mem.art
      BY <1>1 DEF Activated, States
    <2>2. mem'.art = mem.art /\ EnginesStand(mem.art)
      BY <1>3, <2>1 DEF EnginesStand
    <2> QED BY <1>1, <2>2, EnginedKept, ActivateLockedSaves
  <1> QED BY <1>2, <1>3, ActivateLockedShape

LEMMA EnginedRequest ==
    ASSUME TypeOK, EngineInv, Request
    PROVE  Engined(mem.art)' /\ pc' \notin {"gc_program", "close_rules"}
  <1>0. /\ mem \in States /\ mem.art \in [Ids -> OrNone(Artifacts)] /\ Engined(mem.art)
        /\ engines \in [Ids -> OrNone(Artifacts)]
    BY StateTypes, StateParts, EnginesType DEF EngineInv
  <1>1. pc = "idle"
    BY DEF Request, Prepare, PrepareGateFails, ActivateForNewConnections, Rollback,
           DeactivateForNewConnections, DrainBegin, GcList, RollbackBegin, MayRequest, Idle
  <1>2. ASSUME NEW a \in Artifacts, Prepare(a)
        PROVE  Engined(mem.art)' /\ pc' \in {"idle", "prep_persist"}
    <2> DEFINE id == NextGeneration(mem, IF latched THEN Reserve(mem, Counts) ELSE reserved)
               e == IF latched THEN Reconstructed(mem) ELSE engines
    <2>1. \/ mem' = mem /\ pc' = pc /\ engines' = e
          \/ /\ mem' = Prepared(mem, id, a) /\ id # 0 /\ pc' = "prep_persist"
             /\ engines' = [e EXCEPT ![id] = a]
      BY <1>2 DEF Prepare
    <2>2. CASE mem' = mem /\ pc' = pc /\ engines' = e
      BY <1>0, <1>1, <2>2, EnginedKept DEF EnginesStand
    <2>3. CASE /\ mem' = Prepared(mem, id, a) /\ id # 0 /\ pc' = "prep_persist"
               /\ engines' = [e EXCEPT ![id] = a]
      <3>1. id \in Ids
        BY <2>3, NextGenerationFree
      <3>2. mem'.art = [mem.art EXCEPT ![id] = a]
        BY <1>0, <2>3, <3>1, PreparedArt
      <3>3. /\ e \in [Ids -> OrNone(Artifacts)]
            /\ \A j \in Ids : mem.art[j] # None => e[j] = mem.art[j]
        BY <1>0 DEF Reconstructed, Engined
      <3> HIDE DEF id, e
      <3> QED BY <1>0, <2>3, <3>1, <3>2, <3>3, EnginedMore
    <2> QED BY <2>1, <2>2, <2>3
  <1>3. ASSUME NEW a \in Artifacts, ActivateForNewConnections(a) \/ Rollback(a)
        PROVE  Engined(mem.art)' /\ pc' \in {"idle", "act_persist"}
    <2>1. \E id, repair : ActivateLocked(id, repair)
      BY <1>3 DEF ActivateForNewConnections, Rollback
    <2> QED BY <2>1, EnginedActivates
  <1>4. ASSUME NEW a \in Artifacts, DeactivateForNewConnections(a)
        PROVE  Engined(mem.art)' /\ pc' = "deact_persist"
    <2>1. mem' = Deactivated(mem) /\ engines' = engines /\ pc' = "deact_persist"
      BY <1>4 DEF DeactivateForNewConnections, engineVars
    <2>2. mem'.art = mem.art
      BY <1>0, <2>1, ArtKept
    <2> QED BY <1>0, <2>1, <2>2, EnginedKept DEF EnginesStand
  <1>5. CASE UNCHANGED <<pc, mem, engines>>
    BY <1>0, <1>1, <1>5, EnginedKept DEF EnginesStand
  <1>6. ASSUME \/ PrepareGateFails
               \/ \E c \in Clients : \/ \E a \in Artifacts : DrainBegin(c, a) \/ RollbackBegin(c, a)
                                     \/ \E i \in Ids : GcList(c, i)
        PROVE  UNCHANGED <<pc, mem, engines>>
    BY <1>6 DEF PrepareGateFails, DrainBegin, GcList, RollbackBegin, RequestFrame, engineVars
  <1> QED BY <1>2, <1>3, <1>4, <1>5, <1>6 DEF Request

LEMMA EnginedPending ==
    ASSUME TypeOK, LoadInv, EngineInv, Pending
    PROVE  /\ Engined(mem.art)'
           /\ pc' = "gc_program" /\ pc # "gc_program" => mem'.art[op'.id] = None /\ Engined(op.saved.art)'
           /\ pc' = "close_rules" => pc = "close_rules" /\ op' = op
           /\ pc = "gc_program" => UNCHANGED <<pc, op, mem, engines>>
  <1>0. /\ mem \in States /\ mem.art \in [Ids -> OrNone(Artifacts)] /\ Engined(mem.art)
        /\ engines \in [Ids -> OrNone(Artifacts)]
    BY StateTypes, StateParts, EnginesType DEF EngineInv
  <1>1. ASSUME NEW c \in Clients, GcFinish(c), ~ UNCHANGED <<pc, op>>
        PROVE  /\ Engined(mem.art)' /\ pc = "idle" /\ pc' = "gc_program"
               /\ mem'.art[op'.id] = None /\ Engined(op.saved.art)'
    <2> DEFINE i == pend[c].id
    <2>1. /\ pc = "idle" /\ pc' = "gc_program" /\ engines' = engines
          /\ op' = [NoOp EXCEPT !.kind = "gc", !.id = i, !.saved = mem]
          /\ mem' = [Without(mem, i) EXCEPT !.previous = IF @ = i THEN 0 ELSE @]
      BY <1>1 DEF GcFinish, Idle, engineVars
    <2>2. i \in Ids
      BY <1>1, LoadParts DEF GcFinish, Asked
    <2> HIDE DEF i
    <2>3. mem'.art = [mem.art EXCEPT ![i] = None]
      BY <1>0, <2>1, <2>2, WithoutArt
    <2>4. op'.id = i /\ op'.saved = mem
      BY <2>1 DEF NoOp
    <2> QED BY <1>0, <2>1, <2>2, <2>3, <2>4, EnginedFewer DEF Engined
  <1>2. ASSUME NEW c \in Clients,
               DrainFinish(c) \/ RollbackCountFails(c) \/ (GcFinish(c) /\ UNCHANGED <<pc, op>>)
        PROVE  Engined(mem.art)' /\ pc = "idle" /\ pc' \in {"idle", "drain_persist", "comp_done"}
    <2>1. /\ pc = "idle" /\ pc' \in {"idle", "drain_persist", "comp_done"} /\ engines' = engines
      BY <1>2 DEF DrainFinish, RollbackCountFails, GcFinish, Idle, engineVars
    <2>2. mem'.art = mem.art
      <3>1. \/ mem' = mem \/ mem' = [mem EXCEPT !.unsafe = TRUE]
            \/ mem' = [mem EXCEPT !.phase = [@ EXCEPT ![pend[c].id] = DrainPhase(pend[c])]]
        BY <1>2 DEF DrainFinish, RollbackCountFails, GcFinish, Idle
      <3>2. [mem EXCEPT !.phase = [@ EXCEPT ![pend[c].id] = DrainPhase(pend[c])]].art = mem.art
        BY <1>0 DEF States
      <3> QED BY <1>0, <3>1, <3>2, ArtKept
    <2> QED BY <1>0, <2>1, <2>2, EnginedKept DEF EnginesStand
  <1>3. ASSUME NEW c \in Clients, RollbackFinish(c)
        PROVE  Engined(mem.art)' /\ pc = "idle" /\ pc' \in {"idle", "act_persist", "rollback_persist"}
    <2> DEFINE id == NextGeneration(mem, Reserve(mem, pend[c].ids))
    <2>1. /\ pc = "idle"
          /\ \/ UNCHANGED <<mem, engines, pc>>
             \/ \E i : ActivateLocked(i, TRUE)
             \/ /\ id # 0 /\ mem' = Prepared(mem, id, pend[c].art) /\ pc' = "rollback_persist"
                /\ engines' = [engines EXCEPT ![id] = pend[c].art]
      BY <1>3 DEF RollbackFinish, Idle
    <2>2. CASE UNCHANGED <<mem, engines, pc>>
      BY <1>0, <2>1, <2>2, EnginedKept DEF EnginesStand
    <2>3. CASE /\ id # 0 /\ mem' = Prepared(mem, id, pend[c].art) /\ pc' = "rollback_persist"
               /\ engines' = [engines EXCEPT ![id] = pend[c].art]
      <3>1. id \in Ids
        BY <2>3, NextGenerationFree
      <3> HIDE DEF id
      <3>2. mem'.art = [mem.art EXCEPT ![id] = pend[c].art]
        BY <1>0, <2>3, <3>1, PreparedArt
      <3> QED BY <1>0, <2>1, <2>3, <3>1, <3>2, EnginedMore DEF Engined
    <2> QED BY <2>1, <2>2, <2>3, EnginedActivates
  <1>4. ASSUME NEW c \in Clients, GcBegin(c) \/ CountBegin(c) \/ CountSucceeds(c) \/ CountFails(c)
        PROVE  UNCHANGED <<pc, op, mem, engines>>
    BY <1>4 DEF GcBegin, CountBegin, CountSucceeds, CountFails, RequestFrame, engineVars
  <1>5. CASE UNCHANGED <<pc, op, mem, engines>>
    BY <1>0, <1>5, EnginedKept DEF EnginesStand
  <1> QED BY <1>1, <1>2, <1>3, <1>4, <1>5 DEF Pending

LEMMA EnginedPrepareStep ==
    ASSUME TypeOK, EngineInv, PrepareStep
    PROVE  Engined(mem.art)' /\ pc' \in {"idle", "rollback_activate"}
  <1>0. /\ mem \in States /\ mem.art \in [Ids -> OrNone(Artifacts)] /\ Engined(mem.art)
        /\ engines \in [Ids -> OrNone(Artifacts)]
    BY StateTypes, StateParts, EnginesType DEF EngineInv
  <1>1. CASE PreparePersists
    <2>1. mem' = mem /\ engines' = engines /\ pc' \in {"idle", "rollback_activate"}
      BY <1>1 DEF PreparePersists, Return, GoTo, engineVars
    <2> QED BY <1>0, <2>1, EnginedKept DEF EnginesStand
  <1>2. CASE PrepareInterrupted \/ PreparePersistFails
    <2>1. /\ mem' \in {Without(mem, op.id), Without(MarkUnsafe(mem), op.id)}
          /\ engines' = [engines EXCEPT ![op.id] = None] /\ pc' = "idle"
      BY <1>2 DEF PrepareInterrupted, PreparePersistFails, Unprepare, Return
    <2>2. MarkUnsafe(mem) \in States /\ MarkUnsafe(mem).art = mem.art
      BY <1>0, MarkUnsafeType, ArtKept
    <2>3. \A m \in States : Without(m, op.id).art = [m.art EXCEPT ![op.id] = None]
      BY DEF Without, States
    <2>4. mem'.art = [mem.art EXCEPT ![op.id] = None]
      BY <1>0, <2>1, <2>2, <2>3
    <2> QED BY <1>0, <2>1, <2>4, EnginedFewer
  <1> QED BY <1>1, <1>2 DEF PrepareStep

\* The compensations bring back the generations too: these steps leave
\* memory's artifacts alone.
LEMMA LockedArt ==
    ASSUME TypeOK, DurableInv,
           ActivateStep \/ OffloadStep \/ CompensationStep \/ DeactivateStep \/ ReconcileStep,
           ~ RollbackActivate
    PROVE  mem'.art = mem.art
  <1>0. mem \in States /\ MarkUnsafe(mem) \in States /\ op.saved \in States
    BY StateTypes, MarkUnsafeType
  <1>1. CASE ActivateStep
    <2>1. CASE ActivatePersistFails \/ TransactionFails \/ SweepFails
      <3>1. pc \in ActivationPcs /\ \E durable : RestoreState(durable)
        BY <2>1 DEF ActivatePersistFails, TransactionFails, SweepFails, ActivationPcs
      <3> QED BY <3>1, RestoredArt, OperationKnown
    <2> QED BY <1>1, <2>1
         DEF ActivateStep, ActivatePersists, StageInstalls, SweepSucceeds, FlipInstalls, ActivateDone
  <1>2. CASE OffloadStep
    <2>1. ASSUME NEW m, m.art = mem.art, NEW durable, OffloadsFailed(m, durable), pc \in ClaimPcs
          PROVE  mem'.art = mem.art
      <3>1. CASE op.kind = "start"
        BY <2>1, <3>1 DEF OffloadsFailed
      <3>2. CASE op.kind # "start"
        <4>1. op.saved.art = mem.art
          BY <2>1, <3>2, OperationKnown
        <4>2. mem' = [op.saved EXCEPT !.offloads = m.offloads, !.unsafe = @ \/ ~ durable]
          BY <2>1, <3>2 DEF OffloadsFailed
        <4> QED BY <1>0, <4>1, <4>2, UndoneBooks DEF SameBooks
      <3> QED BY <3>1, <3>2
    <2>2. CASE OffloadsCallFails \/ UnclaimPersists \/ ClaimPersistFails \/ UnclaimPersistFails
      <3>1. /\ pc \in ClaimPcs
            /\ \E m \in {mem, MarkUnsafe(mem), [MarkUnsafe(mem) EXCEPT !.offloads = FALSE]}, durable \in BOOLEAN :
                  OffloadsFailed(m, durable)
        BY <2>2 DEF OffloadsCallFails, UnclaimPersists, ClaimPersistFails, UnclaimPersistFails,
                   ClaimPcs, TypeOK, FlagTypeOK
      <3>2. \A m \in {mem, MarkUnsafe(mem), [MarkUnsafe(mem) EXCEPT !.offloads = FALSE]} :
               m.art = mem.art
        BY <1>0, ArtKept
      <3> QED BY <2>1, <3>1, <3>2
    <2>3. CASE /\ OffloadStep
               /\ ~ (OffloadsCallFails \/ UnclaimPersists \/ ClaimPersistFails \/ UnclaimPersistFails)
      <3>1. mem' \in {mem, [mem EXCEPT !.offloads = TRUE], [mem EXCEPT !.offloads = FALSE], MarkUnsafe(mem)}
        BY <2>3
           DEF OffloadStep, OffloadsDown, OffloadsCapture, ClaimPersists, DisableSucceeds,
               DisableFails, RestoreNothing, RestoreCall, RestorePersists, RestorePersistFails
      <3> QED BY <1>0, <3>1, ArtKept
    <2> QED BY <1>2, <2>2, <2>3
  <1>3. CASE CompensationStep \/ ReconcileStep
    <2>1. mem' \in {mem, MarkUnsafe(mem), Quarantined(mem)}
      BY <1>3
         DEF CompensationStep, UnwindPersists, CompensationInstalls, CompensationInstallFails,
             CompensationPersists, CompensationPersistFails, CompensationDone, IntegrityFailureLocked,
             ReconcileStep, ReconcileInstalls, ReconcileInstallFails,
             ReconcilePersists, ReconcilePersistFails
    <2> QED BY <1>0, <2>1, ArtKept
  <1>4. CASE DeactivateStep
    <2>1. /\ pc \in DeactivationPcs
          /\ mem' \in {mem, Restored, [Restored EXCEPT !.unsafe = MarkUnsafe(mem).unsafe]}
      BY <1>4
         DEF DeactivateStep, DeactivatePersists, DeactivatePersistFails, DeactivateInstalls,
             DeactivateInstallFails, DeactivationPcs
    <2>2. op.saved.art = mem.art
      BY <2>1, OperationKnown
    <2> QED BY <2>1, <2>2, RestoredArt
  <1> QED BY <1>1, <1>2, <1>3, <1>4

\* Steps that leave engines alone, and memory's artifacts.
LEMMA EnginedLocked ==
    ASSUME TypeOK, DurableInv, EngineInv,
           ActivateStep \/ OffloadStep \/ CompensationStep \/ DeactivateStep \/ ReconcileStep
    PROVE  Engined(mem.art)'
  <1>0. /\ mem \in States /\ MarkUnsafe(mem) \in States /\ op.saved \in States /\ Engined(mem.art)
    BY StateTypes, MarkUnsafeType DEF EngineInv
  <1>1. CASE RollbackActivate
    <2>1. UNCHANGED <<mem, engines>> \/ \E i : ActivateLocked(i, TRUE)
      BY <1>1 DEF RollbackActivate
    <2> QED BY <1>0, <2>1, EnginedKept, EnginedActivates DEF EnginesStand
  <1>2. CASE /\ ActivateStep \/ OffloadStep \/ CompensationStep \/ DeactivateStep \/ ReconcileStep
             /\ ~ RollbackActivate
    <2>1. engines' = engines
      BY <1>2
         DEF ActivateStep, ActivatePersists, ActivatePersistFails,
           StageInstalls, SweepSucceeds, FlipInstalls, TransactionFails, SweepFails, ActivateDone,
           OffloadStep, OffloadsDown, OffloadsCapture, OffloadsCallFails, ClaimPersists,
           ClaimPersistFails, DisableSucceeds, DisableFails, UnclaimPersists, UnclaimPersistFails,
           RestoreNothing, RestoreCall, RestorePersists, RestorePersistFails,
           CompensationStep, UnwindPersists, CompensationInstalls, CompensationInstallFails,
           CompensationPersists, CompensationPersistFails, CompensationDone, IntegrityFailureLocked,
           DeactivateStep, DeactivatePersists, DeactivatePersistFails, DeactivateInstalls,
           DeactivateInstallFails, ReconcileStep, ReconcileInstalls, ReconcileInstallFails,
           ReconcilePersists, ReconcilePersistFails, engineVars
    <2>2. mem'.art = mem.art
      BY <1>2, LockedArt
    <2> QED BY <1>0, <2>1, <2>2, EnginedKept DEF EnginesStand
  <1> QED BY <1>1, <1>2

LEMMA EnginedCollectStep ==
    ASSUME TypeOK, DurableInv, EngineInv, CollectStep
    PROVE  Engined(mem.art)' /\ pc' \notin {"gc_program", "close_rules"}
  <1>0. /\ mem \in States /\ mem.art \in [Ids -> OrNone(Artifacts)] /\ Engined(mem.art)
        /\ engines \in [Ids -> OrNone(Artifacts)]
    BY StateTypes, StateParts, EnginesType DEF EngineInv
  <1>1. CASE DrainPersists \/ DrainPersistFails
    <2>1. mem' \in {mem, MarkUnsafe(mem)} /\ engines' = engines /\ pc' = "idle"
      BY <1>1 DEF DrainPersists, DrainPersistFails, Return, engineVars
    <2>2. mem'.art = mem.art
      BY <1>0, <2>1, ArtKept
    <2> QED BY <1>0, <2>1, <2>2, EnginedKept DEF EnginesStand
  <1>2. CASE GcInstalls
    <2>1. /\ mem' = mem /\ engines' = [engines EXCEPT ![op.id] = None] /\ mem.art[op.id] = None
          /\ pc' \in {"gc_persist", "restore"}
      BY <1>2 DEF GcInstalls, GoTo, AfterCollection, EngineInv
    <2> QED BY <1>0, <2>1 DEF Engined
  <1>3. CASE GcInstallFails
    <2>1. mem'.art = op.saved.art /\ engines' = engines /\ Engined(op.saved.art) /\ pc' = "comp_program"
      BY <1>3, RestoredArt DEF GcInstallFails, GoTo, EngineInv, engineVars
    <2> QED BY <2>1 DEF Engined
  <1> QED BY <1>1, <1>2, <1>3 DEF CollectStep

LEMMA StartArt ==
    ASSUME TypeOK, StartStep, ~ StartLoads, ~ StartQuarantines
    PROVE  mem'.art = mem.art
  <1>0. mem \in States
    BY StateTypes
  <1>1. CASE StartAudits
    <2>1. [mem EXCEPT !.unsafe = TRUE, !.active = 0] \in States
      BY AuditedType
    <2>2. [mem EXCEPT !.unsafe = TRUE, !.active = 0].art = mem.art
      BY <1>0 DEF States
    <2>3. PICK m \in {mem, [mem EXCEPT !.unsafe = TRUE, !.active = 0]} : mem' \in {m, Quarantined(m)}
      BY <1>1 DEF StartAudits
    <2>4. m \in States /\ m.art = mem.art
      BY <1>0, <2>1, <2>2
    <2> QED BY <2>3, <2>4, ArtKept
  <1>2. CASE StartAuditFails
    BY <1>0, <1>2 DEF StartAuditFails, States
  <1>3. CASE StartQuarantineFails
    <2>1. PICK b : mem' = [mem EXCEPT !.offloads = b]
      BY <1>3 DEF StartQuarantineFails
    <2> QED BY <1>0, <2>1, ArtKept
  <1>4. CASE ~ StartAudits /\ ~ StartAuditFails /\ ~ StartQuarantineFails
    <2>1. mem' \in {mem, MarkUnsafe(mem)}
      BY <1>4
         DEF StartStep, StartRemoves, StartPersists, StartPersistFails, StartInstallsBoundary,
             StartFlips, StartPrograms, StartProgramsUngated, StartFails
    <2> QED BY <1>0, <2>1, ArtKept
  <1> QED BY <1>1, <1>2, <1>3, <1>4

LEMMA EnginedStartStep ==
    ASSUME TypeOK, DurableInv, EngineInv, StartStep
    PROVE  Engined(mem.art)'
  <1>0. mem \in States /\ Engined(mem.art)
    BY StateTypes DEF EngineInv
  <1>1. CASE StartLoads
    <2>1. \/ mem' = mem /\ engines' = engines
          \/ mem' = disk /\ engines' = disk.art
      BY <1>1 DEF StartLoads
    <2> QED BY <1>0, <2>1 DEF Engined
  <1>2. CASE StartQuarantines
    <2>1. \E b : mem' = [EmptyState EXCEPT !.unsafe = TRUE, !.offloads = b]
      BY <1>2 DEF StartQuarantines
    <2>2. \A i \in Ids : mem'.art[i] = None
      BY <2>1 DEF EmptyState
    <2> QED BY <2>2 DEF Engined
  <1>3. CASE StartStep /\ ~ StartLoads /\ ~ StartQuarantines
    <2>1. engines' = engines
      BY <1>3
         DEF StartStep, StartRemoves, StartQuarantineFails, StartAudits, StartAuditFails,
             StartPersists, StartPersistFails, StartInstallsBoundary, StartFlips, StartPrograms,
             StartProgramsUngated, StartFails, engineVars
    <2>2. mem'.art = mem.art
      BY <1>3, StartArt
    <2> QED BY <1>0, <2>1, <2>2, EnginedKept DEF EnginesStand
  <1> QED BY <1>1, <1>2, <1>3

LEMMA EnginedStep ==
    ASSUME TypeOK, DurableInv, LoadInv, EngineInv, [Next]_vars
    PROVE  Engined(mem.art)'
  <1>0. mem \in States /\ Engined(mem.art)
    BY StateTypes DEF EngineInv
  <1>1. CASE Kernel \/ UNCHANGED vars \/ IntegrityFailure \/ ReconcileStart \/ ReconcileEnd
    <2>1. mem' = mem /\ engines' = engines
      BY <1>1 DEF Kernel, controllerVars, vars, IntegrityFailure, ReconcileStart, ReconcileEnd,
                  engineVars
    <2> QED BY <1>0, <2>1, EnginedKept DEF EnginesStand
  <1>2. CASE Exit \/ Crash
    <2>1. mem' = EmptyState
      BY <1>2 DEF Exit, Crash, ProcessGone
    <2> QED BY <2>1 DEF EmptyState, Engined
  <1>3. CASE CloseRemoves \/ CloseFails \/ ReconcileBegin \/ Boot \/ Shutdown
    <2>1. mem' \in {mem, Quarantined(mem)} /\ engines' = engines
      BY <1>3 DEF CloseRemoves, CloseFails, ReconcileBegin, Boot, Shutdown, engineVars
    <2>2. mem'.art = mem.art
      BY <1>0, <2>1, ArtKept
    <2> QED BY <1>0, <2>1, <2>2, EnginedKept DEF EnginesStand
  <1> QED BY <1>1, <1>2, <1>3, EnginedRequest, EnginedPending, EnginedPrepareStep, EnginedLocked,
             EnginedCollectStep, EnginedStartStep DEF Next, LockedStep, CloseStep

\* A collection's transaction follows its second hold of the mutex.
LEMMA CollectingStep ==
    ASSUME TypeOK, DurableInv, LoadInv, EngineInv, [Next]_vars, pc' = "gc_program"
    PROVE  mem'.art[op'.id] = None /\ Engined(op.saved.art)'
  <1>1. CASE Kernel \/ UNCHANGED vars \/ IntegrityFailure \/ ReconcileStart \/ ReconcileEnd
    <2>1. UNCHANGED <<pc, op, mem, engines>>
      BY <1>1 DEF Kernel, controllerVars, vars, IntegrityFailure, ReconcileStart, ReconcileEnd,
                  engineVars
    <2> QED BY <2>1 DEF EngineInv, Engined
  <1>2. CASE Pending
    BY <1>2, EnginedPending DEF EngineInv, Engined
  <1>3. CASE ActivateStep
    <2>1. CASE RollbackActivate
      <3>1. pc' = "idle" \/ \E i : ActivateLocked(i, TRUE)
        BY <2>1 DEF RollbackActivate, Return
      <3> QED BY <3>1, ActivateLockedSaves
    <2> QED BY <1>3, <2>1
       DEF ActivateStep, ActivatePersists, ActivatePersistFails, StageInstalls, SweepSucceeds,
           FlipInstalls, TransactionFails, SweepFails, ActivateDone, GoTo, Return
  <1>4. CASE OffloadStep
    <2>1. ASSUME NEW m, NEW durable, OffloadsFailed(m, durable)
          PROVE  pc' \in {"close_rules", "act_unwind"}
      BY <2>1 DEF OffloadsFailed, GoTo
    <2>2. ASSUME NEW failed, RestoreReturns(failed)
          PROVE  pc' \in {"idle", "gc_persist", "close_rules", "exit", "comp_done"}
      BY <2>2 DEF RestoreReturns, AfterRestore
    <2> QED BY <1>4, <2>1, <2>2
       DEF OffloadStep, OffloadsDown, OffloadsCapture, OffloadsCallFails, ClaimPersists,
           ClaimPersistFails, DisableSucceeds, DisableFails, UnclaimPersists, UnclaimPersistFails,
           RestoreNothing, RestoreCall, RestorePersists, RestorePersistFails, OffloadsDone, GoTo,
           StartPath
  <1>5. CASE CompensationStep \/ DeactivateStep
    BY <1>5
       DEF CompensationStep, UnwindPersists, CompensationInstalls, CompensationInstallFails,
           CompensationPersists, CompensationPersistFails, CompensationDone, IntegrityFailureLocked,
           DeactivateStep, DeactivatePersists, DeactivatePersistFails, DeactivateInstalls,
           DeactivateInstallFails, GoTo, Return, AfterOldTable, AfterCompensation
  <1>6. CASE ReconcileStep
    <2>1. op.back \in {"idle", "close_rules", "exit"}
      BY OpParts DEF TypeOK, ControlTypeOK
    <2> QED BY <1>6, <2>1
       DEF ReconcileStep, ReconcileInstalls, ReconcileInstallFails, ReconcilePersists,
           ReconcilePersistFails, ReconcileReturn, GoTo
  <1>7. CASE StartStep
    BY <1>7
       DEF StartStep, StartRemoves, StartLoads, StartQuarantines, StartQuarantineFails,
           StartAudits, StartAuditFails, StartPersists, StartPersistFails, StartInstallsBoundary,
           StartFlips, StartPrograms, StartProgramsUngated, StartFails, GoTo, Return, Abandon,
           StartPath
  <1>8. CASE CloseStep \/ Crash \/ ReconcileBegin \/ Boot \/ Shutdown
    BY <1>8 DEF CloseStep, CloseRemoves, CloseFails, Exit, Crash, ProcessGone, GoTo, Abandon,
                 ReconcileBegin, Boot, Shutdown
  <1> QED BY <1>1, <1>2, <1>3, <1>4, <1>5, <1>6, <1>7, <1>8, EnginedRequest, EnginedPrepareStep,
             EnginedCollectStep DEF Next, LockedStep

\* The table is removed last by Close alone.
LEMMA ClosingStep ==
    ASSUME TypeOK, LoadInv, EngineInv, DurableInv, [Next]_vars, pc' = "close_rules"
    PROVE  op'.kind = "close"
  <1> USE NoOpKind
  <1>1. CASE Kernel \/ UNCHANGED vars \/ IntegrityFailure \/ ReconcileStart \/ ReconcileEnd
    BY <1>1, LooksStep DEF EngineInv
  <1>2. CASE Pending
    BY <1>2, EnginedPending DEF EngineInv
  <1>3. CASE ActivateStep
    <2>1. CASE RollbackActivate
      <3>1. pc' = "idle" \/ \E i : ActivateLocked(i, TRUE)
        BY <2>1 DEF RollbackActivate, Return
      <3> QED BY <3>1, ActivateLockedSaves
    <2> QED BY <1>3, <2>1
       DEF ActivateStep, ActivatePersists, ActivatePersistFails, StageInstalls, SweepSucceeds,
           FlipInstalls, TransactionFails, SweepFails, ActivateDone, GoTo, Return
  <1>4. CASE OffloadStep
    <2>1. ASSUME NEW m, NEW durable, OffloadsFailed(m, durable)
          PROVE  pc' = "close_rules" => op' = [NoOp EXCEPT !.kind = "close"]
      BY <2>1 DEF OffloadsFailed, GoTo
    <2>2. ASSUME NEW failed, RestoreReturns(failed)
          PROVE  pc' = "close_rules" => op' = [NoOp EXCEPT !.kind = "close"]
      BY <2>2 DEF RestoreReturns
    <2> QED BY <1>4, <2>1, <2>2
       DEF OffloadStep, OffloadsDown, OffloadsCapture, OffloadsCallFails, ClaimPersists,
           ClaimPersistFails, DisableSucceeds, DisableFails, UnclaimPersists, UnclaimPersistFails,
           RestoreNothing, RestoreCall, RestorePersists, RestorePersistFails, OffloadsDone, GoTo,
           StartPath
  <1>5. CASE CompensationStep \/ DeactivateStep
    BY <1>5
       DEF CompensationStep, UnwindPersists, CompensationInstalls, CompensationInstallFails,
           CompensationPersists, CompensationPersistFails, CompensationDone, IntegrityFailureLocked,
           DeactivateStep, DeactivatePersists, DeactivatePersistFails, DeactivateInstalls,
           DeactivateInstallFails, GoTo, Return, AfterOldTable, AfterCompensation
  <1>6. CASE ReconcileStep
    <2>1. op' = [op EXCEPT !.kind = "close", !.back = "idle"]
      BY <1>6
         DEF ReconcileStep, ReconcileInstalls, ReconcileInstallFails, ReconcilePersists,
             ReconcilePersistFails, ReconcileReturn, GoTo
    <2> QED BY <2>1, OpKept
  <1>7. CASE StartStep
    <2>1. op' = [NoOp EXCEPT !.kind = "close"]
      BY <1>7
       DEF StartStep, StartRemoves, StartLoads, StartQuarantines, StartQuarantineFails,
           StartAudits, StartAuditFails, StartPersists, StartPersistFails, StartInstallsBoundary,
           StartFlips, StartPrograms, StartProgramsUngated, StartFails, GoTo, Return, Abandon,
           StartPath
    <2> QED BY <2>1
  <1>8. CASE CloseStep
    BY <1>8 DEF CloseStep, CloseRemoves, CloseFails, Exit, ProcessGone, GoTo, EngineInv
  <1>9. CASE Crash \/ ReconcileBegin \/ Boot \/ Shutdown
    BY <1>9 DEF Crash, ProcessGone, GoTo, Abandon, ReconcileBegin, Boot, Shutdown
  <1> QED BY <1>1, <1>2, <1>3, <1>4, <1>5, <1>6, <1>7, <1>8, <1>9, EnginedRequest, EnginedPrepareStep,
             EnginedCollectStep DEF Next, LockedStep

LEMMA EngineNext ==
    ASSUME TypeOK, DurableInv, LoadInv, EngineInv, [Next]_vars
    PROVE  EngineInv'
  BY EnginedStep, CollectingStep, ClosingStep, OutgoingStep, AssignedStep DEF EngineInv

LEMMA EngineInit == Init => EngineInv
  BY DEF Init, KernelInit, NoRules, NoOp, EmptyState, EngineInv, Engined, Activating, ActingPcs, ClaimPcs

\* The table's rules are of generations in memory, and those have engines.
LEMMA EnginesCover ==
    ASSUME DurableInv, EngineInv
    PROVE  EngineCoverage
  <1>1. ASSUME pc \notin {"down", "start_remove", "exit"}, op.kind # "close", NEW i \in Ids,
               rules.scope[i] # None
        PROVE  engines[i] = rules.scope[i]
    <2>1. Known(IF pc = "gc_program" THEN op.saved.art ELSE mem.art)
      BY <1>1 DEF DurableInv, TableKnown, EngineInv
    <2> QED BY <1>1, <2>1 DEF Known, EngineInv, Engined
  <1> QED BY <1>1 DEF EngineCoverage, EngineInv

\* From the removal of a predecessor's table to shutdown, every generation that
\* the table queues packets for has its own engine, and the assigned one has
\* queue rules, however operations fail, overlap and are undone
\* (activateLocked, GarbageCollectGeneration, prepareLocked).
THEOREM RulesHaveEngines == Spec => []EngineCoverage
  <1>1. TypeOK /\ DurableInv /\ [Next]_vars => DurableInv'
    BY DurableNext
  <1>2. TypeOK /\ LoadInv /\ [Next]_vars => LoadInv'
    BY LoadNext
  <1>3. TypeOK /\ DurableInv /\ LoadInv /\ EngineInv /\ [Next]_vars => EngineInv'
    BY EngineNext
  <1>4. DurableInv /\ EngineInv => EngineCoverage
    BY EnginesCover
  <1> QED BY <1>1, <1>2, <1>3, <1>4, DurableInit, LoadInit, EngineInit, TypeCorrect, PTL DEF Spec
=============================================================================
