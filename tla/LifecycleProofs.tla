--------------------------- MODULE LifecycleProofs ---------------------------
(***************************************************************************)
(* Theorems about module Lifecycle: what the table assigns, what an unsafe *)
(* controller may assign, who is unowned while a generation is assigned,   *)
(* which strategy a marked connection meets, that all this implements the  *)
(* contract of module Connections, and that the NIC's offloads are down    *)
(* while packets are steered.  Each section has an inductive invariant     *)
(* that rests on the ones before it and on those of TypeCorrectness and    *)
(* DurabilityProofs.                                                       *)
(***************************************************************************)
EXTENDS DurabilityProofs

-----------------------------------------------------------------------------
\* Agreement on the assignment

AtRest == rules.active = mem.active /\ engActive = mem.active /\ ~ rules.neutral

\* Steps before which table, registry and memory agree: an operation has not
\* touched the table, or has finished with it.
Resting ==
    \/ pc \in {"idle", "prep_persist", "rollback_persist", "rollback_activate", "drain_persist",
               "gc_program", "gc_persist", "act_unwind", "rec_persist"}
    \/ pc \in {"comp_persist", "comp_done"} /\ ~ op.failed
    \/ /\ pc \in {"restore", "restore_persist"}
       /\ op.kind \in {"gc", "start"} \/ (op.kind # "close" /\ ~ op.failed)

\* Elsewhere an operation knows what the table and the registry still have.
InStep ==
    /\ Resting => AtRest
    /\ Activating => engActive = op.saved.active /\ mem.active = op.id
    /\ Activating /\ pc \notin {"act_sweep", "act_flip"} =>
          rules.active = op.saved.active /\ ~ rules.neutral
    /\ pc = "act_engine" => rules.active = mem.active /\ mem.active = op.id /\ ~ rules.neutral
    /\ pc \in {"deact_persist", "deact_program"} => engActive = op.saved.active
    /\ pc = "comp_program" => engActive = mem.active

\* What an operation has assigned in memory before its transaction.
Assigning ==
    /\ pc \in {"deact_persist", "deact_program"} => mem.active = 0
    /\ pc = "gc_program" => op.saved.active = mem.active
    /\ pc = "comp_program" => op.kind \in {"activate", "deactivate", "gc"}
    /\ pc = "comp_persist" => op.kind \in {"activate", "deactivate"}
    /\ pc = "gc_program" => op.kind = "gc"
    /\ pc \in {"rec_program", "rec_remove"} => mem.active = 0 /\ engActive = 0
    /\ pc \in {"down", "start_remove", "start_load", "start_program"} => mem.active = 0
    /\ pc = "start_audit" => mem.active = 0 \/ op.loaded
    /\ pc = "start_persist" \/ (pc \in ClaimPcs /\ op.kind = "start") =>
          mem.active = 0 \/ (op.loaded /\ ~ mem.unsafe)

\* A process on its way out no longer undoes what its operations did.
Agreement == (persistFatal => fatal) /\ (fatal \/ InStep) /\ Assigning

-----------------------------------------------------------------------------
\* The assignment in the values that operations give to mem, rules and op

LEMMA ActiveFields ==
    ASSUME NEW m \in States
    PROVE  /\ MarkUnsafe(m).active = m.active
           /\ Quarantined(m).active = 0 /\ Quarantined(m).unsafe
           /\ Deactivated(m).active = 0 /\ Deactivated(m).unsafe = m.unsafe
           /\ \A i : Activated(m, i).active = i /\ Activated(m, i).unsafe = m.unsafe
           /\ \A i : LET n == [Activated(m, i) EXCEPT !.unsafe = FALSE] IN n.active = i /\ ~ n.unsafe
           /\ \A i : Without(m, i).active = m.active /\ Without(m, i).unsafe = m.unsafe
           /\ \A i, a : Prepared(m, i, a).active = m.active /\ Prepared(m, i, a).unsafe = m.unsafe
           /\ \A b : LET n == [m EXCEPT !.offloads = b] IN n.active = m.active /\ n.unsafe = m.unsafe
           /\ LET n == [m EXCEPT !.offloads = TRUE] IN n.active = m.active /\ n.unsafe = m.unsafe
           /\ LET n == [m EXCEPT !.offloads = FALSE] IN n.active = m.active /\ n.unsafe = m.unsafe
           /\ LET n == [m EXCEPT !.unsafe = TRUE] IN n.active = m.active /\ n.unsafe
           /\ LET n == [m EXCEPT !.unsafe = TRUE, !.active = 0] IN n.active = 0 /\ n.unsafe
           /\ \A b, d : LET n == [m EXCEPT !.offloads = b, !.unsafe = @ \/ ~ d] IN n.active = m.active
  BY DEF States, MarkUnsafe, Quarantined, Deactivated, Activated, Without, Prepared

LEMMA TableFields ==
    /\ NoRules.active = 0 /\ ~ NoRules.neutral
    /\ Program(mem, 0, FALSE).active = 0 /\ ~ Program(mem, 0, FALSE).neutral
    /\ Program(mem, 0, TRUE).active = 0 /\ Program(mem, 0, TRUE).neutral
    /\ Program(mem, mem.active, FALSE).active = mem.active /\ ~ Program(mem, mem.active, FALSE).neutral
    /\ StageTable.active = op.saved.active /\ StageTable.neutral = (op.saved.active = 0)
    /\ FlipTable.active = mem.active /\ ~ FlipTable.neutral
    /\ OldTable.active = mem.active /\ ~ OldTable.neutral
  BY DEF NoRules, Program, StageTable, FlipTable, OldTable

\* The locals of an operation that begins.
LEMMA NewOpFields ==
    /\ NoOp.kind = "none" /\ ~ NoOp.failed /\ NoOp.back = "idle"
    /\ \A k : LET o == [NoOp EXCEPT !.kind = k] IN o.kind = k /\ ~ o.failed
    /\ \A k, s : LET o == [NoOp EXCEPT !.kind = k, !.saved = s] IN o.kind = k /\ ~ o.failed /\ o.saved = s
    /\ \A k, i, s : LET o == [NoOp EXCEPT !.kind = k, !.id = i, !.saved = s] IN
          o.kind = k /\ ~ o.failed /\ o.saved = s /\ o.id = i
  BY DEF NoOp

\* The locals of one that goes on.
LEMMA OpFields ==
    ASSUME TypeOK
    PROVE  /\ LET o == [op EXCEPT !.failed = TRUE] IN
                 o.kind = op.kind /\ o.id = op.id /\ o.saved = op.saved /\ o.loaded = op.loaded /\ o.failed
           /\ \A b : LET o == [op EXCEPT !.failed = b] IN
                 o.kind = op.kind /\ o.id = op.id /\ o.saved = op.saved /\ o.loaded = op.loaded /\ o.failed = b
           /\ LET o == [op EXCEPT !.restoreNic = FALSE] IN
                 o.kind = op.kind /\ o.id = op.id /\ o.saved = op.saved /\ o.loaded = op.loaded /\ o.failed = op.failed
           /\ LET o == [op EXCEPT !.audited = TRUE] IN
                 o.kind = op.kind /\ o.id = op.id /\ o.saved = op.saved /\ o.loaded = op.loaded /\ o.failed = op.failed
           /\ [op EXCEPT !.loaded = disk # NoFile].kind = op.kind
           /\ [op EXCEPT !.loaded = disk # NoFile].loaded = (disk # NoFile)
           /\ [op EXCEPT !.kind = "reconcile", !.back = pc].kind = "reconcile"
           /\ [op EXCEPT !.kind = "close", !.back = "idle"].kind = "close"
  <1>1. op \in Ops
    BY DEF TypeOK, ControlTypeOK
  <1> QED BY <1>1 DEF Ops

-----------------------------------------------------------------------------
\* Every step keeps the agreement

\* A process that exits only has to keep its own books.
LEMMA AgreementFatal ==
    ASSUME PersistFails, Assigning'
    PROVE  Agreement'
  BY DEF PersistFails, Agreement

LEMMA AgreementKept ==
    ASSUME Agreement, rules'.active = rules.active, rules'.neutral = rules.neutral,
           UNCHANGED <<pc, op, mem, engActive, fatal, persistFatal>>
    PROVE  Agreement'
  BY DEF Agreement, InStep, Resting, AtRest, Assigning, Activating, ActingPcs, ClaimPcs

LEMMA AgreementActivates ==
    ASSUME TypeOK, Agreement, NEW id, NEW repair, ActivateLocked(id, repair),
           pc \in {"idle", "rollback_activate"},
           UNCHANGED <<rules, engActive, fatal, persistFatal>>
    PROVE  Agreement'
  <1>0. mem \in States /\ (fatal \/ AtRest)
    BY StateTypes DEF Agreement, InStep, Resting
  <1>1. CASE UNCHANGED <<mem, engines>> /\ pc' = "idle" /\ op' = NoOp
    BY <1>0, <1>1 DEF Agreement, InStep, Resting, AtRest, Assigning, Activating, ActingPcs, ClaimPcs
  <1>2. CASE /\ mem' = IF repair THEN [Activated(mem, id) EXCEPT !.unsafe = FALSE] ELSE Activated(mem, id)
             /\ pc' = "act_persist" /\ op'.kind = "activate" /\ op'.id = id /\ op'.saved = mem
    <2>1. mem'.active = id /\ op'.saved.active = mem.active
      BY <1>0, <1>2, ActiveFields
    <2> QED BY <1>0, <1>2, <2>1 
         DEF Agreement, InStep, Resting, AtRest, Assigning, Activating, ActingPcs, ClaimPcs
  <1> QED BY <1>1, <1>2, ActivateLockedShape

LEMMA AgreementRequest ==
    ASSUME TypeOK, Agreement, Request
    PROVE  Agreement'
  <1>0. mem \in States /\ op \in Ops
    BY StateTypes DEF TypeOK, ControlTypeOK
  <1>1. ASSUME NEW a \in Artifacts, Prepare(a)
        PROVE  Agreement'
    <2>1. /\ pc = "idle" /\ pc' \in {"idle", "prep_persist"} /\ UNCHANGED <<rules, engActive, fatal, persistFatal>>
          /\ mem' = mem \/ \E i : mem' = Prepared(mem, i, a)
          /\ pc' = "idle" => UNCHANGED op
      BY <1>1 DEF Prepare, MayRequest, Idle, kernelVars, exitVars
    <2>2. mem'.active = mem.active
      BY <1>0, <2>1, ActiveFields
    <2> QED BY <2>1, <2>2
         DEF Agreement, InStep, Resting, AtRest, Assigning, Activating, ActingPcs, ClaimPcs
  <1>2. ASSUME NEW a \in Artifacts, ActivateForNewConnections(a) \/ Rollback(a)
        PROVE  Agreement'
    <2>1. /\ pc = "idle" /\ UNCHANGED <<rules, engActive, fatal, persistFatal>>
          /\ \E id, repair : ActivateLocked(id, repair)
      BY <1>2 DEF ActivateForNewConnections, Rollback, ActivateFrame, MayRequest, Idle, kernelVars, exitVars
    <2> QED BY <2>1, AgreementActivates
  <1>3. ASSUME NEW a \in Artifacts, DeactivateForNewConnections(a)
        PROVE  Agreement'
    <2>1. /\ pc = "idle" /\ pc' = "deact_persist" /\ UNCHANGED <<rules, engActive, fatal, persistFatal>>
          /\ mem' = Deactivated(mem) /\ op' = [NoOp EXCEPT !.kind = "deactivate", !.saved = mem]
      BY <1>3 DEF DeactivateForNewConnections, MayRequest, Idle, kernelVars, exitVars, engineVars
    <2>2. mem'.active = 0 /\ op'.kind = "deactivate" /\ op'.saved = mem
      BY <1>0, <2>1, ActiveFields, NewOpFields
    <2> QED BY <2>1, <2>2
         DEF Agreement, InStep, Resting, AtRest, Assigning, Activating, ActingPcs, ClaimPcs
  <1>4. ASSUME \/ PrepareGateFails
               \/ \E c \in Clients : \/ \E a \in Artifacts : DrainBegin(c, a) \/ RollbackBegin(c, a)
                                     \/ \E i \in Ids : GcList(c, i)
        PROVE  Agreement'
    <2>1. UNCHANGED <<rules, pc, op, mem, engActive, fatal, persistFatal>>
      BY <1>4 DEF PrepareGateFails, DrainBegin, GcList, RollbackBegin, RequestFrame, engineVars,
                  kernelVars, exitVars
    <2> QED BY <2>1, AgreementKept
  <1> QED BY <1>1, <1>2, <1>3, <1>4 DEF Request

LEMMA AgreementPending ==
    ASSUME TypeOK, Agreement, Pending
    PROVE  Agreement'
  <1>0. mem \in States /\ op \in Ops
    BY StateTypes DEF TypeOK, ControlTypeOK
  <1>1. ASSUME NEW c \in Clients, GcFinish(c), ~ UNCHANGED <<pc, op>>
        PROVE  Agreement'
    <2>1. /\ pc = "idle" /\ pc' = "gc_program" /\ UNCHANGED <<rules, engActive, fatal, persistFatal>>
          /\ op' = [NoOp EXCEPT !.kind = "gc", !.id = pend[c].id, !.saved = mem]
          /\ mem' = [Without(mem, pend[c].id) EXCEPT !.previous = IF @ = pend[c].id THEN 0 ELSE @]
      BY <1>1 DEF GcFinish, Idle, kernelVars, exitVars, engineVars
    <2>2. mem'.active = mem.active
      BY <1>0, <2>1 DEF Without, States
    <2>3. op'.saved = mem /\ op'.kind = "gc"
      BY <2>1, NewOpFields
    <2> QED BY <2>1, <2>2, <2>3
         DEF Agreement, InStep, Resting, AtRest, Assigning, Activating, ActingPcs, ClaimPcs
  <1>2. ASSUME NEW c \in Clients,
               DrainFinish(c) \/ RollbackCountFails(c) \/ (GcFinish(c) /\ UNCHANGED <<pc, op>>)
        PROVE  Agreement'
    <2>1. /\ pc = "idle" /\ UNCHANGED <<rules, engActive, fatal, persistFatal>>
          /\ \/ UNCHANGED <<pc, op>> \/ pc' = "drain_persist"
             \/ pc' = "comp_done" /\ op' = [NoOp EXCEPT !.kind = "rollback", !.failed = TRUE]
      BY <1>2 DEF DrainFinish, RollbackCountFails, GcFinish, Idle, kernelVars, exitVars, engineVars
    <2>2. \/ mem' = mem \/ mem' = [mem EXCEPT !.unsafe = TRUE]
          \/ mem' = [mem EXCEPT !.phase = [@ EXCEPT ![pend[c].id] = DrainPhase(pend[c])]]
      BY <1>2 DEF DrainFinish, RollbackCountFails, GcFinish, Idle
    <2>3. [mem EXCEPT !.phase = [@ EXCEPT ![pend[c].id] = DrainPhase(pend[c])]].active = mem.active
      BY <1>0 DEF States
    <2>4. mem'.active = mem.active
      <3>1. [mem EXCEPT !.unsafe = TRUE].active = mem.active
        BY <1>0 DEF States
      <3> QED BY <2>2, <2>3, <3>1
    <2>5. [NoOp EXCEPT !.kind = "rollback", !.failed = TRUE].failed
      BY DEF NoOp
    <2>6. (persistFatal => fatal) /\ (fatal \/ AtRest)
      BY <2>1 DEF Agreement, InStep, Resting
    <2>7. CASE UNCHANGED <<pc, op>>
      BY <2>1, <2>4, <2>6, <2>7
         DEF Agreement, InStep, Resting, AtRest, Assigning, Activating, ActingPcs, ClaimPcs
    <2>8. CASE pc' = "drain_persist" \/ (pc' = "comp_done" /\ op'.failed)
      BY <2>1, <2>4, <2>6, <2>8
         DEF Agreement, InStep, Resting, AtRest, Assigning, Activating, ActingPcs, ClaimPcs
    <2> QED BY <2>1, <2>5, <2>7, <2>8
  <1>3. ASSUME NEW c \in Clients, RollbackFinish(c)
        PROVE  Agreement'
    <2>1. /\ pc = "idle" /\ UNCHANGED <<rules, engActive, fatal, persistFatal>>
          /\ \/ UNCHANGED <<mem, pc, op>>
             \/ \E i : ActivateLocked(i, TRUE)
             \/ pc' = "rollback_persist" /\ \E i : mem' = Prepared(mem, i, pend[c].art)
      BY <1>3 DEF RollbackFinish, Idle, kernelVars, exitVars
    <2>2. CASE UNCHANGED <<mem, pc, op>>
      BY <2>1, <2>2, AgreementKept
    <2>3. CASE pc' = "rollback_persist" /\ \E i : mem' = Prepared(mem, i, pend[c].art)
      <3>1. mem'.active = mem.active
        BY <1>0, <2>3, ActiveFields
      <3> QED BY <2>1, <2>3, <3>1
         DEF Agreement, InStep, Resting, AtRest, Assigning, Activating, ActingPcs, ClaimPcs
    <2> QED BY <2>1, <2>2, <2>3, AgreementActivates
  <1>4. ASSUME NEW c \in Clients, GcBegin(c) \/ CountBegin(c) \/ CountSucceeds(c) \/ CountFails(c)
        PROVE  UNCHANGED <<rules, pc, op, mem, engActive, fatal, persistFatal>>
    BY <1>4 DEF GcBegin, CountBegin, CountSucceeds, CountFails, RequestFrame, engineVars, kernelVars, exitVars
  <1>5. CASE UNCHANGED <<rules, pc, op, mem, engActive, fatal, persistFatal>>
    BY <1>5, AgreementKept
  <1> QED BY <1>1, <1>2, <1>3, <1>4, <1>5 DEF Pending

LEMMA AgreementPrepareStep ==
    ASSUME TypeOK, Agreement, PrepareStep
    PROVE  Agreement'
  <1>0. mem \in States /\ MarkUnsafe(mem) \in States
    BY StateTypes, MarkUnsafeType
  <1>1. CASE PreparePersists
    <2>1. /\ UNCHANGED <<rules, mem, engActive, fatal, persistFatal>>
          /\ pc \in {"prep_persist", "rollback_persist"} /\ pc' \in {"idle", "rollback_activate"}
      BY <1>1 DEF PreparePersists, Persists, Return, GoTo, kernelVars, exitVars, engineVars
    <2> QED BY <2>1
         DEF Agreement, InStep, Resting, AtRest, Assigning, Activating, ActingPcs, ClaimPcs
  <1>2. CASE PrepareInterrupted
    <2>1. /\ UNCHANGED <<rules, engActive, fatal, persistFatal>> /\ mem' = Without(mem, op.id)
          /\ pc = "prep_persist" /\ pc' = "idle"
      BY <1>2 DEF PrepareInterrupted, Unprepare, Return, kernelVars, exitVars, engineVars
    <2>2. mem'.active = mem.active
      BY <1>0, <2>1, ActiveFields
    <2> QED BY <2>1, <2>2
         DEF Agreement, InStep, Resting, AtRest, Assigning, Activating, ActingPcs, ClaimPcs
  <1>3. CASE PreparePersistFails
    <2>1. PersistFails /\ pc' = "idle"
      BY <1>3 DEF PreparePersistFails, Return
    <2> QED BY <2>1, AgreementFatal DEF Assigning, ClaimPcs
  <1> QED BY <1>1, <1>2, <1>3 DEF PrepareStep

LEMMA AgreementRestored ==
    ASSUME TypeOK
    PROVE  /\ \A durable : RestoreState(durable) => mem'.active = op.saved.active
           /\ Restored.active = op.saved.active
           /\ [Restored EXCEPT !.unsafe = MarkUnsafe(mem).unsafe].active = op.saved.active
  <1>1. op.saved \in States
    BY StateTypes
  <1>2. ASSUME NEW m \in States, NEW b, NEW u
        PROVE  [m EXCEPT !.offloads = b, !.unsafe = u].active = m.active
    BY DEF States
  <1>3. Restored \in States /\ Restored.active = op.saved.active
    <2>1. mem.offloads \in BOOLEAN /\ mem.unsafe \in BOOLEAN
      BY StateTypes DEF States
    <2>2. [op.saved EXCEPT !.offloads = mem.offloads, !.unsafe = mem.unsafe] \in States
      BY <1>1, <2>1 DEF States
    <2> QED BY <1>1, <1>2, <2>2 DEF Restored
  <1>4. [Restored EXCEPT !.unsafe = MarkUnsafe(mem).unsafe].active = Restored.active
    BY <1>3 DEF States
  <1>5. ASSUME NEW durable, RestoreState(durable) PROVE mem'.active = op.saved.active
    <2>1. mem' = [op.saved EXCEPT !.offloads = mem.offloads, !.unsafe = op.saved.unsafe \/ ~ durable]
      BY <1>1, <1>5 DEF RestoreState, States
    <2> QED BY <1>1, <1>2, <2>1
  <1> QED BY <1>3, <1>4, <1>5

LEMMA AgreementActivateStep ==
    ASSUME TypeOK, DurableInv, Agreement, ActivateStep
    PROVE  Agreement'
  <1>0. /\ mem \in States /\ op.saved \in States
        /\ pc \in {"act_persist", "act_stage", "act_sweep", "act_flip", "act_engine"} => op.kind = "activate"
    BY StateTypes DEF DurableInv, StepOfOperation
  <1>1. CASE RollbackActivate
    <2>1. /\ pc = "rollback_activate" /\ UNCHANGED <<rules, engActive, fatal, persistFatal>>
          /\ \/ pc' = "idle" /\ UNCHANGED mem
             \/ \E i : ActivateLocked(i, TRUE)
      BY <1>1 DEF RollbackActivate, ActivateFrame, Return, kernelVars, exitVars
    <2>2. CASE pc' = "idle" /\ UNCHANGED mem
      BY <2>1, <2>2
         DEF Agreement, InStep, Resting, AtRest, Assigning, Activating, ActingPcs, ClaimPcs
    <2> QED BY <2>1, <2>2, AgreementActivates
  <1>2. CASE ActivatePersists
    <2>1. /\ UNCHANGED <<rules, mem, op, engActive, fatal, persistFatal>>
          /\ pc = "act_persist" /\ pc' = "offload"
      BY <1>2 DEF ActivatePersists, Persists, GoTo, kernelVars, exitVars, engineVars
    <2> QED BY <1>0, <2>1
         DEF Agreement, InStep, Resting, AtRest, Assigning, Activating, ActingPcs, ClaimPcs
  <1>3. CASE ActivatePersistFails
    <2>1. PersistFails /\ pc' = "idle"
      BY <1>3 DEF ActivatePersistFails, Return
    <2> QED BY <2>1, AgreementFatal DEF Assigning, ClaimPcs
  <1>4. CASE StageInstalls
    <2>1. /\ UNCHANGED <<op, mem, engActive, fatal, persistFatal>>
          /\ pc = "act_stage" /\ pc' \in {"act_sweep", "act_flip"}
      BY <1>4 DEF StageInstalls, GoTo, exitVars, engineVars
    <2> QED BY <1>0, <2>1
         DEF Agreement, InStep, Resting, AtRest, Assigning, Activating, ActingPcs, ClaimPcs
  <1>5. CASE SweepSucceeds
    <2>1. /\ UNCHANGED <<rules, op, mem, engActive, fatal, persistFatal>>
          /\ \/ pc = "act_sweep" /\ pc' = "act_flip"
             \/ pc = "start_sweep" /\ pc' = "start_flip"
      BY <1>5 DEF SweepSucceeds, GoTo, exitVars, engineVars
    <2> QED BY <1>0, <2>1
         DEF Agreement, InStep, Resting, AtRest, Assigning, Activating, ActingPcs, ClaimPcs
  <1>6. CASE FlipInstalls
    <2>1. /\ UNCHANGED <<op, mem, engActive, fatal, persistFatal>>
          /\ rules' = FlipTable /\ pc = "act_flip" /\ pc' = "act_engine"
      BY <1>6 DEF FlipInstalls, Installs, GoTo, exitVars, engineVars
    <2> QED BY <1>0, <2>1, TableFields
         DEF Agreement, InStep, Resting, AtRest, Assigning, Activating, ActingPcs, ClaimPcs
  <1>7. CASE TransactionFails \/ SweepFails
    <2>1. /\ UNCHANGED <<engActive, fatal, persistFatal>>
          /\ pc \in {"act_stage", "act_flip", "act_sweep"} /\ pc' = "comp_program"
          /\ \E durable : RestoreState(durable)
          /\ op' = op \/ op' = [op EXCEPT !.restoreNic = FALSE]
      BY <1>7 DEF TransactionFails, SweepFails, GoTo, exitVars, engineVars
    <2>2. mem'.active = op.saved.active /\ op'.kind = op.kind
      BY <2>1, AgreementRestored, OpFields
    <2> QED BY <1>0, <2>1, <2>2
         DEF Agreement, InStep, Resting, AtRest, Assigning, Activating, ActingPcs, ClaimPcs
  <1>8. CASE ActivateDone
    <2>1. /\ UNCHANGED <<rules, mem, fatal, persistFatal>> /\ engActive' = op.id
          /\ pc = "act_engine" /\ pc' = "idle"
      BY <1>8 DEF ActivateDone, Return, kernelVars, exitVars
    <2> QED BY <2>1
         DEF Agreement, InStep, Resting, AtRest, Assigning, Activating, ActingPcs, ClaimPcs
  <1> QED BY <1>1, <1>2, <1>3, <1>4, <1>5, <1>6, <1>7, <1>8 DEF ActivateStep

\* ensureOffloadsDown gives up: the assignment has not been touched.
LEMMA AgreementOffloadsFailed ==
    ASSUME TypeOK, DurableInv, Agreement, NEW m, NEW durable, OffloadsFailed(m, durable),
           pc \in ClaimPcs
    PROVE  /\ Assigning'
           /\ UNCHANGED <<rules, engActive, fatal, persistFatal>> => Agreement'
  <1>0. op.saved \in States /\ op.kind \in {"activate", "start"}
    BY StateTypes DEF DurableInv, StepOfOperation, ClaimPcs
  <1>1. CASE op.kind = "start"
    <2>1. pc' = "close_rules"
      BY <1>1 DEF OffloadsFailed
    <2> QED BY <2>1
         DEF Agreement, InStep, Resting, AtRest, Assigning, Activating, ActingPcs, ClaimPcs
  <1>2. CASE op.kind # "start"
    <2>1. /\ mem' = [op.saved EXCEPT !.offloads = m.offloads, !.unsafe = @ \/ ~ durable]
          /\ pc' = "act_unwind"
      BY <1>2 DEF OffloadsFailed, GoTo
    <2>2. mem'.active = op.saved.active
      BY <1>0, <2>1, ActiveFields
    <2> QED BY <1>0, <1>2, <2>1, <2>2
         DEF Agreement, InStep, Resting, AtRest, Assigning, Activating, ActingPcs, ClaimPcs
  <1> QED BY <1>1, <1>2

\* restoreOffloads returns to a step that asks no more than restoring did.
LEMMA AgreementRestoreReturns ==
    ASSUME TypeOK, Agreement, pc \in {"restore", "restore_persist"},
           NEW failed, op.failed => failed, RestoreReturns(failed)
    PROVE  /\ Assigning'
           /\ UNCHANGED <<rules, mem, engActive, fatal, persistFatal>> => Agreement'
  <1>1. PICK label \in AfterRestore(failed) :
           /\ pc' = label
           /\ label \notin {"idle", "close_rules"} => op' = [op EXCEPT !.failed = failed]
    BY DEF RestoreReturns
  <1>2. /\ label \in {"idle", "gc_persist"} => op.kind \in {"gc", "start"}
        /\ label = "comp_done" => op.kind \notin {"gc", "start", "close"}
        /\ label \in {"idle", "gc_persist", "close_rules", "exit", "comp_done"}
    BY DEF AfterRestore
  <1>3. label \notin {"idle", "close_rules"} => op'.kind = op.kind /\ op'.failed = failed
    <2>1. op \in Ops
      BY DEF TypeOK, ControlTypeOK
    <2> QED BY <1>1, <2>1 DEF Ops
  <1> QED BY <1>1, <1>2, <1>3
         DEF Agreement, InStep, Resting, AtRest, Assigning, Activating, ActingPcs, ClaimPcs

LEMMA AgreementOffloadStep ==
    ASSUME TypeOK, DurableInv, Agreement, OffloadStep
    PROVE  Agreement'
  <1>0. mem \in States /\ (pc \in ClaimPcs => op.kind \in {"activate", "start"})
    BY StateTypes DEF DurableInv, StepOfOperation, ClaimPcs
  <1>1. CASE OffloadsDown \/ DisableSucceeds
    <2>1. /\ pc \in ClaimPcs /\ UNCHANGED <<rules, op, mem, engActive, fatal, persistFatal>>
          /\ pc' = IF op.kind = "start" THEN StartPath(mem) ELSE "act_stage"
      BY <1>1 DEF OffloadsDown, DisableSucceeds, OffloadsDone, GoTo, ClaimPcs, kernelVars, exitVars, engineVars
    <2> QED BY <1>0, <2>1
         DEF Agreement, InStep, Resting, AtRest, Assigning, Activating, ActingPcs, ClaimPcs, StartPath
  <1>2. CASE OffloadsCapture \/ ClaimPersists \/ DisableFails
    <2>1. /\ pc \in ClaimPcs /\ pc' \in ClaimPcs
          /\ UNCHANGED <<rules, op, engActive, fatal, persistFatal>>
          /\ mem' = mem \/ \E b : mem' = [mem EXCEPT !.offloads = b]
      BY <1>2 DEF OffloadsCapture, ClaimPersists, DisableFails, Persists, GoTo, ClaimPcs,
                  kernelVars, exitVars, engineVars
    <2>2. ASSUME NEW b PROVE  [mem EXCEPT !.offloads = b].active = mem.active /\ [mem EXCEPT !.offloads = b].unsafe = mem.unsafe
      BY <1>0 DEF States
    <2>3. mem'.active = mem.active /\ mem'.unsafe = mem.unsafe
      BY <2>1, <2>2
    <2> QED BY <1>0, <2>1, <2>3
         DEF Agreement, InStep, Resting, AtRest, Assigning, Activating, ActingPcs, ClaimPcs
  <1>3. CASE OffloadsCallFails \/ UnclaimPersists
    <2>1. /\ pc \in ClaimPcs /\ UNCHANGED <<rules, engActive, fatal, persistFatal>>
          /\ \E durable : OffloadsFailed(mem, durable)
      BY <1>3 DEF OffloadsCallFails, UnclaimPersists, ClaimPcs, Persists, kernelVars, exitVars, engineVars
    <2> QED BY <2>1, AgreementOffloadsFailed
  <1>4. CASE ClaimPersistFails \/ UnclaimPersistFails
    <2>1. /\ pc \in ClaimPcs /\ PersistFails
          /\ \E m, durable : OffloadsFailed(m, durable)
      BY <1>4 DEF ClaimPersistFails, UnclaimPersistFails, ClaimPcs
    <2> QED BY <2>1, AgreementOffloadsFailed, AgreementFatal
  <1>5. CASE RestoreNothing \/ RestorePersists
    <2>1. /\ pc \in {"restore", "restore_persist"} /\ UNCHANGED <<rules, mem, engActive, fatal, persistFatal>>
          /\ RestoreReturns(op.failed)
      BY <1>5 DEF RestoreNothing, RestorePersists, Persists, kernelVars, exitVars, engineVars
    <2> QED BY <2>1, AgreementRestoreReturns
  <1>6. CASE RestorePersistFails
    <2>1. pc \in {"restore", "restore_persist"} /\ PersistFails /\ RestoreReturns(TRUE)
      BY <1>6 DEF RestorePersistFails
    <2> QED BY <2>1, AgreementRestoreReturns, AgreementFatal
  <1>7. CASE RestoreCall
    <2>1. /\ pc = "restore" /\ pc' = "restore_persist" /\ UNCHANGED <<rules, engActive, fatal, persistFatal>>
          /\ mem' = mem \/ mem' = [mem EXCEPT !.offloads = FALSE]
          /\ op' = op \/ op' = [op EXCEPT !.failed = TRUE]
      BY <1>7 DEF RestoreCall, kernelVars, exitVars, engineVars
    <2>2. mem'.active = mem.active
      BY <1>0, <2>1 DEF States
    <2>3. op'.kind = op.kind /\ (op' = op \/ op'.failed)
      BY <2>1, OpFields
    <2> QED BY <2>1, <2>2, <2>3
         DEF Agreement, InStep, Resting, AtRest, Assigning, Activating, ActingPcs, ClaimPcs
  <1> QED BY <1>1, <1>2, <1>3, <1>4, <1>5, <1>6, <1>7 DEF OffloadStep

LEMMA AgreementCompensationStep ==
    ASSUME TypeOK, DurableInv, Agreement, CompensationStep
    PROVE  Agreement'
  <1>0. mem \in States
    BY StateTypes
  <1>1. CASE UnwindPersists
    <2>1. /\ UNCHANGED <<rules, mem, op, engActive, fatal, persistFatal>>
          /\ pc = "act_unwind" /\ pc' = "comp_done"
      BY <1>1 DEF UnwindPersists, Persists, GoTo, kernelVars, exitVars, engineVars
    <2> QED BY <2>1
         DEF Agreement, InStep, Resting, AtRest, Assigning, Activating, ActingPcs, ClaimPcs
  <1>2. CASE CompensationInstalls \/ CompensationInstallFails
    <2>1. /\ UNCHANGED <<mem, engActive, fatal, persistFatal>>
          /\ pc = "comp_program" /\ pc' = AfterOldTable
          /\ \/ rules' = OldTable /\ op' = op
             \/ op' = [op EXCEPT !.failed = TRUE]
      BY <1>2 DEF CompensationInstalls, CompensationInstallFails, Installs, GoTo, exitVars, engineVars
    <2>2. op'.kind = op.kind /\ (rules' # OldTable => op'.failed)
      BY <2>1, OpFields
    <2> QED BY <2>1, <2>2, TableFields
         DEF Agreement, InStep, Resting, AtRest, Assigning, Activating, ActingPcs, ClaimPcs, AfterOldTable
  <1>3. CASE CompensationPersists
    <2>1. /\ UNCHANGED <<rules, mem, op, engActive, fatal, persistFatal>>
          /\ pc = "comp_persist" /\ pc' \in {"restore", "comp_done"}
      BY <1>3 DEF CompensationPersists, Persists, GoTo, AfterCompensation, kernelVars, exitVars, engineVars
    <2> QED BY <2>1
         DEF Agreement, InStep, Resting, AtRest, Assigning, Activating, ActingPcs, ClaimPcs
  <1>4. CASE CompensationPersistFails
    <2>1. PersistFails /\ pc' \in {"restore", "comp_done"}
      BY <1>4 DEF CompensationPersistFails, AfterCompensation
    <2> QED BY <2>1, AgreementFatal DEF Assigning, ClaimPcs
  <1>5. CASE CompensationDone
    <2>1. /\ UNCHANGED <<rules, mem, engActive, fatal, persistFatal>>
          /\ pc = "comp_done" /\ ~ op.failed /\ pc' = "idle"
      BY <1>5 DEF CompensationDone, Return, kernelVars, exitVars, engineVars
    <2> QED BY <2>1
         DEF Agreement, InStep, Resting, AtRest, Assigning, Activating, ActingPcs, ClaimPcs
  <1>6. CASE IntegrityFailureLocked
    <2>1. /\ UNCHANGED <<fatal, persistFatal>> /\ mem' = Quarantined(mem) /\ engActive' = 0
          /\ pc' = "rec_program"
      BY <1>6 DEF IntegrityFailureLocked, exitVars
    <2>2. mem'.active = 0
      BY <1>0, <2>1, ActiveFields
    <2> QED BY <2>1, <2>2
         DEF Agreement, InStep, Resting, AtRest, Assigning, Activating, ActingPcs, ClaimPcs
  <1> QED BY <1>1, <1>2, <1>3, <1>4, <1>5, <1>6 DEF CompensationStep

LEMMA AgreementDeactivateStep ==
    ASSUME TypeOK, DurableInv, Agreement, DeactivateStep
    PROVE  Agreement'
  <1>0. mem \in States /\ (pc \in {"deact_persist", "deact_program"} => op.kind = "deactivate")
    BY StateTypes DEF DurableInv, StepOfOperation
  <1>1. CASE DeactivatePersists
    <2>1. /\ UNCHANGED <<rules, mem, op, engActive, fatal, persistFatal>>
          /\ pc = "deact_persist" /\ pc' = "deact_program"
      BY <1>1 DEF DeactivatePersists, Persists, GoTo, kernelVars, exitVars, engineVars
    <2> QED BY <2>1
         DEF Agreement, InStep, Resting, AtRest, Assigning, Activating, ActingPcs, ClaimPcs
  <1>2. CASE DeactivatePersistFails
    <2>1. PersistFails /\ pc' = "idle"
      BY <1>2 DEF DeactivatePersistFails, Return
    <2> QED BY <2>1, AgreementFatal DEF Assigning, ClaimPcs
  <1>3. CASE DeactivateInstalls
    <2>1. /\ UNCHANGED <<mem, fatal, persistFatal>> /\ engActive' = 0 /\ rules' = Program(mem, 0, FALSE)
          /\ pc = "deact_program" /\ pc' = "idle"
      BY <1>3 DEF DeactivateInstalls, Installs, Return, exitVars
    <2> QED BY <2>1, TableFields
         DEF Agreement, InStep, Resting, AtRest, Assigning, Activating, ActingPcs, ClaimPcs
  <1>4. CASE DeactivateInstallFails
    <2>1. /\ UNCHANGED <<op, engActive, fatal, persistFatal>> /\ mem' = Restored
          /\ pc = "deact_program" /\ pc' = "comp_program"
      BY <1>4 DEF DeactivateInstallFails, GoTo, exitVars, engineVars
    <2> QED BY <1>0, <2>1, AgreementRestored
         DEF Agreement, InStep, Resting, AtRest, Assigning, Activating, ActingPcs, ClaimPcs
  <1> QED BY <1>1, <1>2, <1>3, <1>4 DEF DeactivateStep

LEMMA AgreementCollectStep ==
    ASSUME TypeOK, DurableInv, Agreement, CollectStep
    PROVE  Agreement'
  <1>1. CASE DrainPersists
    <2>1. /\ UNCHANGED <<rules, mem, engActive, fatal, persistFatal>>
          /\ pc \in {"drain_persist", "gc_persist"} /\ pc' = "idle"
      BY <1>1 DEF DrainPersists, Persists, Return, kernelVars, exitVars, engineVars
    <2> QED BY <2>1
         DEF Agreement, InStep, Resting, AtRest, Assigning, Activating, ActingPcs, ClaimPcs
  <1>2. CASE DrainPersistFails
    <2>1. PersistFails /\ pc' = "idle"
      BY <1>2 DEF DrainPersistFails, Return
    <2> QED BY <2>1, AgreementFatal DEF Assigning, ClaimPcs
  <1>3. CASE GcInstalls
    <2>1. /\ UNCHANGED <<op, mem, engActive, fatal, persistFatal>> /\ rules' = Program(mem, mem.active, FALSE)
          /\ pc = "gc_program" /\ pc' \in {"gc_persist", "restore"}
      BY <1>3 DEF GcInstalls, Installs, GoTo, AfterCollection, exitVars
    <2> QED BY <2>1, TableFields
         DEF Agreement, InStep, Resting, AtRest, Assigning, Activating, ActingPcs, ClaimPcs
  <1>4. CASE GcInstallFails
    <2>1. /\ UNCHANGED <<op, engActive, fatal, persistFatal>> /\ mem' = Restored
          /\ pc = "gc_program" /\ pc' = "comp_program"
      BY <1>4 DEF GcInstallFails, GoTo, exitVars, engineVars
    <2> QED BY <2>1, AgreementRestored
         DEF Agreement, InStep, Resting, AtRest, Assigning, Activating, ActingPcs, ClaimPcs
  <1> QED BY <1>1, <1>2, <1>3, <1>4 DEF CollectStep

LEMMA AgreementReconcileStep ==
    ASSUME TypeOK, Agreement, ReconcileStep
    PROVE  Agreement'
  <1>1. CASE ReconcileInstalls
    <2>1. /\ UNCHANGED <<mem, op, engActive, fatal, persistFatal>>
          /\ pc \in {"rec_program", "rec_remove"} /\ pc' = "rec_persist"
          /\ rules' \in {Program(mem, 0, FALSE), NoRules}
      BY <1>1 DEF ReconcileInstalls, Installs, GoTo, exitVars, engineVars
    <2>2. rules'.active = 0 /\ ~ rules'.neutral
      BY <2>1, TableFields
    <2> QED BY <2>1, <2>2
         DEF Agreement, InStep, Resting, AtRest, Assigning, Activating, ActingPcs, ClaimPcs
  <1>2. CASE ReconcileInstallFails
    <2>1. /\ UNCHANGED <<mem, op, engActive, persistFatal>>
          /\ \/ pc = "rec_program" /\ pc' = "rec_remove" /\ UNCHANGED fatal
             \/ pc = "rec_remove" /\ pc' = "rec_persist" /\ fatal'
      BY <1>2 DEF ReconcileInstallFails, GoTo, engineVars
    <2> QED BY <2>1
         DEF Agreement, InStep, Resting, AtRest, Assigning, Activating, ActingPcs, ClaimPcs
  <1>3. pc' \in {"idle", "close_rules", "exit"} /\ ReconcileReturn => Assigning'
    BY DEF Assigning, ClaimPcs
  <1>4. op.back \in {"idle", "close_rules", "exit"}
    BY OpParts DEF TypeOK, ControlTypeOK
  <1>5. CASE ReconcilePersists
    <2>1. /\ UNCHANGED <<rules, mem, engActive, fatal, persistFatal>>
          /\ pc = "rec_persist" /\ pc' = op.back
      BY <1>5 DEF ReconcilePersists, Persists, ReconcileReturn, kernelVars, exitVars, engineVars
    <2> QED BY <1>4, <2>1
         DEF Agreement, InStep, Resting, AtRest, Assigning, Activating, ActingPcs, ClaimPcs
  <1>6. CASE ReconcilePersistFails
    <2>1. PersistFails /\ ReconcileReturn /\ pc' = op.back
      BY <1>6 DEF ReconcilePersistFails, ReconcileReturn
    <2> QED BY <1>3, <1>4, <2>1, AgreementFatal
  <1> QED BY <1>1, <1>2, <1>5, <1>6 DEF ReconcileStep

LEMMA AgreementStartStep ==
    ASSUME TypeOK, DurableInv, Agreement, StartStep
    PROVE  Agreement'
  <1>0. /\ mem \in States
        /\ pc \in {"start_load", "start_audit", "start_persist"} => op.kind = "start"
    BY StateTypes DEF DurableInv, StepOfOperation
  <1>1. CASE StartRemoves
    <2>1. /\ UNCHANGED <<mem, fatal, persistFatal>> /\ pc = "start_remove" /\ pc' = "start_load"
      BY <1>1 DEF StartRemoves, GoTo, exitVars
    <2> QED BY <2>1
         DEF Agreement, InStep, Resting, AtRest, Assigning, Activating, ActingPcs, ClaimPcs
  <1>2. CASE StartLoads
    <2>1. /\ UNCHANGED <<fatal, persistFatal>> /\ pc = "start_load" /\ pc' = "start_audit"
          /\ op' = [op EXCEPT !.loaded = disk # NoFile]
          /\ disk = NoFile => mem' = mem
      BY <1>2 DEF StartLoads, exitVars
    <2>2. op'.loaded = (disk # NoFile)
      BY <2>1, OpFields
    <2> QED BY <2>1, <2>2
         DEF Agreement, InStep, Resting, AtRest, Assigning, Activating, ActingPcs, ClaimPcs
  <1>3. CASE StartQuarantines
    <2>1. /\ UNCHANGED <<fatal, persistFatal>> /\ pc' = "start_audit"
          /\ \E b : mem' = [EmptyState EXCEPT !.unsafe = TRUE, !.offloads = b]
      BY <1>3 DEF StartQuarantines, GoTo, exitVars
    <2>2. mem'.active = 0
      BY <2>1 DEF EmptyState
    <2> QED BY <2>1, <2>2
         DEF Agreement, InStep, Resting, AtRest, Assigning, Activating, ActingPcs, ClaimPcs
  <1>4. CASE StartQuarantineFails \/ StartFails
    <2>1. UNCHANGED <<fatal, persistFatal>> /\ pc' = "close_rules"
      BY <1>4 DEF StartQuarantineFails, StartFails, Abandon, exitVars
    <2> QED BY <2>1
         DEF Agreement, InStep, Resting, AtRest, Assigning, Activating, ActingPcs, ClaimPcs
  <1>5. CASE StartAudits
    <2>1. /\ UNCHANGED <<fatal, persistFatal>> /\ pc = "start_audit" /\ pc' = "start_persist"
          /\ op' = [op EXCEPT !.audited = TRUE]
      BY <1>5 DEF StartAudits, exitVars
    <2>2. PICK m \in {mem, [mem EXCEPT !.unsafe = TRUE, !.active = 0]} :
             mem' = IF m.unsafe THEN Quarantined(m) ELSE m
      BY <1>5 DEF StartAudits
    <2>3. m \in States
      BY <1>0, <2>2, AuditedType
    <2>4. mem'.active = 0 \/ (~ mem'.unsafe /\ mem' = mem)
      <3>1. m.unsafe \/ m = mem
        BY <1>0, <2>2 DEF States
      <3> QED BY <2>2, <2>3, <3>1, ActiveFields
    <2>5. op'.loaded = op.loaded
      BY <2>1, OpFields
    <2> QED BY <2>1, <2>4, <2>5
         DEF Agreement, InStep, Resting, AtRest, Assigning, Activating, ActingPcs, ClaimPcs
  <1>6. CASE StartAuditFails
    <2>1. /\ UNCHANGED <<fatal, persistFatal>> /\ pc' = "start_persist" /\ mem'.active = 0
      BY <1>0, <1>6 DEF StartAuditFails, GoTo, exitVars, States
    <2> QED BY <2>1
         DEF Agreement, InStep, Resting, AtRest, Assigning, Activating, ActingPcs, ClaimPcs
  <1>7. CASE StartPersists
    <2>1. /\ UNCHANGED <<mem, op, fatal, persistFatal>> /\ pc = "start_persist"
          /\ pc' \in {"offload", StartPath(mem)}
      BY <1>7 DEF StartPersists, Persists, GoTo, exitVars
    <2> QED BY <1>0, <2>1
         DEF Agreement, InStep, Resting, AtRest, Assigning, Activating, ActingPcs, ClaimPcs, StartPath
  <1>8. CASE StartPersistFails
    <2>1. PersistFails /\ pc' = "close_rules"
      BY <1>8 DEF StartPersistFails, Abandon
    <2> QED BY <2>1, AgreementFatal DEF Assigning, ClaimPcs
  <1>9. CASE StartInstallsBoundary
    <2>1. /\ UNCHANGED <<fatal, persistFatal>> /\ pc' = "start_sweep"
      BY <1>9 DEF StartInstallsBoundary, GoTo, exitVars
    <2> QED BY <2>1
         DEF Agreement, InStep, Resting, AtRest, Assigning, Activating, ActingPcs, ClaimPcs
  <1>10. CASE StartFlips
    <2>1. /\ UNCHANGED <<mem, fatal, persistFatal>> /\ pc' = "idle" /\ engActive' = mem.active
          /\ rules' = Program(mem, mem.active, FALSE)
      BY <1>10 DEF StartFlips, Installs, Return, exitVars
    <2> QED BY <2>1, TableFields
         DEF Agreement, InStep, Resting, AtRest, Assigning, Activating, ActingPcs, ClaimPcs
  <1>11. CASE StartPrograms \/ StartProgramsUngated
    <2>1. /\ UNCHANGED <<mem, fatal, persistFatal>> /\ engActive' = 0
          /\ rules' = Program(mem, mem.active, FALSE)
          /\ pc = "start_program" /\ pc' \in {"idle", "restore"}
      BY <1>11 DEF StartPrograms, StartProgramsUngated, Installs, Return, GoTo, exitVars
    <2> QED BY <2>1, TableFields
         DEF Agreement, InStep, Resting, AtRest, Assigning, Activating, ActingPcs, ClaimPcs
  <1> QED BY <1>1, <1>2, <1>3, <1>4, <1>5, <1>6, <1>7, <1>8, <1>9, <1>10, <1>11 DEF StartStep

LEMMA AgreementCloseStep ==
    ASSUME TypeOK, EngineInv, Agreement, CloseStep \/ Crash \/ Boot \/ Shutdown
    PROVE  Agreement'
  <1>1. CASE CloseRemoves
    <2>1. /\ UNCHANGED <<op, fatal, persistFatal>> /\ op.kind = "close" /\ pc' = "restore"
      BY <1>1 DEF CloseRemoves, GoTo, EngineInv, exitVars
    <2> QED BY <2>1
         DEF Agreement, InStep, Resting, AtRest, Assigning, Activating, ActingPcs, ClaimPcs
  <1>2. CASE CloseFails \/ Shutdown
    <2>1. UNCHANGED <<fatal, persistFatal>> /\ pc' \in {"close_rules", "exit"}
      BY <1>2 DEF CloseFails, Shutdown, Abandon, GoTo, exitVars
    <2> QED BY <2>1
         DEF Agreement, InStep, Resting, AtRest, Assigning, Activating, ActingPcs, ClaimPcs
  <1>3. CASE Exit \/ Crash
    <2>1. ~ fatal' /\ ~ persistFatal' /\ pc' = "down" /\ mem'.active = 0
      BY <1>3 DEF Exit, Crash, ProcessGone, EmptyState
    <2> QED BY <2>1
         DEF Agreement, InStep, Resting, AtRest, Assigning, Activating, ActingPcs, ClaimPcs
  <1>4. CASE Boot
    <2>1. UNCHANGED <<mem, fatal, persistFatal>> /\ pc = "down" /\ pc' = "start_remove"
      BY <1>4 DEF Boot, exitVars
    <2> QED BY <2>1
         DEF Agreement, InStep, Resting, AtRest, Assigning, Activating, ActingPcs, ClaimPcs
  <1> QED BY <1>1, <1>2, <1>3, <1>4 DEF CloseStep

LEMMA AgreementNext ==
    ASSUME TypeOK, DurableInv, EngineInv, Agreement, [Next]_vars
    PROVE  Agreement'
  <1>1. CASE Kernel \/ UNCHANGED vars \/ IntegrityFailure \/ ReconcileStart \/ ReconcileEnd
    <2>1. UNCHANGED <<rules, pc, op, mem, engActive, fatal, persistFatal>>
      BY <1>1 DEF Kernel, KernelNext, Syn, FlowEnd, FlowIdle, controllerVars, vars, IntegrityFailure,
                  ReconcileStart, ReconcileEnd, kernelVars, engineVars, exitVars
    <2> QED BY <2>1, AgreementKept
  <1>2. CASE ReconcileBegin
    <2>1. /\ UNCHANGED <<fatal, persistFatal>> /\ mem' = Quarantined(mem) /\ engActive' = 0
          /\ pc' = "rec_program"
      BY <1>2 DEF ReconcileBegin, exitVars
    <2>2. mem'.active = 0
      BY <2>1, StateTypes, ActiveFields
    <2> QED BY <2>1, <2>2
         DEF Agreement, InStep, Resting, AtRest, Assigning, Activating, ActingPcs, ClaimPcs
  <1> QED BY <1>1, <1>2, AgreementRequest, AgreementPending, AgreementPrepareStep,
             AgreementActivateStep, AgreementOffloadStep, AgreementCompensationStep,
             AgreementDeactivateStep, AgreementCollectStep, AgreementReconcileStep,
             AgreementStartStep, AgreementCloseStep DEF Next, LockedStep

LEMMA AgreementInit == Init => Agreement
  BY DEF Init, KernelInit, EmptyState, Agreement, InStep, Resting, Activating, ActingPcs, ClaimPcs,
         Assigning

\* Whatever fails, and whichever operations, signals and restarts overlap: when
\* the mutex is free and the process is not on its way out, the table assigns
\* the generation that the controller and the registry name, and no neutral
\* boundary is left behind (the compensations of activateLocked,
\* deactivateLocked and GarbageCollectGeneration).
THEOREM TableAndRegistryAgree == Spec => []AssignmentAgrees
  <1>1. TypeOK /\ DurableInv /\ [Next]_vars => DurableInv'
    BY DurableNext
  <1>2. TypeOK /\ LoadInv /\ [Next]_vars => LoadInv'
    BY LoadNext
  <1>3. TypeOK /\ DurableInv /\ LoadInv /\ EngineInv /\ [Next]_vars => EngineInv'
    BY EngineNext
  <1>4. TypeOK /\ DurableInv /\ EngineInv /\ Agreement /\ [Next]_vars => Agreement'
    BY AgreementNext
  <1>5. Agreement => AssignmentAgrees
    BY DEF Agreement, InStep, Resting, AtRest, AssignmentAgrees, Idle
  <1> QED BY <1>1, <1>2, <1>3, <1>4, <1>5, DurableInit, LoadInit, EngineInit, AgreementInit,
             TypeCorrect, PTL DEF Spec

-----------------------------------------------------------------------------
\* Without integrity signals: an unsafe controller is latched

\* Memory is marked unsafe only with the fault latched, and with nothing
\* assigned but where a failed operation is about to be reconciled; a repair
\* clears the mark before it assigns.
Latching ==
    /\ op.saved.unsafe => latched /\ op.saved.active = 0
    /\ mem.unsafe /\ pc # "start_audit" => latched
    /\ mem.unsafe => mem.active = 0 \/ pc = "start_audit" \/ (pc = "comp_done" /\ op.failed)
    /\ Activating \/ pc \in {"act_engine", "deact_persist", "deact_program"} => ~ mem.unsafe

Quiet == ~ raising /\ reconciling = "no" /\ (fatal \/ Latching)

\* Steps that neither touch the mark nor the assignment, nor clear the latch.
LEMMA QuietKept ==
    ASSUME Quiet, UNCHANGED <<raising, reconciling, fatal>>,
           op'.saved = op.saved \/ ~ op'.saved.unsafe, latched => latched',
           mem'.unsafe = mem.unsafe, mem'.active = mem.active,
           pc # "start_audit", pc # "comp_done" \/ ~ op.failed \/ (pc' = pc /\ op' = op),
           Activating' \/ pc' \in {"act_engine", "deact_persist", "deact_program"} =>
              Activating \/ pc \in {"act_engine", "deact_persist", "deact_program"}
    PROVE  Quiet'
  BY DEF Quiet, Latching

LEMMA QuietActivates ==
    ASSUME TypeOK, Quiet, NEW id, NEW repair, ActivateLocked(id, repair), mem.unsafe => repair,
           pc \in {"idle", "rollback_activate"}, UNCHANGED <<raising, reconciling, fatal>>
    PROVE  Quiet'
  <1>0. mem \in States /\ NoOp.saved = EmptyState /\ ~ EmptyState.unsafe
    BY StateTypes DEF NoOp, EmptyState
  <1>1. CASE UNCHANGED <<mem, engines>> /\ pc' = "idle" /\ op' = NoOp
    <2>1. latched => latched'
      BY DEF ActivateLocked
    <2> QED BY <1>0, <1>1, <2>1, QuietKept DEF Activating, ActingPcs, ClaimPcs
  <1>2. CASE /\ mem' = IF repair THEN [Activated(mem, id) EXCEPT !.unsafe = FALSE] ELSE Activated(mem, id)
             /\ pc' = "act_persist" /\ op'.kind = "activate" /\ op'.id = id /\ op'.saved = mem
    <2>1. ~ mem'.unsafe
      BY <1>0, <1>2, ActiveFields
    <2>2. latched => latched'
      BY <1>2 DEF ActivateLocked, Return
    <2> QED BY <1>2, <2>1, <2>2 DEF Quiet, Latching
  <1> QED BY <1>1, <1>2, ActivateLockedShape

LEMMA QuietRequest ==
    ASSUME TypeOK, Quiet, Request
    PROVE  Quiet'
  <1>0. /\ mem \in States /\ ~ EmptyState.unsafe /\ \A k : [NoOp EXCEPT !.kind = k].saved = EmptyState
    BY StateTypes DEF NoOp, EmptyState
  <1>1. ASSUME NEW a \in Artifacts, Prepare(a)
        PROVE  Quiet'
    <2>1. /\ pc = "idle" /\ pc' \in {"idle", "prep_persist"} /\ UNCHANGED <<raising, reconciling, latched, fatal>>
          /\ mem' = mem \/ \E i : mem' = Prepared(mem, i, a)
          /\ \/ UNCHANGED op
             \/ \E i : op' = [NoOp EXCEPT !.kind = "prepare", !.id = i, !.repair = latched, !.epoch = epoch]
      BY <1>1 DEF Prepare, MayRequest, Idle, signalVars, exitVars
    <2>2. mem'.active = mem.active /\ mem'.unsafe = mem.unsafe
      BY <1>0, <2>1 DEF Prepared, States
    <2>3. op'.saved \in {op.saved, EmptyState}
      <3>1. \A i : [NoOp EXCEPT !.kind = "prepare", !.id = i, !.repair = latched, !.epoch = epoch].saved
                  = EmptyState
        BY DEF NoOp
      <3> QED BY <2>1, <3>1
    <2> QED BY <1>0, <2>1, <2>2, <2>3, QuietKept DEF Activating, ActingPcs, ClaimPcs
  <1>2. ASSUME NEW a \in Artifacts, ActivateForNewConnections(a) \/ Rollback(a)
        PROVE  Quiet'
    <2>1. /\ pc = "idle" /\ UNCHANGED <<raising, reconciling, fatal>>
          /\ \E id, repair : ActivateLocked(id, repair) /\ (repair \/ repair = latched)
      BY <1>2 DEF ActivateForNewConnections, Rollback, ActivateFrame, MayRequest, Idle, signalVars, exitVars
    <2>2. CASE fatal
      BY <2>1, <2>2 DEF Quiet
    <2>3. CASE ~ fatal
      <3>1. mem.unsafe => latched
        BY <2>1, <2>3 DEF Quiet, Latching
      <3> QED BY <2>1, <3>1, QuietActivates
    <2> QED BY <2>2, <2>3
  <1>3. ASSUME NEW a \in Artifacts, DeactivateForNewConnections(a)
        PROVE  Quiet'
    <2>1. /\ pc = "idle" /\ pc' = "deact_persist" /\ UNCHANGED <<raising, reconciling, latched, fatal>>
          /\ mem.active # 0
          /\ mem' = Deactivated(mem) /\ op' = [NoOp EXCEPT !.kind = "deactivate", !.saved = mem]
      BY <1>3 DEF DeactivateForNewConnections, MayRequest, Idle, signalVars, exitVars, latchVars
    <2>2. mem'.unsafe = mem.unsafe /\ op'.saved = mem
      BY <1>0, <2>1, ActiveFields, NewOpFields
    <2> QED BY <2>1, <2>2 DEF Quiet, Latching
  <1>4. ASSUME \/ PrepareGateFails
               \/ \E c \in Clients : \/ \E a \in Artifacts : DrainBegin(c, a) \/ RollbackBegin(c, a)
                                     \/ \E i \in Ids : GcList(c, i)
        PROVE  Quiet'
    <2>1. pc = "idle" /\ UNCHANGED <<pc, op, mem, raising, reconciling, latched, fatal>>
      BY <1>4 DEF PrepareGateFails, DrainBegin, GcList, RollbackBegin, RequestFrame, signalVars,
                  latchVars, exitVars, MayRequest, Idle
    <2> QED BY <2>1, QuietKept DEF Activating
  <1> QED BY <1>1, <1>2, <1>3, <1>4 DEF Request

LEMMA QuietPending ==
    ASSUME TypeOK, Quiet, Pending
    PROVE  Quiet'
  <1>0. /\ mem \in States /\ ~ EmptyState.unsafe /\ \A k : [NoOp EXCEPT !.kind = k].saved = EmptyState
    BY StateTypes DEF NoOp, EmptyState
  <1>1. ASSUME NEW c \in Clients, GcFinish(c), ~ UNCHANGED <<pc, op>>
        PROVE  Quiet'
    <2>1. /\ pc = "idle" /\ pc' = "gc_program" /\ ~ latched /\ UNCHANGED <<raising, reconciling, latched, fatal>>
          /\ op' = [NoOp EXCEPT !.kind = "gc", !.id = pend[c].id, !.saved = mem]
          /\ mem' = [Without(mem, pend[c].id) EXCEPT !.previous = IF @ = pend[c].id THEN 0 ELSE @]
      BY <1>1 DEF GcFinish, MayCollect, Idle, signalVars, exitVars, latchVars
    <2>2. mem'.unsafe = mem.unsafe
      BY <1>0, <2>1 DEF Without, States
    <2>3. op'.saved = mem
      BY <2>1, NewOpFields
    <2> QED BY <2>1, <2>2, <2>3 DEF Quiet, Latching, Activating, ActingPcs, ClaimPcs
  <1>2. ASSUME NEW c \in Clients, RollbackCountFails(c)
        PROVE  Quiet'
    <2>1. /\ UNCHANGED <<raising, reconciling, fatal>> /\ latched' /\ pc = "idle"
          /\ mem' = [mem EXCEPT !.unsafe = TRUE]
          /\ \/ mem.active = 0 /\ UNCHANGED <<pc, op>>
             \/ pc' = "comp_done" /\ op' = [NoOp EXCEPT !.kind = "rollback", !.failed = TRUE]
      BY <1>2 DEF RollbackCountFails, Idle, signalVars, exitVars
    <2>2. mem'.active = mem.active
      BY <1>0, <2>1, ActiveFields
    <2>3. LET o == [NoOp EXCEPT !.kind = "rollback", !.failed = TRUE] IN o.failed /\ ~ o.saved.unsafe
      BY DEF NoOp, EmptyState
    <2> QED BY <2>1, <2>2, <2>3 DEF Quiet, Latching, Activating, ActingPcs, ClaimPcs
  <1>3. ASSUME NEW c \in Clients, DrainFinish(c) \/ (GcFinish(c) /\ UNCHANGED <<pc, op>>)
        PROVE  Quiet'
    <2>1. /\ pc = "idle" /\ UNCHANGED <<raising, reconciling, latched, fatal>>
          /\ UNCHANGED <<pc, op>> \/ (pc' = "drain_persist" /\ op' = [NoOp EXCEPT !.kind = "drain"])
      BY <1>3 DEF DrainFinish, GcFinish, Idle, signalVars, exitVars, latchVars
    <2>2. \/ mem' = mem
          \/ mem' = [mem EXCEPT !.phase = [@ EXCEPT ![pend[c].id] = DrainPhase(pend[c])]]
      BY <1>3 DEF DrainFinish, GcFinish, Idle
    <2>3. mem'.active = mem.active /\ mem'.unsafe = mem.unsafe
      BY <1>0, <2>2 DEF States
    <2> QED BY <1>0, <2>1, <2>3, QuietKept DEF Activating, ActingPcs, ClaimPcs
  <1>4. ASSUME NEW c \in Clients, RollbackFinish(c)
        PROVE  Quiet'
    <2>1. /\ pc = "idle" /\ UNCHANGED <<raising, reconciling, fatal>>
          /\ \/ UNCHANGED <<mem, pc, op, latched>>
             \/ \E i : ActivateLocked(i, TRUE)
             \/ /\ pc' = "rollback_persist" /\ UNCHANGED latched
                /\ \E i : /\ mem' = Prepared(mem, i, pend[c].art)
                          /\ op' = [NoOp EXCEPT !.kind = "rollback", !.id = i]
      BY <1>4 DEF RollbackFinish, Idle, signalVars, exitVars, latchVars
    <2>2. CASE UNCHANGED <<mem, pc, op, latched>>
      BY <2>1, <2>2, QuietKept DEF Activating
    <2>3. CASE /\ pc' = "rollback_persist" /\ UNCHANGED latched
               /\ \E i : /\ mem' = Prepared(mem, i, pend[c].art)
                         /\ op' = [NoOp EXCEPT !.kind = "rollback", !.id = i]
      <3>1. mem'.active = mem.active /\ mem'.unsafe = mem.unsafe /\ ~ op'.saved.unsafe
        BY <1>0, <2>3, ActiveFields DEF NoOp, EmptyState
      <3> QED BY <2>1, <2>3, <3>1, QuietKept DEF Activating, ActingPcs, ClaimPcs
    <2> QED BY <2>1, <2>2, <2>3, QuietActivates
  <1>5. ASSUME NEW c \in Clients, GcBegin(c) \/ CountBegin(c) \/ CountSucceeds(c) \/ CountFails(c)
        PROVE  Quiet'
    <2>1. UNCHANGED <<pc, op, mem, raising, reconciling, latched, fatal>>
      BY <1>5 DEF GcBegin, CountBegin, CountSucceeds, CountFails, RequestFrame, signalVars, exitVars, latchVars
    <2> QED BY <2>1 DEF Quiet, Latching, Activating, ActingPcs, ClaimPcs
  <1> QED BY <1>1, <1>2, <1>3, <1>4, <1>5 DEF Pending

\* Once a write has failed the process is on its way out.
LEMMA QuietFatal ==
    ASSUME Quiet, PersistFails, UNCHANGED <<raising, reconciling>>
    PROVE  Quiet'
  BY DEF Quiet, PersistFails

\* What an operation saved comes back, and the latch with it.
LEMMA QuietRestored ==
    ASSUME TypeOK, Agreement, Quiet, pc # "start_audit", pc' \in {"comp_program", "act_unwind"},
           UNCHANGED <<raising, reconciling, fatal>>, op'.saved = op.saved, latched => latched',
           \E b, d : /\ mem' = [op.saved EXCEPT !.offloads = b, !.unsafe = @ \/ ~ d]
                     /\ d \/ persistFatal
    PROVE  Quiet'
  <1>0. op.saved \in States
    BY StateTypes
  <1>1. PICK b, d : /\ mem' = [op.saved EXCEPT !.offloads = b, !.unsafe = @ \/ ~ d]
                    /\ d \/ persistFatal
    OBVIOUS
  <1>2. CASE persistFatal
    BY <1>2 DEF Agreement, Quiet
  <1>3. CASE ~ persistFatal
    <2>1. mem'.active = op.saved.active /\ (mem'.unsafe <=> op.saved.unsafe \/ ~ d)
      BY <1>0, <1>1, StateParts DEF States
    <2> QED BY <1>1, <1>3, <2>1 DEF Quiet, Latching, Activating, ActingPcs, ClaimPcs
  <1> QED BY <1>2, <1>3

LEMMA QuietPrepareStep ==
    ASSUME TypeOK, Quiet, PrepareStep
    PROVE  Quiet'
  <1>0. mem \in States /\ NoOp.saved = EmptyState /\ ~ EmptyState.unsafe
    BY StateTypes DEF NoOp, EmptyState
  <1>1. CASE PreparePersistFails
    BY <1>1, QuietFatal DEF PreparePersistFails, signalVars
  <1>2. CASE PreparePersists \/ PrepareInterrupted
    <2>1. /\ UNCHANGED <<raising, reconciling, fatal, latched>>
          /\ pc \in {"prep_persist", "rollback_persist"} /\ pc' \in {"idle", "rollback_activate"}
          /\ op' \in {op, NoOp} /\ mem' \in {mem, Without(mem, op.id)}
      BY <1>2 DEF PreparePersists, PrepareInterrupted, Unprepare, Persists, Return, GoTo,
                  signalVars, latchVars, exitVars
    <2>2. mem'.active = mem.active /\ mem'.unsafe = mem.unsafe
      BY <1>0, <2>1 DEF Without, States
    <2> QED BY <1>0, <2>1, <2>2, QuietKept DEF Activating, ActingPcs, ClaimPcs
  <1> QED BY <1>1, <1>2 DEF PrepareStep

LEMMA QuietActivateStep ==
    ASSUME TypeOK, DurableInv, Agreement, Quiet, ActivateStep
    PROVE  Quiet'
  <1>0. /\ mem \in States /\ op.saved \in States /\ NoOp.saved = EmptyState /\ ~ EmptyState.unsafe
        /\ pc \in {"act_persist", "act_stage", "act_sweep", "act_flip", "act_engine"} => op.kind = "activate"
    BY StateTypes DEF DurableInv, StepOfOperation, NoOp, EmptyState
  <1>1. CASE RollbackActivate
    <2>1. /\ pc = "rollback_activate" /\ UNCHANGED <<raising, reconciling, fatal>>
          /\ \/ pc' = "idle" /\ op' = NoOp /\ UNCHANGED <<mem, latched>>
             \/ \E i : ActivateLocked(i, TRUE)
      BY <1>1 DEF RollbackActivate, ActivateFrame, Return, signalVars, exitVars, latchVars
    <2>2. CASE pc' = "idle" /\ op' = NoOp /\ UNCHANGED <<mem, latched>>
      BY <1>0, <2>1, <2>2, QuietKept DEF Activating, ActingPcs, ClaimPcs
    <2> QED BY <2>1, <2>2, QuietActivates
  <1>2. CASE ActivatePersistFails
    BY <1>2, QuietFatal DEF ActivatePersistFails, signalVars
  <1>3. CASE ActivatePersists \/ StageInstalls \/ SweepSucceeds \/ FlipInstalls
    <2>1. /\ UNCHANGED <<raising, reconciling, fatal, latched, mem, op>>
          /\ pc # "start_audit" /\ pc # "comp_done"
          /\ \/ pc \in {"act_persist", "act_stage", "act_sweep", "act_flip"} 
             \/ pc' = "start_flip"
      BY <1>3 DEF ActivatePersists, StageInstalls, SweepSucceeds, FlipInstalls, Persists, GoTo,
                  signalVars, latchVars, exitVars
    <2> QED BY <1>0, <2>1, QuietKept DEF Activating, ActingPcs, ClaimPcs
  <1>4. CASE TransactionFails \/ SweepFails
    <2>1. /\ UNCHANGED <<raising, reconciling, fatal>>
          /\ pc # "start_audit" /\ pc' = "comp_program"
          /\ RestoreState(~ persistFatal)
          /\ op' = op \/ op' = [op EXCEPT !.restoreNic = FALSE]
      BY <1>4 DEF TransactionFails, SweepFails, GoTo, signalVars, exitVars
    <2>2. op'.saved = op.saved
      BY <2>1, OpFields
    <2>3. /\ latched => latched'
          /\ mem' = [op.saved EXCEPT !.offloads = mem.offloads, !.unsafe = @ \/ ~ (~ persistFatal)]
      BY <2>1 DEF RestoreState
    <2> QED BY <2>1, <2>2, <2>3, QuietRestored
  <1>5. CASE ActivateDone
    <2>1. /\ UNCHANGED <<raising, reconciling, fatal, mem>>
          /\ pc = "act_engine" /\ pc' = "idle" /\ op' = NoOp
      BY <1>5 DEF ActivateDone, Return, signalVars, exitVars
    <2> QED BY <1>0, <2>1 DEF Quiet, Latching, Activating, ActingPcs, ClaimPcs
  <1> QED BY <1>1, <1>2, <1>3, <1>4, <1>5 DEF ActivateStep

LEMMA QuietOffloadsFailed ==
    ASSUME TypeOK, DurableInv, Agreement, Quiet, OffloadsFailed(mem, ~ persistFatal),
           pc \in ClaimPcs, UNCHANGED <<raising, reconciling, fatal>>
    PROVE  Quiet'
  <1>1. CASE op.kind = "start"
    <2>1. mem' = mem /\ pc' = "close_rules" /\ op' = [NoOp EXCEPT !.kind = "close"] /\ (latched => latched')
      BY <1>1 DEF OffloadsFailed, DurabilityLatch, latchVars
    <2>2. ~ op'.saved.unsafe
      BY <2>1 DEF NoOp, EmptyState
    <2> QED BY <2>1, <2>2, QuietKept DEF Activating, ActingPcs, ClaimPcs
  <1>2. CASE op.kind # "start"
    <2>1. /\ mem' = [op.saved EXCEPT !.offloads = mem.offloads, !.unsafe = @ \/ ~ (~ persistFatal)]
          /\ pc' = "act_unwind" /\ op' = op /\ (latched => latched')
      BY <1>2 DEF OffloadsFailed, GoTo
    <2> QED BY <2>1, QuietRestored DEF ClaimPcs
  <1> QED BY <1>1, <1>2

LEMMA QuietRestoreReturns ==
    ASSUME TypeOK, Quiet, pc \in {"restore", "restore_persist"}, NEW failed, RestoreReturns(failed),
           UNCHANGED <<raising, reconciling, fatal, latched, mem>>
    PROVE  Quiet'
  <1>1. /\ pc' \in {"idle", "gc_persist", "close_rules", "exit", "comp_done"}
        /\ op' \in {NoOp, [NoOp EXCEPT !.kind = "close"], [op EXCEPT !.failed = failed]}
    BY DEF RestoreReturns, AfterRestore
  <1>2. op'.saved = op.saved \/ ~ op'.saved.unsafe
    <2>1. NoOp.saved = EmptyState /\ [NoOp EXCEPT !.kind = "close"].saved = EmptyState /\ ~ EmptyState.unsafe
      BY DEF NoOp, EmptyState
    <2>2. [op EXCEPT !.failed = failed].saved = op.saved
      BY OpSaved
    <2> QED BY <1>1, <2>1, <2>2
  <1> QED BY <1>1, <1>2, QuietKept DEF Activating, ActingPcs, ClaimPcs

LEMMA QuietOffloadStep ==
    ASSUME TypeOK, DurableInv, Agreement, Quiet, OffloadStep
    PROVE  Quiet'
  <1>0. mem \in States /\ (pc \in ClaimPcs => op.kind \in {"activate", "start"})
    BY StateTypes DEF DurableInv, StepOfOperation, ClaimPcs
  <1>1. CASE OffloadsDown \/ DisableSucceeds
    <2>1. /\ pc \in ClaimPcs /\ UNCHANGED <<raising, reconciling, fatal, latched, mem, op>>
          /\ pc' = IF op.kind = "start" THEN StartPath(mem) ELSE "act_stage"
      BY <1>1 DEF OffloadsDown, DisableSucceeds, OffloadsDone, GoTo, ClaimPcs, signalVars, exitVars, latchVars
    <2> QED BY <1>0, <2>1, QuietKept DEF Activating, ActingPcs, ClaimPcs, StartPath
  <1>2. CASE OffloadsCapture \/ ClaimPersists \/ DisableFails
    <2>1. /\ pc \in ClaimPcs /\ pc' \in ClaimPcs
          /\ UNCHANGED <<raising, reconciling, fatal, latched, op>>
          /\ mem' = mem \/ \E b : mem' = [mem EXCEPT !.offloads = b]
      BY <1>2 DEF OffloadsCapture, ClaimPersists, DisableFails, Persists, GoTo, ClaimPcs,
                  signalVars, exitVars, latchVars
    <2>2. ASSUME NEW b PROVE  [mem EXCEPT !.offloads = b].active = mem.active /\ [mem EXCEPT !.offloads = b].unsafe = mem.unsafe
      BY <1>0 DEF States
    <2>3. mem'.active = mem.active /\ mem'.unsafe = mem.unsafe
      BY <2>1, <2>2
    <2> QED BY <1>0, <2>1, <2>3, QuietKept DEF Activating, ActingPcs, ClaimPcs
  <1>3. CASE OffloadsCallFails \/ UnclaimPersists
    <2>1. /\ pc \in ClaimPcs /\ UNCHANGED <<raising, reconciling, fatal>>
          /\ OffloadsFailed(mem, ~ persistFatal)
      BY <1>3 DEF OffloadsCallFails, UnclaimPersists, ClaimPcs, Persists, signalVars, exitVars
    <2> QED BY <2>1, QuietOffloadsFailed
  <1>4. CASE ClaimPersistFails \/ UnclaimPersistFails \/ RestorePersistFails
    BY <1>4, QuietFatal DEF ClaimPersistFails, UnclaimPersistFails, RestorePersistFails, signalVars
  <1>5. CASE RestoreNothing \/ RestorePersists
    <2>1. /\ pc \in {"restore", "restore_persist"} /\ UNCHANGED <<raising, reconciling, fatal, latched, mem>>
          /\ RestoreReturns(op.failed)
      BY <1>5 DEF RestoreNothing, RestorePersists, Persists, signalVars, exitVars, latchVars
    <2> QED BY <2>1, QuietRestoreReturns
  <1>6. CASE RestoreCall
    <2>1. /\ pc = "restore" /\ pc' = "restore_persist" /\ UNCHANGED <<raising, reconciling, fatal, latched>>
          /\ mem' = mem \/ mem' = [mem EXCEPT !.offloads = FALSE]
          /\ op' = op \/ op' = [op EXCEPT !.failed = TRUE]
      BY <1>6 DEF RestoreCall, signalVars, exitVars, latchVars
    <2>2. mem'.active = mem.active /\ mem'.unsafe = mem.unsafe
      BY <1>0, <2>1 DEF States
    <2>3. op'.saved = op.saved
      BY <2>1, OpSaved
    <2> QED BY <2>1, <2>2, <2>3, QuietKept DEF Activating, ActingPcs, ClaimPcs
  <1> QED BY <1>1, <1>2, <1>3, <1>4, <1>5, <1>6 DEF OffloadStep

LEMMA QuietCompensationStep ==
    ASSUME TypeOK, Quiet, CompensationStep
    PROVE  Quiet'
  <1>0. mem \in States /\ NoOp.saved = EmptyState /\ ~ EmptyState.unsafe
    BY StateTypes DEF NoOp, EmptyState
  <1>1. CASE \/ UnwindPersists \/ CompensationInstalls \/ CompensationInstallFails
             \/ CompensationPersists \/ CompensationDone
    <2>1. /\ UNCHANGED <<raising, reconciling, fatal, latched, mem>>
          /\ \/ pc \in {"act_unwind", "comp_program", "comp_persist"}
             \/ pc = "comp_done" /\ ~ op.failed
          /\ pc' \in {"comp_done", "comp_persist", "restore", "idle"}
          /\ op' \in {op, NoOp, [op EXCEPT !.failed = TRUE]}
      BY <1>1 DEF UnwindPersists, CompensationInstalls, CompensationInstallFails, CompensationPersists,
                  CompensationDone, Persists, GoTo, Return, AfterOldTable, AfterCompensation,
                  signalVars, latchVars, exitVars
    <2>2. op'.saved \in {op.saved, EmptyState}
      BY <1>0, <2>1, OpSaved
    <2> QED BY <1>0, <2>1, <2>2, QuietKept DEF Activating, ActingPcs, ClaimPcs
  <1>2. CASE CompensationPersistFails
    BY <1>2, QuietFatal DEF CompensationPersistFails, signalVars
  <1>3. CASE IntegrityFailureLocked
    <2>1. /\ UNCHANGED <<raising, reconciling, fatal>> /\ latched' /\ pc' = "rec_program"
          /\ mem' = Quarantined(mem) /\ op' = [NoOp EXCEPT !.kind = "reconcile"]
      BY <1>3 DEF IntegrityFailureLocked, signalVars, exitVars
    <2>2. mem'.active = 0 /\ ~ op'.saved.unsafe
      BY <1>0, <2>1, ActiveFields, OpSaved
    <2> QED BY <2>1, <2>2 DEF Quiet, Latching, Activating, ActingPcs, ClaimPcs
  <1> QED BY <1>1, <1>2, <1>3 DEF CompensationStep

LEMMA QuietRestoredFields ==
    ASSUME TypeOK
    PROVE  Restored.active = op.saved.active /\ Restored.unsafe = mem.unsafe
  BY StateTypes DEF Restored, States

LEMMA QuietUndoSteps ==
    ASSUME TypeOK, Agreement, Quiet, DeactivateStep \/ CollectStep
    PROVE  Quiet'
  <1>0. mem \in States /\ NoOp.saved = EmptyState /\ ~ EmptyState.unsafe
    BY StateTypes DEF NoOp, EmptyState
  <1>1. CASE DeactivatePersistFails \/ DrainPersistFails
    BY <1>1, QuietFatal DEF DeactivatePersistFails, DrainPersistFails, signalVars
  <1>2. CASE DeactivatePersists \/ DeactivateInstalls \/ DrainPersists \/ GcInstalls
    <2>1. /\ UNCHANGED <<raising, reconciling, fatal, latched, mem>>
          /\ pc # "start_audit" /\ pc # "comp_done"
          /\ op' \in {op, NoOp}
          /\ pc' \in {"idle", "gc_persist", "restore"} \/ (pc = "deact_persist" /\ pc' = "deact_program")
      BY <1>2 DEF DeactivatePersists, DeactivateInstalls, DrainPersists, GcInstalls, Persists, GoTo,
                  Return, AfterCollection, signalVars, latchVars, exitVars
    <2> QED BY <1>0, <2>1, QuietKept DEF Activating, ActingPcs, ClaimPcs
  <1>3. CASE DeactivateInstallFails \/ GcInstallFails
    <2>1. /\ UNCHANGED <<raising, reconciling, fatal, latched, op>> /\ mem' = Restored
          /\ pc \in {"deact_program", "gc_program"} /\ pc' = "comp_program"
      BY <1>3 DEF DeactivateInstallFails, GcInstallFails, GoTo, signalVars, exitVars, latchVars
    <2>2. mem'.active = op.saved.active /\ mem'.unsafe = mem.unsafe
      BY <2>1, QuietRestoredFields
    <2>3. pc = "gc_program" => op.saved.active = mem.active
      BY DEF Agreement, Assigning
    <2> QED BY <2>1, <2>2, <2>3 DEF Quiet, Latching, Activating, ActingPcs, ClaimPcs
  <1> QED BY <1>1, <1>2, <1>3 DEF DeactivateStep, CollectStep

LEMMA QuietReconcileStep ==
    ASSUME TypeOK, Agreement, Quiet, ReconcileStep
    PROVE  Quiet'
  <1>0. mem \in States /\ NoOp.saved = EmptyState /\ ~ EmptyState.unsafe
    BY StateTypes DEF NoOp, EmptyState
  <1>1. CASE ReconcilePersistFails
    BY <1>1, QuietFatal DEF ReconcilePersistFails, Released, Quiet
  <1>2. CASE ReconcileInstallFails
    <2>1. /\ UNCHANGED <<raising, reconciling, latched, mem, op>>
          /\ pc \in {"rec_program", "rec_remove"} /\ pc' \in {"rec_remove", "rec_persist"}
          /\ fatal' = fatal \/ fatal'
      BY <1>2 DEF ReconcileInstallFails, GoTo, signalVars, latchVars
    <2> QED BY <2>1 DEF Quiet, Latching, Activating, ActingPcs, ClaimPcs
  <1>3. CASE ReconcileInstalls
    <2>1. /\ UNCHANGED <<raising, reconciling, fatal, latched, mem, op>>
          /\ pc \in {"rec_program", "rec_remove"} /\ pc' = "rec_persist"
      BY <1>3 DEF ReconcileInstalls, GoTo, signalVars, latchVars, exitVars
    <2> QED BY <2>1, QuietKept DEF Activating, ActingPcs, ClaimPcs
  <1>4. CASE ReconcilePersists
    <2>1. /\ raising' = raising /\ reconciling' = Released /\ UNCHANGED <<fatal, latched, mem>>
          /\ pc = "rec_persist" /\ pc' = op.back
          /\ op' \in {NoOp, [op EXCEPT !.kind = "close", !.back = "idle"]}
      BY <1>4 DEF ReconcilePersists, ReconcileReturn, Persists, latchVars, exitVars
    <2>2. reconciling' = reconciling
      BY <2>1 DEF Quiet, Released
    <2>3. op.back \in {"idle", "close_rules", "exit"}
      BY OpParts DEF TypeOK, ControlTypeOK
    <2>4. op'.saved \in {op.saved, EmptyState}
      BY <1>0, <2>1, OpSaved
    <2> QED BY <1>0, <2>1, <2>2, <2>3, <2>4, QuietKept DEF Activating, ActingPcs, ClaimPcs
  <1> QED BY <1>1, <1>2, <1>3, <1>4 DEF ReconcileStep

LEMMA QuietStartStep ==
    ASSUME TypeOK, DurableInv, Agreement, Quiet, StartStep
    PROVE  Quiet'
  <1>0. /\ mem \in States /\ NoOp.saved = EmptyState /\ [NoOp EXCEPT !.kind = "close"].saved = EmptyState
        /\ ~ EmptyState.unsafe
        /\ pc \in {"start_load", "start_audit", "start_persist"} => op.kind = "start"
    BY StateTypes DEF DurableInv, StepOfOperation, NoOp, EmptyState
  <1>1. CASE StartPersistFails
    BY <1>1, QuietFatal DEF StartPersistFails, signalVars
  <1>2. CASE StartLoads
    <2>1. /\ UNCHANGED <<raising, reconciling, fatal, latched>> /\ pc' = "start_audit"
          /\ op' = [op EXCEPT !.loaded = disk # NoFile]
      BY <1>2 DEF StartLoads, signalVars, exitVars, latchVars
    <2>2. op'.saved = op.saved
      BY <2>1, OpSaved
    <2> QED BY <2>1, <2>2 DEF Quiet, Latching, Activating, ActingPcs, ClaimPcs
  <1>3. CASE StartQuarantines
    <2>1. /\ UNCHANGED <<raising, reconciling, fatal, op>> /\ latched' /\ pc' = "start_audit"
      BY <1>3 DEF StartQuarantines, GoTo, signalVars, exitVars
    <2> QED BY <2>1 DEF Quiet, Latching, Activating, ActingPcs, ClaimPcs
  <1>4. CASE StartQuarantineFails \/ StartFails
    <2>1. /\ UNCHANGED <<raising, reconciling, fatal, latched>> /\ pc' = "close_rules"
          /\ op' = [NoOp EXCEPT !.kind = "close"]
          /\ pc # "start_audit" /\ pc # "comp_done"
          /\ mem' = mem \/ \E b : mem' = [mem EXCEPT !.offloads = b]
      BY <1>4 DEF StartQuarantineFails, StartFails, Abandon, signalVars, exitVars, latchVars
    <2>2. ASSUME NEW b PROVE  [mem EXCEPT !.offloads = b].active = mem.active /\ [mem EXCEPT !.offloads = b].unsafe = mem.unsafe
      BY <1>0 DEF States
    <2>3. mem'.active = mem.active /\ mem'.unsafe = mem.unsafe
      BY <2>1, <2>2
    <2> QED BY <1>0, <2>1, <2>3, QuietKept DEF Activating, ActingPcs, ClaimPcs
  <1>5. CASE StartAudits
    <2>1. PICK m \in {mem, [mem EXCEPT !.unsafe = TRUE, !.active = 0]} :
             mem' = (IF m.unsafe THEN Quarantined(m) ELSE m) /\ latched' = (latched \/ m.unsafe)
      BY <1>5 DEF StartAudits
    <2>2. /\ UNCHANGED <<raising, reconciling, fatal>> /\ pc = "start_audit" /\ pc' = "start_persist"
          /\ op' = [op EXCEPT !.audited = TRUE]
      BY <1>5 DEF StartAudits, signalVars, exitVars
    <2>3. m \in States
      BY <1>0, <2>1, AuditedType
    <2>4. \/ ~ mem'.unsafe \/ (latched' /\ mem'.active = 0)
      BY <2>1, <2>3, ActiveFields
    <2>5. op'.saved = op.saved /\ (latched => latched')
      BY <2>1, <2>2, OpSaved
    <2> QED BY <1>0, <2>2, <2>4, <2>5 DEF Quiet, Latching, Activating, ActingPcs, ClaimPcs
  <1>6. CASE StartAuditFails
    <2>1. /\ UNCHANGED <<raising, reconciling, fatal, op>> /\ pc' = "start_persist" /\ latched'
          /\ mem'.active = 0
      BY <1>0, <1>6 DEF StartAuditFails, GoTo, signalVars, exitVars, States
    <2> QED BY <2>1 DEF Quiet, Latching, Activating, ActingPcs, ClaimPcs
  <1>7. CASE StartPersists
    <2>1. /\ UNCHANGED <<raising, reconciling, fatal, latched, mem, op>> /\ pc = "start_persist"
          /\ pc' \in {"offload", StartPath(mem)}
      BY <1>7 DEF StartPersists, Persists, GoTo, signalVars, latchVars, exitVars
    <2> QED BY <1>0, <2>1, QuietKept DEF Activating, ActingPcs, ClaimPcs, StartPath
  <1>8. CASE StartRemoves \/ StartInstallsBoundary \/ StartFlips \/ StartPrograms \/ StartProgramsUngated
    <2>1. /\ UNCHANGED <<raising, reconciling, fatal, latched, mem>>
          /\ pc # "start_audit" /\ pc # "comp_done"
          /\ op' \in {op, NoOp}
          /\ pc' \in {"idle", "restore", "start_load", "start_sweep"}
      BY <1>8 DEF StartRemoves, StartInstallsBoundary, StartFlips, StartPrograms, StartProgramsUngated,
                  GoTo, Return, signalVars, latchVars, exitVars
    <2> QED BY <1>0, <2>1, QuietKept DEF Activating, ActingPcs, ClaimPcs
  <1> QED BY <1>1, <1>2, <1>3, <1>4, <1>5, <1>6, <1>7, <1>8 DEF StartStep

LEMMA QuietCloseStep ==
    ASSUME TypeOK, Quiet, CloseStep \/ Crash \/ Boot \/ Shutdown
    PROVE  Quiet'
  <1>0. NoOp.saved = EmptyState /\ ~ EmptyState.unsafe /\ \A k : [NoOp EXCEPT !.kind = k].saved = EmptyState
    BY DEF NoOp, EmptyState
  <1>1. CASE CloseRemoves \/ CloseFails \/ Boot \/ Shutdown
    <2>1. /\ UNCHANGED <<raising, reconciling, fatal, latched, mem>>
          /\ pc # "start_audit" /\ pc # "comp_done"
          /\ \/ op' \in {op, [op EXCEPT !.failed = TRUE]}
             \/ \E k : op' = [NoOp EXCEPT !.kind = k]
          /\ pc' \in {"restore", "close_rules", "exit", "start_remove"}
      BY <1>1 DEF CloseRemoves, CloseFails, Boot, Shutdown, Abandon, Idle, GoTo, signalVars, latchVars, exitVars
    <2>2. op'.saved = op.saved \/ ~ op'.saved.unsafe
      <3>1. op' \in {op, [op EXCEPT !.failed = TRUE]} => op'.saved = op.saved
        BY OpSaved
      <3> QED BY <1>0, <2>1, <3>1
    <2> QED BY <2>1, <2>2, QuietKept DEF Activating, ActingPcs, ClaimPcs
  <1>2. CASE Exit \/ Crash
    <2>1. ~ fatal' /\ ~ raising' /\ reconciling' = "no" /\ pc' = "down" /\ mem' = EmptyState /\ op' = NoOp
      BY <1>2 DEF Exit, Crash, ProcessGone
    <2> QED BY <1>0, <2>1 DEF Quiet, Latching, Activating, ActingPcs, ClaimPcs
  <1> QED BY <1>1, <1>2 DEF CloseStep

LEMMA QuietNext ==
    ASSUME MaxSignals = 0, TypeOK, DurableInv, Agreement, Quiet, [Next]_vars
    PROVE  Quiet'
  <1>1. CASE Kernel \/ UNCHANGED vars
    <2>1. UNCHANGED <<pc, op, mem, raising, reconciling, latched, fatal>>
      BY <1>1 DEF Kernel, controllerVars, vars, signalVars, latchVars, exitVars
    <2> QED BY <2>1 DEF Quiet, Latching, Activating, ActingPcs, ClaimPcs
  <1>2. ~ (IntegrityFailure \/ ReconcileStart \/ ReconcileBegin \/ ReconcileEnd)
    BY DEF IntegrityFailure, ReconcileStart, ReconcileBegin, ReconcileEnd, Quiet, TypeOK, FlagTypeOK
  <1> QED BY <1>1, <1>2, QuietRequest, QuietPending, QuietPrepareStep, QuietActivateStep,
             QuietOffloadStep, QuietCompensationStep, QuietUndoSteps, QuietReconcileStep,
             QuietStartStep, QuietCloseStep DEF Next, LockedStep

LEMMA QuietInit == Init => Quiet
  BY DEF Init, EmptyState, NoOp, Quiet, Latching, Activating, ActingPcs, ClaimPcs

\* With no integrity signal, whatever calls fail and whenever the process stops:
\* an unsafe controller at rest assigns nothing, in memory, in the table or in
\* the registry (persistenceFailureLocked, integrityFailureLocked, Start).  A
\* signal breaks it: IntegrityFailure latches the fault before the reconciler
\* withdraws the assignment.
THEOREM UnsafeIsUnassigned ==
    ASSUME MaxSignals = 0
    PROVE  Spec => []UnsafeAssignsNothing
  <1>1. TypeOK /\ DurableInv /\ [Next]_vars => DurableInv'
    BY DurableNext
  <1>2. TypeOK /\ LoadInv /\ [Next]_vars => LoadInv'
    BY LoadNext
  <1>3. TypeOK /\ DurableInv /\ LoadInv /\ EngineInv /\ [Next]_vars => EngineInv'
    BY EngineNext
  <1>4. TypeOK /\ DurableInv /\ EngineInv /\ Agreement /\ [Next]_vars => Agreement'
    BY AgreementNext
  <1>5. TypeOK /\ DurableInv /\ Agreement /\ Quiet /\ [Next]_vars => Quiet'
    BY QuietNext
  <1>6. Agreement /\ Quiet => UnsafeAssignsNothing
    BY DEF Agreement, InStep, Resting, AtRest, Quiet, Latching, UnsafeAssignsNothing, Idle
  <1> QED BY <1>1, <1>2, <1>3, <1>4, <1>5, <1>6, DurableInit, LoadInit, EngineInit, AgreementInit,
             QuietInit, TypeCorrect, PTL DEF Spec

-----------------------------------------------------------------------------
\* The neutral boundary, where a failed transaction has not committed

Owned == \A f \in Flows : mark[f] # Unmarked

\* The assignment an operation still owes the table, or has restored.
Assigned ==
    IF Activating \/ pc \in {"deact_persist", "deact_program"} THEN op.saved.active ELSE mem.active

\* Startup has not installed its assignment yet, or shutdown withdraws it.
Unserved ==
    \/ pc \in StartPcs \cup {"down", "close_rules", "exit"}
    \/ pc \in ClaimPcs \cup {"restore", "restore_persist"} /\ op.kind \in {"start", "close"}

\* While nothing is assigned, only a boundary that has neutralized every
\* unowned connection is followed by an assignment: no compensation, and no
\* operation that merely programs the table again, brings back an assignment
\* that the table does not have.
BoundaryInv ==
    /\ NeutralBoundary
    /\ Unserved \/ Assigned = 0 \/ rules.active # 0
    /\ pc = "act_sweep" => op.saved.active = 0
    /\ pc \in {"act_sweep", "act_flip"} /\ op.saved.active = 0 => rules.active = 0 /\ rules.neutral
    /\ pc \in {"start_sweep", "start_flip"} => rules.active = 0 /\ rules.neutral
    /\ pc \in {"act_flip", "start_flip"} => Owned
    /\ op.kind = "start" /\ pc \in {"restore", "restore_persist"} => mem.active = 0

\* A table that assigns, or that has the neutral assignment, leaves no new
\* connection unowned.
LEMMA OwnedKernel ==
    ASSUME TypeOK, Kernel \/ UNCHANGED vars, Owned, rules.active # 0 \/ rules.neutral
    PROVE  Owned'
  <1>0. rules \in Tables /\ mark \in [Flows -> Marks]
    BY DEF TypeOK, KernelTypeOK
  <1>1. rules.active \in 0 .. MaxId
    BY <1>0 DEF Tables
  <1>2. Assignment # Unmarked /\ Absent # Unmarked
    BY <1>1, SteeringAssumption DEF Assignment, Unmarked, Neutral, Absent
  <1>3. ASSUME NEW f \in Flows, Syn(f) \/ FlowEnd(f) \/ FlowIdle(f)
        PROVE  Owned'
    <2>1. mark' \in {mark, [mark EXCEPT ![f] = Assignment], [mark EXCEPT ![f] = Absent]}
      BY <1>3 DEF Syn, FlowEnd, FlowIdle
    <2> QED BY <1>0, <1>2, <2>1 DEF Owned
  <1>4. CASE UNCHANGED vars
    BY <1>4 DEF vars, kernelVars, flowVars, Owned
  <1> QED BY <1>3, <1>4 DEF Kernel, KernelNext

\* The controller only ever neutralizes.
LEMMA OwnedSwept ==
    ASSUME NEW fs, mark' = Neutralized(fs), Owned
    PROVE  Owned'
  BY DEF Neutralized, Owned, Neutral, Unmarked

LEMMA OwnedStep ==
    ASSUME Next, ~ Kernel
    PROVE  Owned => Owned'
  <1> USE DEF kernelVars, flowVars
  <1>1. CASE \/ IntegrityFailure \/ ReconcileStart \/ ReconcileEnd
             \/ Request \/ Pending \/ PrepareStep
    <2>1. UNCHANGED mark
      BY <1>1
       DEF IntegrityFailure, ReconcileStart, ReconcileEnd,
           Request, Prepare, PrepareGateFails, ActivateForNewConnections, Rollback,
           ActivateFrame, DeactivateForNewConnections, DrainBegin, GcList, RollbackBegin,
           RequestFrame,
           Pending, GcBegin, CountBegin, CountSucceeds, CountFails, RollbackCountFails,
           DrainFinish, GcFinish, RollbackFinish,
           PrepareStep, PrepareInterrupted, PreparePersists, PreparePersistFails
    <2> QED BY <2>1 DEF Owned
  <1>2. CASE ActivateStep \/ OffloadStep
    <2>1. UNCHANGED mark \/ \E fs : mark' = Neutralized(fs)
      BY <1>2
       DEF ActivateStep, RollbackActivate, ActivateFrame, ActivatePersists, ActivatePersistFails,
           StageInstalls, SweepSucceeds, FlipInstalls, TransactionFails, SweepFails, ActivateDone,
           OffloadStep, OffloadsDown, OffloadsCapture, OffloadsCallFails, ClaimPersists,
           ClaimPersistFails, DisableSucceeds, DisableFails, UnclaimPersists, UnclaimPersistFails,
           RestoreNothing, RestoreCall, RestorePersists, RestorePersistFails
    <2> QED BY <2>1, OwnedSwept DEF Owned
  <1>3. CASE CompensationStep \/ DeactivateStep \/ CollectStep \/ ReconcileStep
    <2>1. UNCHANGED mark
      BY <1>3
       DEF CompensationStep, UnwindPersists, CompensationInstalls, CompensationInstallFails,
           CompensationPersists, CompensationPersistFails, CompensationDone, IntegrityFailureLocked,
           DeactivateStep, DeactivatePersists, DeactivatePersistFails, DeactivateInstalls,
           DeactivateInstallFails, CollectStep, DrainPersists, DrainPersistFails, GcInstalls,
           GcInstallFails, ReconcileStep, ReconcileInstalls, ReconcileInstallFails,
           ReconcilePersists, ReconcilePersistFails
    <2> QED BY <2>1 DEF Owned
  <1>4. CASE StartStep \/ CloseStep \/ Crash \/ ReconcileBegin \/ Boot \/ Shutdown
    <2>1. UNCHANGED mark \/ \E fs : mark' = Neutralized(fs)
      BY <1>4
       DEF StartStep, StartRemoves, StartLoads, StartQuarantines, StartQuarantineFails,
           StartAudits, StartAuditFails, StartPersists, StartPersistFails, StartInstallsBoundary,
           StartFlips, StartPrograms, StartProgramsUngated, StartFails, CloseStep, CloseRemoves,
           CloseFails, Exit, Crash, ProcessGone, ReconcileBegin, Boot, Shutdown
    <2> QED BY <2>1, OwnedSwept DEF Owned
  <1> QED BY <1>1, <1>2, <1>3, <1>4 DEF Next, LockedStep

LEMMA BoundaryKernel ==
    ASSUME TypeOK, BoundaryInv, Kernel \/ UNCHANGED vars
    PROVE  BoundaryInv'
  <1>1. UNCHANGED <<rules, pc, op, mem>>
    BY DEF Kernel, KernelNext, Syn, FlowEnd, FlowIdle, controllerVars, vars, kernelVars
  <1>2. ASSUME pc \in {"act_flip", "start_flip"} \/ rules.active # 0
        PROVE  Owned'
    <2>1. Owned
      BY <1>2 DEF BoundaryInv, NeutralBoundary, Owned
    <2>2. rules.active # 0 \/ rules.neutral
      BY <1>2 DEF BoundaryInv, Assigned, Activating, ActingPcs, ClaimPcs, Unserved, StartPcs
    <2> QED BY <2>1, <2>2, OwnedKernel
  <1> QED BY <1>1, <1>2
       DEF BoundaryInv, NeutralBoundary, Owned, Assigned, Unserved, Activating, ActingPcs, ClaimPcs

\* The table stands, and so does what is owed to it.
LEMMA BoundaryKept ==
    ASSUME BoundaryInv, Owned => Owned', rules' = rules,
           pc' \notin {"act_sweep", "act_flip", "start_sweep", "start_flip"},
           op'.kind = "start" /\ pc' \in {"restore", "restore_persist"} => mem'.active = 0,
           Unserved' \/ Assigned' = 0 \/ (~ Unserved /\ Assigned' = Assigned)
    PROVE  BoundaryInv'
  BY DEF BoundaryInv, NeutralBoundary, Owned

\* The table is replaced by one that assigns nothing new.
LEMMA BoundaryInstalls ==
    ASSUME BoundaryInv, Owned => Owned',
           rules'.active = 0 \/ rules.active # 0,
           pc' \notin {"act_sweep", "act_flip", "start_sweep", "start_flip"},
           op'.kind = "start" /\ pc' \in {"restore", "restore_persist"} => mem'.active = 0,
           Unserved' \/ Assigned' = 0 \/ rules'.active # 0
    PROVE  BoundaryInv'
  BY DEF BoundaryInv, NeutralBoundary, Owned

LEMMA BoundaryActivates ==
    ASSUME TypeOK, BoundaryInv, NEW id, NEW repair, ActivateLocked(id, repair),
           pc \in {"idle", "rollback_activate"}, Owned => Owned', rules' = rules
    PROVE  BoundaryInv'
  <1>1. Assigned = mem.active /\ ~ Unserved
    BY DEF Assigned, Unserved, Activating, ActingPcs, ClaimPcs, StartPcs
  <1>2. CASE UNCHANGED <<mem, engines>> /\ pc' = "idle" /\ op' = NoOp
    <2>1. Assigned' = mem.active
      BY <1>2 DEF Assigned, Activating, ActingPcs, ClaimPcs
    <2> QED BY <1>1, <1>2, <2>1, BoundaryKept
  <1>3. CASE pc' = "act_persist" /\ op'.kind = "activate" /\ op'.id = id /\ op'.saved = mem
    <2>1. Assigned' = mem.active
      BY <1>3 DEF Assigned, Activating, ActingPcs
    <2> QED BY <1>1, <1>3, <2>1, BoundaryKept
  <1> QED BY <1>2, <1>3, ActivateLockedShape

LEMMA BoundaryRequest ==
    ASSUME TypeOK, BoundaryInv, Request, Owned => Owned'
    PROVE  BoundaryInv'
  <1> USE DEF Assigned, Unserved, Activating, ActingPcs, ClaimPcs, StartPcs
  <1>0. mem \in States
    BY StateTypes
  <1>1. ASSUME NEW a \in Artifacts, Prepare(a)
        PROVE  BoundaryInv'
    <2>1. /\ pc = "idle" /\ pc' \in {"idle", "prep_persist"} /\ UNCHANGED rules
          /\ mem' = mem \/ \E i : mem' = Prepared(mem, i, a)
      BY <1>1 DEF Prepare, MayRequest, Idle, kernelVars
    <2>2. mem'.active = mem.active
      BY <1>0, <2>1, ActiveFields
    <2> QED BY <2>1, <2>2, BoundaryKept
  <1>2. ASSUME NEW a \in Artifacts, ActivateForNewConnections(a) \/ Rollback(a)
        PROVE  BoundaryInv'
    <2>1. pc = "idle" /\ UNCHANGED rules /\ \E id, repair : ActivateLocked(id, repair)
      BY <1>2 DEF ActivateForNewConnections, Rollback, ActivateFrame, MayRequest, Idle, kernelVars
    <2> QED BY <2>1, BoundaryActivates
  <1>3. ASSUME NEW a \in Artifacts, DeactivateForNewConnections(a)
        PROVE  BoundaryInv'
    <2>1. /\ pc = "idle" /\ pc' = "deact_persist" /\ UNCHANGED rules
          /\ op' = [NoOp EXCEPT !.kind = "deactivate", !.saved = mem]
      BY <1>3 DEF DeactivateForNewConnections, MayRequest, Idle, kernelVars
    <2>2. op'.saved = mem
      BY <2>1, NewOpFields
    <2> QED BY <2>1, <2>2, BoundaryKept
  <1>4. ASSUME \/ PrepareGateFails
               \/ \E c \in Clients : \/ \E a \in Artifacts : DrainBegin(c, a) \/ RollbackBegin(c, a)
                                     \/ \E i \in Ids : GcList(c, i)
        PROVE  BoundaryInv'
    <2>1. pc = "idle" /\ UNCHANGED <<rules, pc, op, mem>>
      BY <1>4 DEF PrepareGateFails, DrainBegin, GcList, RollbackBegin, RequestFrame, kernelVars, MayRequest, Idle
    <2> QED BY <2>1, BoundaryKept
  <1> QED BY <1>1, <1>2, <1>3, <1>4 DEF Request

LEMMA BoundaryPending ==
    ASSUME TypeOK, BoundaryInv, Pending, Owned => Owned'
    PROVE  BoundaryInv'
  <1> USE DEF Assigned, Unserved, Activating, ActingPcs, ClaimPcs, StartPcs
  <1>0. mem \in States
    BY StateTypes
  <1>1. ASSUME NEW c \in Clients, DrainFinish(c) \/ RollbackCountFails(c) \/ GcFinish(c)
        PROVE  BoundaryInv'
    <2>1. /\ pc = "idle" /\ UNCHANGED rules /\ pc' \in {"idle", "drain_persist", "comp_done", "gc_program"}
      BY <1>1 DEF DrainFinish, RollbackCountFails, GcFinish, Idle, kernelVars
    <2>2. mem'.active = mem.active
      <3>1. \/ mem' = mem \/ mem' = [mem EXCEPT !.unsafe = TRUE]
            \/ mem' = [mem EXCEPT !.phase = [@ EXCEPT ![pend[c].id] = DrainPhase(pend[c])]]
            \/ mem' = [Without(mem, pend[c].id) EXCEPT !.previous = IF @ = pend[c].id THEN 0 ELSE @]
        BY <1>1 DEF DrainFinish, RollbackCountFails, GcFinish
      <3>2. [mem EXCEPT !.phase = [@ EXCEPT ![pend[c].id] = DrainPhase(pend[c])]].active = mem.active
        BY <1>0 DEF States
      <3>3. [Without(mem, pend[c].id) EXCEPT !.previous = IF @ = pend[c].id THEN 0 ELSE @].active = mem.active
        BY <1>0 DEF Without, States
      <3>4. [mem EXCEPT !.unsafe = TRUE].active = mem.active
        BY <1>0 DEF States
      <3> QED BY <3>1, <3>2, <3>3, <3>4
    <2> QED BY <2>1, <2>2, BoundaryKept
  <1>2. ASSUME NEW c \in Clients, RollbackFinish(c)
        PROVE  BoundaryInv'
    <2>1. /\ pc = "idle" /\ UNCHANGED rules
          /\ \/ UNCHANGED <<mem, pc, op>>
             \/ \E i : ActivateLocked(i, TRUE)
             \/ pc' = "rollback_persist" /\ \E i : mem' = Prepared(mem, i, pend[c].art)
      BY <1>2 DEF RollbackFinish, Idle, kernelVars
    <2>2. CASE UNCHANGED <<mem, pc, op>>
      BY <2>1, <2>2, BoundaryKept
    <2>3. CASE pc' = "rollback_persist" /\ \E i : mem' = Prepared(mem, i, pend[c].art)
      <3>1. mem'.active = mem.active
        BY <1>0, <2>3, ActiveFields
      <3> QED BY <2>1, <2>3, <3>1, BoundaryKept
    <2> QED BY <2>1, <2>2, <2>3, BoundaryActivates
  <1>3. ASSUME NEW c \in Clients, GcBegin(c) \/ CountBegin(c) \/ CountSucceeds(c) \/ CountFails(c)
        PROVE  BoundaryInv'
    <2>1. UNCHANGED <<rules, pc, op, mem>>
      BY <1>3 DEF GcBegin, CountBegin, CountSucceeds, CountFails, RequestFrame, kernelVars
    <2> QED BY <2>1 DEF BoundaryInv, NeutralBoundary, Owned
  <1> QED BY <1>1, <1>2, <1>3 DEF Pending

\* A failed transaction that did not commit leaves the table as it was.
LEMMA TableKept ==
    ASSUME ~ CommitOnError, NEW r, InstallFails(r)
    PROVE  rules' = rules
  BY DEF InstallFails

LEMMA BoundaryPrepareStep ==
    ASSUME TypeOK, BoundaryInv, PrepareStep, Owned => Owned'
    PROVE  BoundaryInv'
  <1> USE DEF Assigned, Unserved, Activating, ActingPcs, ClaimPcs, StartPcs
  <1>0. mem \in States /\ MarkUnsafe(mem) \in States
    BY StateTypes, MarkUnsafeType
  <1>1. /\ pc \in {"prep_persist", "rollback_persist"} /\ pc' \in {"idle", "rollback_activate"}
        /\ UNCHANGED rules
    BY DEF PrepareStep, PreparePersists, PrepareInterrupted, PreparePersistFails, Return, GoTo, kernelVars
  <1>2. mem' = mem \/ mem' = Without(mem, op.id) \/ mem' = Without(MarkUnsafe(mem), op.id)
    BY DEF PrepareStep, PreparePersists, PrepareInterrupted, PreparePersistFails, Unprepare
  <1>3. mem'.active = mem.active
    BY <1>0, <1>2, ActiveFields
  <1> QED BY <1>1, <1>3, BoundaryKept

LEMMA BoundaryActivateStep ==
    ASSUME ~ CommitOnError, TypeOK, DurableInv, BoundaryInv, ActivateStep, Owned => Owned'
    PROVE  BoundaryInv'
  <1>0. /\ mem \in States /\ op.saved \in States
        /\ pc \in {"act_persist", "act_stage", "act_sweep", "act_flip", "act_engine"} => op.kind = "activate"
    BY StateTypes DEF DurableInv, StepOfOperation
  <1>1. CASE RollbackActivate
    <2>1. /\ pc = "rollback_activate" /\ UNCHANGED rules
          /\ \/ pc' = "idle" /\ UNCHANGED mem
             \/ \E i : ActivateLocked(i, TRUE)
      BY <1>1 DEF RollbackActivate, ActivateFrame, Return, kernelVars
    <2>2. CASE pc' = "idle" /\ UNCHANGED mem
      BY <2>1, <2>2, BoundaryKept DEF Assigned, Unserved, Activating, ActingPcs, ClaimPcs, StartPcs
    <2> QED BY <2>1, <2>2, BoundaryActivates
  <1>2. CASE ActivatePersists
    <2>1. UNCHANGED <<rules, mem, op>> /\ pc = "act_persist" /\ pc' = "offload"
      BY <1>2 DEF ActivatePersists, Persists, GoTo, kernelVars
    <2> QED BY <1>0, <2>1, BoundaryKept DEF Assigned, Unserved, Activating, ActingPcs, ClaimPcs, StartPcs
  <1>3. CASE ActivatePersistFails \/ TransactionFails \/ SweepFails
    <2>1. /\ pc \in ActingPcs /\ pc' \in {"idle", "comp_program"} /\ UNCHANGED rules
          /\ \E durable : RestoreState(durable)
      BY <1>3, TableKept DEF ActivatePersistFails, TransactionFails, SweepFails, GoTo, Return, kernelVars, ActingPcs
    <2>2. mem'.active = op.saved.active
      BY <2>1, AgreementRestored
    <2> QED BY <2>1, <2>2, BoundaryKept DEF Assigned, Unserved, Activating, ActingPcs, ClaimPcs, StartPcs
  <1>4. CASE StageInstalls
    <2>1. /\ UNCHANGED op /\ rules' = StageTable /\ pc = "act_stage"
          /\ pc' = IF op.saved.active = 0 THEN "act_sweep" ELSE "act_flip"
      BY <1>4 DEF StageInstalls, Installs, GoTo
    <2>2. rules'.active = op.saved.active /\ rules'.neutral = (op.saved.active = 0)
      BY <2>1, TableFields
    <2>3. op.saved.active # 0 => Owned'
      BY <2>1 DEF BoundaryInv, NeutralBoundary, Owned, Assigned, Unserved, Activating, ActingPcs, ClaimPcs, StartPcs
    <2> QED BY <1>0, <2>1, <2>2, <2>3
         DEF BoundaryInv, NeutralBoundary, Owned, Assigned, Unserved, Activating, ActingPcs, ClaimPcs, StartPcs
  <1>5. CASE SweepSucceeds
    <2>1. /\ UNCHANGED <<rules, op, mem>> /\ mark' = Neutralized(Flows)
          /\ \/ pc = "act_sweep" /\ pc' = "act_flip"
             \/ pc = "start_sweep" /\ pc' = "start_flip"
      BY <1>5 DEF SweepSucceeds, GoTo
    <2>2. Owned'
      BY <2>1 DEF Owned, Neutralized, Neutral, Unmarked
    <2> QED BY <1>0, <2>1, <2>2
         DEF BoundaryInv, NeutralBoundary, Owned, Assigned, Unserved, Activating, ActingPcs, ClaimPcs, StartPcs
  <1>6. CASE FlipInstalls
    <2>1. UNCHANGED <<op, mem>> /\ rules' = FlipTable /\ pc = "act_flip" /\ pc' = "act_engine"
      BY <1>6 DEF FlipInstalls, Installs, GoTo
    <2>2. rules'.active = mem.active /\ Owned'
      BY <2>1, TableFields DEF BoundaryInv
    <2> QED BY <1>0, <2>1, <2>2
         DEF BoundaryInv, NeutralBoundary, Owned, Assigned, Unserved, Activating, ActingPcs, ClaimPcs, StartPcs
  <1>7. CASE ActivateDone
    <2>1. UNCHANGED <<rules, mem>> /\ pc = "act_engine" /\ pc' = "idle"
      BY <1>7 DEF ActivateDone, Return, kernelVars
    <2> QED BY <2>1, BoundaryKept DEF Assigned, Unserved, Activating, ActingPcs, ClaimPcs, StartPcs
  <1> QED BY <1>1, <1>2, <1>3, <1>4, <1>5, <1>6, <1>7 DEF ActivateStep

LEMMA BoundaryOffloadStep ==
    ASSUME TypeOK, DurableInv, BoundaryInv, OffloadStep, Owned => Owned'
    PROVE  BoundaryInv'
  <1>0. /\ mem \in States /\ op.saved \in States
        /\ pc \in ClaimPcs => op.kind \in {"activate", "start"}
    BY StateTypes DEF DurableInv, StepOfOperation, ClaimPcs
  <1>1. CASE OffloadsDown \/ DisableSucceeds
    <2>1. /\ pc \in ClaimPcs /\ UNCHANGED <<rules, op, mem>>
          /\ pc' = IF op.kind = "start" THEN StartPath(mem) ELSE "act_stage"
      BY <1>1 DEF OffloadsDown, DisableSucceeds, OffloadsDone, GoTo, ClaimPcs, kernelVars
    <2> QED BY <1>0, <2>1, BoundaryKept
         DEF Assigned, Unserved, Activating, ActingPcs, ClaimPcs, StartPcs, StartPath
  <1>2. CASE OffloadsCapture \/ ClaimPersists \/ DisableFails
    <2>1. /\ pc \in ClaimPcs /\ pc' \in ClaimPcs /\ UNCHANGED <<rules, op>>
          /\ mem' = mem \/ \E b : mem' = [mem EXCEPT !.offloads = b]
      BY <1>2 DEF OffloadsCapture, ClaimPersists, DisableFails, Persists, GoTo, ClaimPcs, kernelVars
    <2>2. ASSUME NEW b PROVE [mem EXCEPT !.offloads = b].active = mem.active
      BY <1>0 DEF States
    <2>3. mem'.active = mem.active
      BY <2>1, <2>2
    <2> QED BY <1>0, <2>1, <2>3, BoundaryKept
         DEF Assigned, Unserved, Activating, ActingPcs, ClaimPcs, StartPcs
  <1>3. CASE OffloadsCallFails \/ UnclaimPersists \/ ClaimPersistFails \/ UnclaimPersistFails
    <2>1. /\ pc \in ClaimPcs /\ UNCHANGED rules
          /\ \E m, durable : OffloadsFailed(m, durable)
      BY <1>3 DEF OffloadsCallFails, UnclaimPersists, ClaimPersistFails, UnclaimPersistFails, ClaimPcs, kernelVars
    <2>2. PICK m, durable : OffloadsFailed(m, durable)
      BY <2>1
    <2>3. CASE op.kind = "start"
      BY <2>1, <2>2, <2>3, BoundaryKept DEF OffloadsFailed, Unserved, StartPcs
    <2>4. CASE op.kind = "activate"
      <3>1. /\ pc' = "act_unwind"
            /\ mem' = [op.saved EXCEPT !.offloads = m.offloads, !.unsafe = @ \/ ~ durable]
        BY <2>2, <2>4 DEF OffloadsFailed, GoTo
      <3>2. mem'.active = op.saved.active
        BY <1>0, <3>1, ActiveFields
      <3> QED BY <2>1, <2>4, <3>1, <3>2, BoundaryKept
           DEF Assigned, Unserved, Activating, ActingPcs, ClaimPcs, StartPcs
    <2> QED BY <1>0, <2>1, <2>3, <2>4
  <1>4. CASE RestoreNothing \/ RestorePersists \/ RestorePersistFails
    <2>1. /\ pc \in {"restore", "restore_persist"} /\ UNCHANGED rules
          /\ mem' = mem \/ mem' = MarkUnsafe(mem)
          /\ \E failed : RestoreReturns(failed)
      BY <1>4 DEF RestoreNothing, RestorePersists, RestorePersistFails, kernelVars
    <2>2. mem'.active = mem.active
      BY <1>0, <2>1, ActiveFields
    <2>3. /\ pc' \in {"idle", "gc_persist", "close_rules", "exit", "comp_done"}
          /\ pc' \in {"idle", "gc_persist"} => op.kind \in {"gc", "start"}
          /\ pc' = "comp_done" => op.kind \notin {"gc", "start", "close"}
      BY <2>1 DEF RestoreReturns, AfterRestore
    <2>4. op.kind = "start" => mem.active = 0
      BY <2>1 DEF BoundaryInv
    <2> QED BY <2>1, <2>2, <2>3, <2>4, BoundaryKept
         DEF Assigned, Unserved, Activating, ActingPcs, ClaimPcs, StartPcs
  <1>5. CASE RestoreCall
    <2>1. /\ pc = "restore" /\ pc' = "restore_persist" /\ UNCHANGED rules
          /\ mem' = mem \/ mem' = [mem EXCEPT !.offloads = FALSE]
          /\ op' = op \/ op' = [op EXCEPT !.failed = TRUE]
      BY <1>5 DEF RestoreCall, kernelVars
    <2>2. mem'.active = mem.active
      BY <1>0, <2>1 DEF States
    <2>3. op'.kind = op.kind
      BY <2>1, OpFields
    <2>4. op.kind = "start" => mem.active = 0
      BY <2>1 DEF BoundaryInv
    <2> QED BY <2>1, <2>2, <2>3, <2>4, BoundaryKept
         DEF Assigned, Unserved, Activating, ActingPcs, ClaimPcs, StartPcs
  <1> QED BY <1>1, <1>2, <1>3, <1>4, <1>5 DEF OffloadStep

LEMMA BoundaryCompensationStep ==
    ASSUME ~ CommitOnError, TypeOK, Agreement, BoundaryInv, CompensationStep, Owned => Owned'
    PROVE  BoundaryInv'
  <1> USE DEF Assigned, Unserved, Activating, ActingPcs, ClaimPcs, StartPcs
  <1>0. mem \in States
    BY StateTypes
  <1>1. CASE UnwindPersists \/ CompensationPersists \/ CompensationPersistFails \/ CompensationDone
    <2>1. /\ pc \in {"act_unwind", "comp_persist", "comp_done"} /\ UNCHANGED rules
          /\ pc' \in {"comp_done", "idle"} \/ (pc = "comp_persist" /\ pc' = "restore")
          /\ mem' = mem \/ mem' = MarkUnsafe(mem)
          /\ pc' # "restore" \/ op' = op \/ op' = [op EXCEPT !.failed = TRUE]
      BY <1>1 DEF UnwindPersists, CompensationPersists, CompensationPersistFails, CompensationDone,
                  AfterCompensation, GoTo, Return, kernelVars
    <2>2. mem'.active = mem.active
      BY <1>0, <2>1, ActiveFields
    <2>3. pc' = "restore" => op'.kind \in {"activate", "deactivate"}
      BY <2>1, OpFields DEF Agreement, Assigning
    <2> QED BY <2>1, <2>2, <2>3, BoundaryKept
  <1>2. CASE CompensationInstalls
    <2>1. /\ UNCHANGED mem /\ pc = "comp_program" /\ rules' = OldTable
          /\ pc' \in {"comp_persist", "comp_done"}
      BY <1>2 DEF CompensationInstalls, Installs, AfterOldTable, GoTo
    <2>2. rules'.active = mem.active /\ (mem.active = 0 \/ rules.active # 0)
      BY <2>1, TableFields DEF BoundaryInv
    <2> QED BY <2>1, <2>2, BoundaryInstalls
  <1>3. CASE CompensationInstallFails
    <2>1. /\ UNCHANGED <<mem, rules>> /\ pc = "comp_program"
          /\ pc' \in {"comp_persist", "comp_done"}
      BY <1>3, TableKept DEF CompensationInstallFails, AfterOldTable
    <2> QED BY <2>1, BoundaryKept
  <1>4. CASE IntegrityFailureLocked
    <2>1. UNCHANGED rules /\ mem' = Quarantined(mem) /\ pc' = "rec_program"
      BY <1>4 DEF IntegrityFailureLocked, kernelVars
    <2>2. mem'.active = 0
      BY <1>0, <2>1, ActiveFields
    <2> QED BY <2>1, <2>2, BoundaryKept
  <1> QED BY <1>1, <1>2, <1>3, <1>4 DEF CompensationStep

LEMMA BoundaryDeactivateStep ==
    ASSUME ~ CommitOnError, TypeOK, Agreement, BoundaryInv, DeactivateStep, Owned => Owned'
    PROVE  BoundaryInv'
  <1> USE DEF Assigned, Unserved, Activating, ActingPcs, ClaimPcs, StartPcs
  <1>1. CASE DeactivatePersists
    <2>1. UNCHANGED <<rules, mem, op>> /\ pc = "deact_persist" /\ pc' = "deact_program"
      BY <1>1 DEF DeactivatePersists, GoTo, kernelVars
    <2> QED BY <2>1, BoundaryKept
  <1>2. CASE DeactivatePersistFails \/ DeactivateInstallFails
    <2>1. /\ UNCHANGED rules /\ pc \in {"deact_persist", "deact_program"}
          /\ pc' \in {"idle", "comp_program"}
          /\ mem' \in {Restored, [Restored EXCEPT !.unsafe = MarkUnsafe(mem).unsafe]}
      BY <1>2, TableKept DEF DeactivatePersistFails, DeactivateInstallFails, Return, GoTo, kernelVars
    <2>2. mem'.active = op.saved.active
      BY <2>1, AgreementRestored
    <2> QED BY <2>1, <2>2, BoundaryKept
  <1>3. CASE DeactivateInstalls
    <2>1. /\ UNCHANGED mem /\ rules' = Program(mem, 0, FALSE)
          /\ pc = "deact_program" /\ pc' = "idle"
      BY <1>3 DEF DeactivateInstalls, Installs, Return
    <2>2. rules'.active = 0 /\ mem'.active = 0
      BY <2>1, TableFields DEF Agreement, Assigning
    <2> QED BY <2>1, <2>2, BoundaryInstalls
  <1> QED BY <1>1, <1>2, <1>3 DEF DeactivateStep

LEMMA BoundaryCollectStep ==
    ASSUME ~ CommitOnError, TypeOK, Agreement, BoundaryInv, CollectStep, Owned => Owned'
    PROVE  BoundaryInv'
  <1> USE DEF Assigned, Unserved, Activating, ActingPcs, ClaimPcs, StartPcs
  <1>0. mem \in States
    BY StateTypes
  <1>1. CASE DrainPersists \/ DrainPersistFails
    <2>1. /\ UNCHANGED rules /\ pc \in {"drain_persist", "gc_persist"} /\ pc' = "idle"
          /\ mem' = mem \/ mem' = MarkUnsafe(mem)
      BY <1>1 DEF DrainPersists, DrainPersistFails, Return, kernelVars
    <2>2. mem'.active = mem.active
      BY <1>0, <2>1, ActiveFields
    <2> QED BY <2>1, <2>2, BoundaryKept
  <1>2. CASE GcInstalls
    <2>1. /\ UNCHANGED <<op, mem>> /\ rules' = Program(mem, mem.active, FALSE)
          /\ pc = "gc_program" /\ pc' \in {"gc_persist", "restore"} /\ op.kind = "gc"
      BY <1>2 DEF GcInstalls, Installs, GoTo, AfterCollection, Agreement, Assigning
    <2>2. rules'.active = mem.active /\ (mem.active = 0 \/ rules.active # 0)
      BY <2>1, TableFields DEF BoundaryInv
    <2> QED BY <2>1, <2>2, BoundaryInstalls
  <1>3. CASE GcInstallFails
    <2>1. UNCHANGED rules /\ mem' = Restored /\ pc = "gc_program" /\ pc' = "comp_program"
      BY <1>3, TableKept DEF GcInstallFails, GoTo
    <2>2. mem'.active = mem.active
      BY <2>1, AgreementRestored DEF Agreement, Assigning
    <2> QED BY <2>1, <2>2, BoundaryKept
  <1> QED BY <1>1, <1>2, <1>3 DEF CollectStep

LEMMA BoundaryReconcileStep ==
    ASSUME ~ CommitOnError, TypeOK, Agreement, BoundaryInv, ReconcileStep, Owned => Owned'
    PROVE  BoundaryInv'
  <1> USE DEF Assigned, Unserved, Activating, ActingPcs, ClaimPcs, StartPcs
  <1>0. mem \in States /\ op.back \in {"idle", "close_rules", "exit"}
    BY StateTypes, OpParts DEF TypeOK, ControlTypeOK
  <1>1. CASE ReconcileInstalls
    <2>1. /\ UNCHANGED mem /\ rules' \in {Program(mem, 0, FALSE), NoRules}
          /\ pc \in {"rec_program", "rec_remove"} /\ pc' = "rec_persist"
      BY <1>1 DEF ReconcileInstalls, Installs, GoTo
    <2>2. rules'.active = 0 /\ mem'.active = 0
      BY <2>1, TableFields DEF Agreement, Assigning
    <2> QED BY <2>1, <2>2, BoundaryInstalls
  <1>2. CASE ReconcileInstallFails
    <2>1. /\ UNCHANGED <<mem, rules>>
          /\ pc \in {"rec_program", "rec_remove"} /\ pc' \in {"rec_remove", "rec_persist"}
      BY <1>2, TableKept DEF ReconcileInstallFails, GoTo
    <2> QED BY <2>1, BoundaryKept
  <1>3. CASE ReconcilePersists \/ ReconcilePersistFails
    <2>1. /\ UNCHANGED rules /\ pc = "rec_persist" /\ pc' = op.back
          /\ mem' = mem \/ mem' = MarkUnsafe(mem)
      BY <1>3 DEF ReconcilePersists, ReconcilePersistFails, ReconcileReturn, kernelVars
    <2>2. mem'.active = mem.active
      BY <1>0, <2>1, ActiveFields
    <2> QED BY <1>0, <2>1, <2>2, BoundaryKept
  <1> QED BY <1>1, <1>2, <1>3 DEF ReconcileStep

LEMMA BoundaryStartStep ==
    ASSUME ~ CommitOnError, TypeOK, DurableInv, Agreement, BoundaryInv, StartStep, Owned => Owned'
    PROVE  BoundaryInv'
  <1> USE DEF Assigned, Unserved, Activating, ActingPcs, ClaimPcs, StartPcs
  <1>1. CASE StartRemoves
    <2>1. rules'.active = 0 /\ pc' = "start_load"
      BY <1>1, TableFields DEF StartRemoves, Installs, GoTo
    <2> QED BY <2>1, BoundaryInstalls
  <1>2. CASE \/ StartLoads \/ StartQuarantines \/ StartQuarantineFails \/ StartAudits
             \/ StartAuditFails \/ StartPersists \/ StartPersistFails \/ StartFails
    <2>1. UNCHANGED rules
      BY <1>2, TableKept
       DEF StartLoads, StartQuarantines, StartQuarantineFails, StartAudits, StartAuditFails,
           StartPersists, StartPersistFails, StartFails, kernelVars
    <2>2. \/ pc' \in {"start_audit", "start_persist", "close_rules", "start_boundary", "start_program"}
          \/ pc' = "offload" /\ pc = "start_persist" /\ op' = op
      BY <1>2
       DEF StartLoads, StartQuarantines, StartQuarantineFails, StartAudits, StartAuditFails,
           StartPersists, StartPersistFails, StartFails, GoTo, Abandon, StartPath
    <2>3. pc' = "offload" => op'.kind = "start"
      BY <2>2 DEF DurableInv, StepOfOperation
    <2> QED BY <2>1, <2>2, <2>3, BoundaryKept
  <1>3. CASE StartInstallsBoundary
    <2>1. pc' = "start_sweep" /\ rules' = Program(mem, 0, TRUE)
      BY <1>3 DEF StartInstallsBoundary, Installs, GoTo
    <2> QED BY <2>1, TableFields DEF BoundaryInv, NeutralBoundary
  <1>4. CASE StartFlips
    <2>1. pc = "start_flip" /\ pc' = "idle" /\ UNCHANGED mem /\ rules'.active = mem.active
      BY <1>4, TableFields DEF StartFlips, Installs, Return
    <2> QED BY <2>1 DEF BoundaryInv, NeutralBoundary, Owned
  <1>5. CASE StartPrograms \/ StartProgramsUngated
    <2>1. /\ pc = "start_program" /\ pc' \in {"idle", "restore"} /\ UNCHANGED mem
          /\ rules'.active = mem.active
      BY <1>5, TableFields DEF StartPrograms, StartProgramsUngated, Installs, Return, GoTo
    <2>2. mem.active = 0
      BY <2>1 DEF Agreement, Assigning
    <2> QED BY <2>1, <2>2, BoundaryInstalls
  <1> QED BY <1>1, <1>2, <1>3, <1>4, <1>5 DEF StartStep

LEMMA BoundaryCloseStep ==
    ASSUME ~ CommitOnError, TypeOK, EngineInv, BoundaryInv,
           CloseStep \/ Crash \/ Boot \/ Shutdown, Owned => Owned'
    PROVE  BoundaryInv'
  <1> USE DEF Unserved, StartPcs
  <1>1. CASE CloseRemoves
    <2>1. rules'.active = 0 /\ UNCHANGED op /\ op.kind = "close" /\ pc' = "restore"
      BY <1>1, TableFields DEF CloseRemoves, Installs, GoTo, EngineInv
    <2> QED BY <2>1, BoundaryInstalls
  <1>2. CASE CloseFails \/ Exit \/ Crash \/ Boot \/ Shutdown
    <2>1. UNCHANGED rules /\ pc' \in {"close_rules", "exit", "down", "start_remove"}
      BY <1>2, TableKept DEF CloseFails, Exit, Crash, ProcessGone, Boot, Shutdown, Abandon, GoTo, kernelVars
    <2> QED BY <2>1, BoundaryKept
  <1> QED BY <1>1, <1>2 DEF CloseStep

LEMMA BoundaryNext ==
    ASSUME ~ CommitOnError, TypeOK, DurableInv, EngineInv, Agreement, BoundaryInv, [Next]_vars
    PROVE  BoundaryInv'
  <1>1. CASE Kernel \/ UNCHANGED vars
    BY <1>1, BoundaryKernel
  <1>2. CASE Next /\ ~ Kernel
    <2>1. Owned => Owned'
      BY <1>2, OwnedStep
    <2>2. CASE IntegrityFailure \/ ReconcileStart \/ ReconcileEnd
      <3>1. UNCHANGED <<rules, pc, op, mem>>
        BY <2>2 DEF IntegrityFailure, ReconcileStart, ReconcileEnd, kernelVars
      <3> QED BY <2>1, <3>1
           DEF BoundaryInv, NeutralBoundary, Owned, Assigned, Unserved, Activating, ActingPcs, ClaimPcs
    <2>3. CASE ReconcileBegin
      <3>1. UNCHANGED rules /\ mem' = Quarantined(mem) /\ pc' = "rec_program"
        BY <2>3 DEF ReconcileBegin, kernelVars
      <3>2. mem'.active = 0
        BY <3>1, StateTypes, ActiveFields
      <3> QED BY <2>1, <3>1, <3>2, BoundaryKept DEF Assigned, Activating, ActingPcs, ClaimPcs
    <2> QED BY <1>2, <2>1, <2>2, <2>3, BoundaryRequest, BoundaryPending, BoundaryPrepareStep,
               BoundaryActivateStep, BoundaryOffloadStep, BoundaryCompensationStep,
               BoundaryDeactivateStep, BoundaryCollectStep, BoundaryReconcileStep,
               BoundaryStartStep, BoundaryCloseStep DEF Next, LockedStep
  <1> QED BY <1>1, <1>2

LEMMA BoundaryInit == Init => BoundaryInv
  BY DEF Init, KernelInit, NoRules, NoOp, BoundaryInv, NeutralBoundary, Unserved, StartPcs

\* No retransmitted SYN of a connection from before an assignment can join it,
\* in any order of operations, signals, failures and restarts, as long as a
\* transaction that reports failure has not committed ("a pre-activation
\* half-open SYN retransmission cannot cross the boundary", README.md;
\* activateLocked, restoreActiveAfterRestartLocked).
THEOREM BoundaryIsNeutral ==
    ASSUME ~ CommitOnError
    PROVE  Spec => []NeutralBoundary
  <1>1. TypeOK /\ DurableInv /\ [Next]_vars => DurableInv'
    BY DurableNext
  <1>2. TypeOK /\ LoadInv /\ [Next]_vars => LoadInv'
    BY LoadNext
  <1>3. TypeOK /\ DurableInv /\ LoadInv /\ EngineInv /\ [Next]_vars => EngineInv'
    BY EngineNext
  <1>4. TypeOK /\ DurableInv /\ EngineInv /\ Agreement /\ [Next]_vars => Agreement'
    BY AgreementNext
  <1>5. TypeOK /\ DurableInv /\ EngineInv /\ Agreement /\ BoundaryInv /\ [Next]_vars => BoundaryInv'
    BY BoundaryNext
  <1>6. BoundaryInv => NeutralBoundary
    BY DEF BoundaryInv
  <1> QED BY <1>1, <1>2, <1>3, <1>4, <1>5, <1>6, DurableInit, LoadInit, EngineInit, AgreementInit,
             BoundaryInit, TypeCorrect, PTL DEF Spec

-----------------------------------------------------------------------------
\* What a connection's mark says

\* The strategy of each marked connection is the one it began under, or none.
Fits(art, mk, bn) == \A f \in Flows : mk[f] \in Ids => art[mk[f]] \in {None, bn[f]}

\* Each marked connection belongs to a retained or to a reserved generation.
Covers(art, kept, mk) == \A f \in Flows : mk[f] \in Ids => art[mk[f]] # None \/ mk[f] \in kept

\* No connection carries identifier i.
Free(i, mk) == \A f \in Flows : mk[f] # i

-----------------------------------------------------------------------------
\* What a step may do to the marks, the reserved identifiers and the generations

\* Marks are given by the kernel alone: a sweep neutralizes unowned ones.
LEMMA MarksStep ==
    ASSUME [Next]_vars
    PROVE  \/ Kernel
           \/ /\ UNCHANGED <<born, idle>>
              /\ mark' = mark \/ (rules' = rules /\ \E fs \in SUBSET Flows : mark' = Neutralized(fs))
  <1> USE DEF kernelVars, flowVars
  <1>1. CASE \/ UNCHANGED vars \/ IntegrityFailure \/ ReconcileStart \/ ReconcileEnd
             \/ Request \/ Pending \/ PrepareStep
    <2>1. CASE UNCHANGED vars \/ IntegrityFailure \/ ReconcileStart \/ ReconcileEnd \/ PrepareStep
      BY <2>1
         DEF vars, IntegrityFailure, ReconcileStart, ReconcileEnd,
             PrepareStep, PrepareInterrupted, PreparePersists, PreparePersistFails
    <2>2. CASE Request
      BY <2>2
         DEF Request, Prepare, PrepareGateFails, ActivateForNewConnections, Rollback,
             ActivateFrame, DeactivateForNewConnections, DrainBegin, GcList, RollbackBegin,
             RequestFrame
    <2>3. CASE Pending
      <3>1. ASSUME NEW c \in Clients, GcBegin(c) \/ CountBegin(c) \/ CountSucceeds(c) \/ CountFails(c)
            PROVE  UNCHANGED flowVars
        BY <3>1 DEF GcBegin, CountBegin, CountSucceeds, CountFails, RequestFrame
      <3>2. ASSUME NEW c \in Clients, RollbackCountFails(c) \/ DrainFinish(c) \/ GcFinish(c)
            PROVE  UNCHANGED flowVars
        BY <3>2 DEF RollbackCountFails, DrainFinish, GcFinish
      <3>3. ASSUME NEW c \in Clients, RollbackFinish(c)
            PROVE  UNCHANGED flowVars
        BY <3>3 DEF RollbackFinish
      <3> QED BY <2>3, <3>1, <3>2, <3>3 DEF Pending
    <2> QED BY <1>1, <2>1, <2>2, <2>3
  <1>2. CASE ActivateStep \/ OffloadStep
    <2>1. CASE SweepSucceeds \/ SweepFails
      BY <2>1 DEF SweepSucceeds, SweepFails
    <2> QED BY <1>2, <2>1
       DEF ActivateStep, RollbackActivate, ActivateFrame, ActivatePersists, ActivatePersistFails,
           StageInstalls, FlipInstalls, TransactionFails, ActivateDone,
           OffloadStep, OffloadsDown, OffloadsCapture, OffloadsCallFails, ClaimPersists,
           ClaimPersistFails, DisableSucceeds, DisableFails, UnclaimPersists, UnclaimPersistFails,
           RestoreNothing, RestoreCall, RestorePersists, RestorePersistFails
  <1>3. CASE CompensationStep \/ DeactivateStep \/ CollectStep \/ ReconcileStep
    BY <1>3
       DEF CompensationStep, UnwindPersists, CompensationInstalls, CompensationInstallFails,
           CompensationPersists, CompensationPersistFails, CompensationDone, IntegrityFailureLocked,
           DeactivateStep, DeactivatePersists, DeactivatePersistFails, DeactivateInstalls,
           DeactivateInstallFails, CollectStep, DrainPersists, DrainPersistFails, GcInstalls,
           GcInstallFails, ReconcileStep, ReconcileInstalls, ReconcileInstallFails,
           ReconcilePersists, ReconcilePersistFails
  <1>4. CASE StartStep \/ CloseStep \/ Crash \/ ReconcileBegin \/ Boot \/ Shutdown
    <2>1. CASE StartFails
      BY <2>1 DEF StartFails
    <2> QED BY <1>4, <2>1
       DEF StartStep, StartRemoves, StartLoads, StartQuarantines, StartQuarantineFails,
           StartAudits, StartAuditFails, StartPersists, StartPersistFails, StartInstallsBoundary,
           StartFlips, StartPrograms, StartProgramsUngated, CloseStep, CloseRemoves,
           CloseFails, Exit, Crash, ProcessGone, ReconcileBegin, Boot, Shutdown
  <1> QED BY <1>1, <1>2, <1>3, <1>4 DEF Next, LockedStep

\* Outside the kernel no connection gets a generation.
LEMMA MarksKept ==
    ASSUME [Next]_vars, ~ Kernel
    PROVE  UNCHANGED <<born, idle>> /\ \A f \in Flows : mark'[f] \in Ids => mark'[f] = mark[f]
  <1>1. \A fs \in SUBSET Flows : \A f \in Flows : Neutralized(fs)[f] \in Ids => Neutralized(fs)[f] = mark[f]
    BY DEF Neutralized, Neutral, Ids
  <1> QED BY <1>1, MarksStep

\* A connection marked by the kernel gets the assigned generation, whose
\* queue rules are there.
LEMMA KernelMarks ==
    ASSUME TypeOK, EngineInv, Kernel, NEW f \in Flows, mark'[f] \in Ids
    PROVE  \/ mark'[f] = mark[f] /\ born'[f] = born[f]
           \/ /\ mark'[f] = rules.active /\ rules.active \in Ids
              /\ born'[f] = rules.scope[rules.active] /\ rules.scope[rules.active] # None
  <1>1. /\ mark \in [Flows -> Marks] /\ born \in [Flows -> OrNone(Artifacts)]
        /\ rules.active # 0 => rules.active \in Ids
    BY DEF TypeOK, KernelTypeOK, Tables, Ids
  <1>2. ASSUME NEW g \in Flows, FlowEnd(g) \/ FlowIdle(g)
        PROVE  mark'[f] = mark[f] /\ born'[f] = born[f]
    <2>1. CASE FlowEnd(g)
      BY <1>1, <2>1 DEF FlowEnd, Absent, Ids
    <2>2. CASE FlowIdle(g)
      BY <2>2 DEF FlowIdle
    <2> QED BY <1>2, <2>1, <2>2
  <1>3. ASSUME NEW g \in Flows, Syn(g), f = g
        PROVE  /\ mark'[f] = rules.active /\ rules.active \in Ids
               /\ born'[f] = rules.scope[rules.active] /\ rules.scope[rules.active] # None
    <2>1. mark'[f] = Assignment
      BY <1>1, <1>3 DEF Syn
    <2>2. rules.active # 0
      BY <2>1 DEF Assignment, Neutral, Unmarked, Ids
    <2>3. born'[f] = rules.scope[rules.active]
      BY <1>1, <1>3, <2>2 DEF Syn
    <2> QED BY <1>1, <2>1, <2>2, <2>3 DEF Assignment, EngineInv
  <1>4. ASSUME NEW g \in Flows, Syn(g), f # g
        PROVE  mark'[f] = mark[f] /\ born'[f] = born[f]
    BY <1>1, <1>4 DEF Syn
  <1> QED BY <1>2, <1>3, <1>4 DEF Kernel, KernelNext

LEMMA ReservedStep ==
    ASSUME [Next]_vars
    PROVE  \/ reserved' = reserved \/ pc' = "down"
           \/ reserved' = Reserve(mem, Counts) /\ mark' = mark
           \/ \E c \in Clients :
                 /\ pend[c].kind = "rollback" /\ pend[c].stage = "counted" /\ pc = "idle"
                 /\ reserved' = Reserve(mem, pend[c].ids)
  <1> USE DEF kernelVars, flowVars, engineVars
  <1>1. CASE Kernel \/ UNCHANGED vars \/ IntegrityFailure \/ ReconcileStart \/ ReconcileEnd
    BY <1>1 DEF Kernel, controllerVars, vars, IntegrityFailure, ReconcileStart, ReconcileEnd
  <1>2. CASE Request
    BY <1>2
       DEF Request, Prepare, PrepareGateFails, ActivateForNewConnections, Rollback,
           ActivateFrame, DeactivateForNewConnections, DrainBegin, GcList, RollbackBegin,
           RequestFrame
  <1>3. CASE Pending
    <2>1. ASSUME NEW c \in Clients, RollbackFinish(c)
          PROVE  \/ reserved' = reserved
                 \/ /\ pend[c].kind = "rollback" /\ pend[c].stage = "counted" /\ pc = "idle"
                    /\ reserved' = Reserve(mem, pend[c].ids)
      BY <2>1 DEF RollbackFinish, Idle
    <2> QED BY <1>3, <2>1
         DEF Pending, GcBegin, CountBegin, CountSucceeds, CountFails, RollbackCountFails,
             DrainFinish, GcFinish, RequestFrame
  <1>4. CASE PrepareStep \/ ActivateStep \/ OffloadStep
    BY <1>4
       DEF PrepareStep, PrepareInterrupted, PreparePersists, PreparePersistFails,
           ActivateStep, RollbackActivate, ActivateFrame, ActivatePersists, ActivatePersistFails,
           StageInstalls, SweepSucceeds, FlipInstalls, TransactionFails, SweepFails, ActivateDone,
           OffloadStep, OffloadsDown, OffloadsCapture, OffloadsCallFails, ClaimPersists,
           ClaimPersistFails, DisableSucceeds, DisableFails, UnclaimPersists, UnclaimPersistFails,
           RestoreNothing, RestoreCall, RestorePersists, RestorePersistFails
  <1>5. CASE CompensationStep \/ DeactivateStep \/ CollectStep \/ ReconcileStep
    BY <1>5
       DEF CompensationStep, UnwindPersists, CompensationInstalls, CompensationInstallFails,
           CompensationPersists, CompensationPersistFails, CompensationDone, IntegrityFailureLocked,
           DeactivateStep, DeactivatePersists, DeactivatePersistFails, DeactivateInstalls,
           DeactivateInstallFails, CollectStep, DrainPersists, DrainPersistFails, GcInstalls,
           GcInstallFails, ReconcileStep, ReconcileInstalls, ReconcileInstallFails,
           ReconcilePersists, ReconcilePersistFails
  <1>6. CASE StartStep \/ CloseStep \/ Crash \/ ReconcileBegin \/ Boot \/ Shutdown
    BY <1>6
       DEF StartStep, StartRemoves, StartLoads, StartQuarantines, StartQuarantineFails,
           StartAudits, StartAuditFails, StartPersists, StartPersistFails, StartInstallsBoundary,
           StartFlips, StartPrograms, StartProgramsUngated, StartFails, CloseStep, CloseRemoves,
           CloseFails, Exit, Crash, ProcessGone, ReconcileBegin, Boot, Shutdown
  <1> QED BY <1>1, <1>2, <1>3, <1>4, <1>5, <1>6 DEF Next, LockedStep

LEMMA ActivatesArt ==
    ASSUME mem \in States, NEW id, NEW repair, ActivateLocked(id, repair)
    PROVE  mem'.art = mem.art
  <1>1. \/ mem' = mem
        \/ mem' = IF repair THEN [Activated(mem, id) EXCEPT !.unsafe = FALSE] ELSE Activated(mem, id)
    BY ActivateLockedShape
  <1>2. Activated(mem, id).art = mem.art /\ [Activated(mem, id) EXCEPT !.unsafe = FALSE].art = mem.art
    BY DEF Activated, States
  <1> QED BY <1>1, <1>2

\* Prepare and Rollback give a new generation an identifier that is neither
\* retained nor reserved.
LEMMA NextGenerationUnused ==
    ASSUME NEW m, NEW res, NextGeneration(m, res) # 0
    PROVE  NextGeneration(m, res) \notin res
  <1> DEFINE free == Ids \ (Retained(m) \cup res)
  <1>1. free # {}
    BY DEF NextGeneration
  <1>2. \E i \in free : \A j \in free : i <= j
    <2>1. free \in SUBSET Nat
      BY DEF Ids
    <2> HIDE DEF free
    <2> QED BY <1>1, <2>1, LeastExists
  <1>3. NextGeneration(m, res) \in free
    BY <1>1, <1>2 DEF NextGeneration
  <1> QED BY <1>3

\* A generation is made, forgotten before it was recorded, collected, brought
\* back, loaded or lost with the process; every other step keeps them all.
Makes(i) ==
    /\ pc = "idle" /\ i \in Ids /\ mem.art[i] = None /\ i \notin reserved'
    /\ pc' \in {"prep_persist", "rollback_persist"} /\ op'.id = i
    /\ \E a \in Artifacts : mem'.art = [mem.art EXCEPT ![i] = a]
    /\ mark' = mark
Forgets ==
    /\ pc \in {"prep_persist", "rollback_persist"} /\ pc' = "idle"
    /\ mem'.art = [mem.art EXCEPT ![op.id] = None]
Collects(c) ==
    /\ GcFinish(c) /\ MayCollect(pend[c])
    /\ pc' = "gc_program" /\ op'.id = pend[c].id /\ op'.saved = mem
    /\ mem'.art = [mem.art EXCEPT ![pend[c].id] = None]
    /\ pend[c].id \in Ids /\ pc = "idle" /\ UNCHANGED <<rules, mark>>
BringsBack == pc = "gc_program" /\ pc' = "comp_program" /\ mem'.art = op.saved.art
Loads == pc' = "start_audit" /\ disk # NoFile /\ mem'.art = disk.art
Loses == pc' \in {"start_audit", "down"} /\ \A i \in Ids : mem'.art[i] = None

LEMMA GenerationRequest ==
    ASSUME TypeOK, LoadInv, Request
    PROVE  mem'.art = mem.art \/ \E i \in Ids : Makes(i)
  <1>0. mem \in States
    BY StateTypes
  <1>1. ASSUME NEW a \in Artifacts, Prepare(a)
        PROVE  mem'.art = mem.art \/ \E i \in Ids : Makes(i)
    <2> DEFINE res == IF latched THEN Reserve(mem, Counts) ELSE reserved
               id == NextGeneration(mem, res)
    <2>1. /\ pc = "idle" /\ mark' = mark /\ reserved' = res
          /\ \/ mem' = mem
             \/ /\ mem' = Prepared(mem, id, a) /\ id # 0 /\ pc' = "prep_persist"
                /\ op' = [NoOp EXCEPT !.kind = "prepare", !.id = id, !.repair = latched, !.epoch = epoch]
      BY <1>1 DEF Prepare, MayRequest, Idle, kernelVars, flowVars
    <2>2. CASE /\ mem' = Prepared(mem, id, a) /\ id # 0 /\ pc' = "prep_persist"
               /\ op' = [NoOp EXCEPT !.kind = "prepare", !.id = id, !.repair = latched, !.epoch = epoch]
      <3>1. id \in Ids /\ mem.art[id] = None /\ id \notin res
        BY <2>2, NextGenerationFree, NextGenerationUnused
      <3>2. op'.id = id
        BY <2>2 DEF NoOp
      <3> HIDE DEF id, res
      <3>3. mem'.art = [mem.art EXCEPT ![id] = a]
        BY <1>0, <2>2, <3>1, PreparedArt
      <3> QED BY <2>1, <2>2, <3>1, <3>2, <3>3 DEF Makes
    <2> QED BY <2>1, <2>2
  <1>2. ASSUME NEW a \in Artifacts, ActivateForNewConnections(a) \/ Rollback(a)
        PROVE  mem'.art = mem.art
    <2>1. PICK id, repair : ActivateLocked(id, repair)
      BY <1>2 DEF ActivateForNewConnections, Rollback
    <2> QED BY <1>0, <2>1, ActivatesArt
  <1>3. ASSUME NEW a \in Artifacts, DeactivateForNewConnections(a)
        PROVE  mem'.art = mem.art
    BY <1>0, <1>3, ArtKept DEF DeactivateForNewConnections
  <1> QED BY <1>1, <1>2, <1>3, LooksStep DEF Request

LEMMA CollectsShape ==
    ASSUME TypeOK, LoadInv, NEW c \in Clients, GcFinish(c), MayCollect(pend[c])
    PROVE  Collects(c)
  <1> DEFINE i == pend[c].id
  <1>1. /\ pc = "idle" /\ pc' = "gc_program" /\ UNCHANGED <<rules, mark>>
        /\ op' = [NoOp EXCEPT !.kind = "gc", !.id = i, !.saved = mem]
        /\ mem' = [Without(mem, i) EXCEPT !.previous = IF @ = i THEN 0 ELSE @]
    BY DEF GcFinish, Idle, kernelVars, flowVars
  <1>2. i \in Ids
    BY LoadParts DEF GcFinish, Asked
  <1>3. op'.id = i /\ op'.saved = mem
    BY <1>1 DEF NoOp
  <1>4. mem'.art = [mem.art EXCEPT ![i] = None]
    <2> HIDE DEF i
    <2> QED BY <1>1, <1>2, WithoutArt, StateTypes
  <1> QED BY <1>1, <1>2, <1>3, <1>4 DEF Collects

LEMMA GenerationPending ==
    ASSUME TypeOK, LoadInv, Pending
    PROVE  \/ mem'.art = mem.art
           \/ \E i \in Ids : Makes(i)
           \/ \E c \in Clients : Collects(c)
  <1>0. mem \in States
    BY StateTypes
  <1>1. ASSUME NEW c \in Clients, RollbackFinish(c)
        PROVE  mem'.art = mem.art \/ \E i \in Ids : Makes(i)
    <2> DEFINE r == pend[c]
               res == Reserve(mem, r.ids)
               id == NextGeneration(mem, res)
    <2>1. /\ pc = "idle" /\ mark' = mark /\ r.kind = "rollback"
          /\ \/ mem' = mem
             \/ \E i : ActivateLocked(i, TRUE)
             \/ /\ mem' = Prepared(mem, id, r.art) /\ id # 0 /\ pc' = "rollback_persist"
                /\ op' = [NoOp EXCEPT !.kind = "rollback", !.id = id]
                /\ reserved' = res
      BY <1>1 DEF RollbackFinish, Idle, kernelVars, flowVars
    <2>2. CASE /\ mem' = Prepared(mem, id, r.art) /\ id # 0 /\ pc' = "rollback_persist"
               /\ op' = [NoOp EXCEPT !.kind = "rollback", !.id = id]
               /\ reserved' = res
      <3>1. id \in Ids /\ mem.art[id] = None /\ id \notin res
        BY <2>2, NextGenerationFree, NextGenerationUnused
      <3>2. op'.id = id
        BY <2>2 DEF NoOp
      <3>3. r.art \in Artifacts
        BY <2>1, LoadParts DEF Asked
      <3> HIDE DEF id, res, r
      <3>4. mem'.art = [mem.art EXCEPT ![id] = r.art]
        BY <1>0, <2>2, <3>1, PreparedArt
      <3> QED BY <2>1, <2>2, <3>1, <3>2, <3>3, <3>4 DEF Makes
    <2> QED BY <1>0, <2>1, <2>2, ActivatesArt
  <1>2. ASSUME NEW c \in Clients, GcFinish(c)
        PROVE  mem' = mem \/ Collects(c)
    BY <1>2, CollectsShape DEF GcFinish
  <1>3. ASSUME NEW c \in Clients, DrainFinish(c) \/ RollbackCountFails(c)
        PROVE  mem'.art = mem.art
    <2>1. \/ mem' = mem \/ mem' = [mem EXCEPT !.unsafe = TRUE]
          \/ mem' = [mem EXCEPT !.phase = [@ EXCEPT ![pend[c].id] = DrainPhase(pend[c])]]
      BY <1>3 DEF DrainFinish, RollbackCountFails
    <2>2. [mem EXCEPT !.phase = [@ EXCEPT ![pend[c].id] = DrainPhase(pend[c])]].art = mem.art
      BY <1>0 DEF States
    <2> QED BY <1>0, <2>1, <2>2, ArtKept
  <1> QED BY <1>1, <1>2, <1>3, LooksStep DEF Pending

LEMMA GenerationStep ==
    ASSUME TypeOK, DurableInv, LoadInv, [Next]_vars
    PROVE  \/ mem'.art = mem.art
           \/ \E i \in Ids : Makes(i)
           \/ Forgets
           \/ \E c \in Clients : Collects(c)
           \/ BringsBack \/ Loads \/ Loses
  <1>0. /\ mem \in States /\ MarkUnsafe(mem) \in States
        /\ MarkUnsafe(mem).art = mem.art
    BY StateTypes, MarkUnsafeType, ArtKept
  <1>1. CASE Kernel \/ UNCHANGED vars \/ IntegrityFailure \/ ReconcileStart \/ ReconcileEnd
    BY <1>1, LooksStep
  <1>2. CASE PrepareStep
    <2>1. CASE PrepareInterrupted \/ PreparePersistFails
      <3>1. /\ mem' \in {Without(mem, op.id), Without(MarkUnsafe(mem), op.id)}
            /\ pc \in {"prep_persist", "rollback_persist"} /\ pc' = "idle"
        BY <2>1 DEF PrepareInterrupted, PreparePersistFails, Unprepare, Return
      <3>2. \A m \in States : Without(m, op.id).art = [m.art EXCEPT ![op.id] = None]
        BY DEF Without, States
      <3> QED BY <1>0, <3>1, <3>2 DEF Forgets
    <2> QED BY <1>2, <2>1 DEF PrepareStep, PreparePersists
  <1>3. CASE RollbackActivate
    <2>1. mem' = mem \/ \E i : ActivateLocked(i, TRUE)
      BY <1>3 DEF RollbackActivate
    <2> QED BY <1>0, <2>1, ActivatesArt
  <1>4. CASE CollectStep
    <2>1. CASE GcInstallFails
      BY <2>1, RestoredArt DEF GcInstallFails, GoTo, BringsBack
    <2> QED BY <1>0, <1>4, <2>1 DEF CollectStep, DrainPersists, DrainPersistFails, GcInstalls
  <1>5. CASE StartStep
    <2>1. CASE StartLoads
      BY <2>1 DEF StartLoads, Loads
    <2>2. CASE StartQuarantines
      <3>1. \E b : mem' = [EmptyState EXCEPT !.unsafe = TRUE, !.offloads = b]
        BY <2>2 DEF StartQuarantines
      <3>2. \A i \in Ids : mem'.art[i] = None
        BY <3>1 DEF EmptyState
      <3> QED BY <2>2, <3>2 DEF StartQuarantines, GoTo, Loses
    <2> QED BY <1>5, <2>1, <2>2, StartArt
  <1>6. CASE Exit \/ Crash
    BY <1>6 DEF Exit, Crash, ProcessGone, EmptyState, Loses
  <1>7. CASE CloseRemoves \/ CloseFails \/ ReconcileBegin \/ Boot \/ Shutdown
    <2>1. mem' \in {mem, Quarantined(mem)}
      BY <1>7 DEF CloseRemoves, CloseFails, ReconcileBegin, Boot, Shutdown
    <2> QED BY <1>0, <2>1, ArtKept
  <1> QED BY <1>1, <1>2, <1>3, <1>4, <1>5, <1>6, <1>7, GenerationRequest, GenerationPending, LockedArt
          DEF Next, LockedStep, CloseStep

\* A collection's transaction follows its second hold of the mutex.
LEMMA CollectionStep ==
    ASSUME TypeOK, DurableInv, LoadInv, [Next]_vars, pc' = "gc_program"
    PROVE  UNCHANGED <<pc, op, mem, rules>> \/ \E c \in Clients : Collects(c)
  <1> USE DEF kernelVars
  <1>1. CASE Kernel \/ UNCHANGED vars \/ IntegrityFailure \/ ReconcileStart \/ ReconcileEnd
    BY <1>1, LooksStep
       DEF Kernel, KernelNext, Syn, FlowEnd, FlowIdle, vars, IntegrityFailure, ReconcileStart,
           ReconcileEnd
  <1>2. CASE Request
    <2>1. ASSUME NEW a \in Artifacts, ActivateForNewConnections(a) \/ Rollback(a)
          PROVE  FALSE
      <3>1. \E i, repair : ActivateLocked(i, repair)
        BY <2>1 DEF ActivateForNewConnections, Rollback
      <3> QED BY <3>1, ActivateLockedSaves
    <2> QED BY <1>2, <2>1
         DEF Request, Prepare, PrepareGateFails, DeactivateForNewConnections, DrainBegin, GcList,
             RollbackBegin, RequestFrame, MayRequest, Idle
  <1>3. CASE Pending
    <2>1. ASSUME NEW c \in Clients, RollbackFinish(c)
          PROVE  FALSE
      <3>1. pc = "idle" /\ (UNCHANGED pc \/ pc' = "rollback_persist" \/ \E i : ActivateLocked(i, TRUE))
        BY <2>1 DEF RollbackFinish, Idle
      <3> QED BY <3>1, ActivateLockedSaves
    <2>2. ASSUME NEW c \in Clients, GcFinish(c)
          PROVE  Collects(c)
      <3>1. MayCollect(pend[c]) /\ pc = "idle"
        BY <2>2 DEF GcFinish, Idle
      <3> QED BY <2>2, <3>1, CollectsShape
    <2>3. ASSUME NEW c \in Clients, DrainFinish(c) \/ RollbackCountFails(c)
          PROVE  FALSE
      BY <2>3 DEF DrainFinish, RollbackCountFails, Idle
    <2>4. ASSUME NEW c \in Clients, GcBegin(c) \/ CountBegin(c) \/ CountSucceeds(c) \/ CountFails(c)
          PROVE  UNCHANGED <<pc, op, mem, rules>>
      BY <2>4 DEF GcBegin, CountBegin, CountSucceeds, CountFails, RequestFrame
    <2> QED BY <1>3, <2>1, <2>2, <2>3, <2>4 DEF Pending
  <1>4. CASE PrepareStep \/ ActivateStep
    <2>1. CASE RollbackActivate
      <3>1. pc' = "idle" \/ \E i : ActivateLocked(i, TRUE)
        BY <2>1 DEF RollbackActivate, Return
      <3> QED BY <3>1, ActivateLockedSaves
    <2> QED BY <1>4, <2>1
       DEF PrepareStep, PrepareInterrupted, PreparePersists, PreparePersistFails,
           ActivateStep, ActivatePersists, ActivatePersistFails, StageInstalls, SweepSucceeds,
           FlipInstalls, TransactionFails, SweepFails, ActivateDone, GoTo, Return
  <1>5. CASE OffloadStep
    <2>1. ASSUME NEW m, NEW durable, OffloadsFailed(m, durable)
          PROVE  pc' \in {"close_rules", "act_unwind"}
      BY <2>1 DEF OffloadsFailed, GoTo
    <2>2. ASSUME NEW failed, RestoreReturns(failed)
          PROVE  pc' \in {"idle", "gc_persist", "close_rules", "exit", "comp_done"}
      BY <2>2 DEF RestoreReturns, AfterRestore
    <2> QED BY <1>5, <2>1, <2>2
       DEF OffloadStep, OffloadsDown, OffloadsCapture, OffloadsCallFails, ClaimPersists,
           ClaimPersistFails, DisableSucceeds, DisableFails, UnclaimPersists, UnclaimPersistFails,
           RestoreNothing, RestoreCall, RestorePersists, RestorePersistFails, OffloadsDone, GoTo,
           StartPath
  <1>6. CASE CompensationStep \/ DeactivateStep \/ CollectStep
    BY <1>6
       DEF CompensationStep, UnwindPersists, CompensationInstalls, CompensationInstallFails,
           CompensationPersists, CompensationPersistFails, CompensationDone, IntegrityFailureLocked,
           DeactivateStep, DeactivatePersists, DeactivatePersistFails, DeactivateInstalls,
           DeactivateInstallFails, CollectStep, DrainPersists, DrainPersistFails, GcInstalls,
           GcInstallFails, GoTo, Return, AfterOldTable, AfterCompensation, AfterCollection
  <1>7. CASE ReconcileStep
    <2>1. op.back \in {"idle", "close_rules", "exit"}
      BY OpParts DEF TypeOK, ControlTypeOK
    <2> QED BY <1>7, <2>1
       DEF ReconcileStep, ReconcileInstalls, ReconcileInstallFails, ReconcilePersists,
           ReconcilePersistFails, ReconcileReturn, GoTo
  <1>8. CASE StartStep
    BY <1>8
       DEF StartStep, StartRemoves, StartLoads, StartQuarantines, StartQuarantineFails,
           StartAudits, StartAuditFails, StartPersists, StartPersistFails, StartInstallsBoundary,
           StartFlips, StartPrograms, StartProgramsUngated, StartFails, GoTo, Return, Abandon,
           StartPath
  <1>9. CASE CloseStep \/ Crash \/ ReconcileBegin \/ Boot \/ Shutdown
    BY <1>9 DEF CloseStep, CloseRemoves, CloseFails, Exit, Crash, ProcessGone, GoTo, Abandon,
                 ReconcileBegin, Boot, Shutdown
  <1> QED BY <1>1, <1>2, <1>3, <1>4, <1>5, <1>6, <1>7, <1>8, <1>9 DEF Next, LockedStep

-----------------------------------------------------------------------------
\* The inductive invariant

\* Before the startup audit has named the generations of marked connections.
AuditPcs == {"down", "start_remove", "start_load", "start_audit"}

\* The audit is over, and the process not on its way out.
Audited ==
    /\ pc \notin AuditPcs \cup {"close_rules", "exit"}
    /\ pc \in {"restore", "restore_persist"} => op.kind # "close"
    /\ pc \in {"rec_program", "rec_remove", "rec_persist"} => op.back = "idle"

\* Table, memory and file name the strategy of each marked connection, or none.
Named ==
    /\ Fits(rules.scope, mark, born) /\ Fits(mem.art, mark, born)
    /\ disk # NoFile => Fits(disk.art, mark, born)

\* A collection would bring back what it forgot, which no connection carries.
Collecting ==
    pc = "gc_program" =>
        /\ Fits(op.saved.art, mark, born)
        /\ op.id \in Ids /\ rules.active # op.id /\ Free(op.id, mark)
        /\ \A i \in Ids : i # op.id => mem.art[i] = op.saved.art[i]

\* A generation that Prepare may still forget has no connections.
Preparing == pc \in {"prep_persist", "rollback_persist"} => Free(op.id, mark)

\* No request outlives its process.
Unasked == pc \in AuditPcs => \A c \in Clients : pend[c] = NoRequest

\* Every marked connection is accounted for, and by every count that a
\* rollback has taken.
Accounted ==
    Audited =>
        /\ Covers(mem.art, reserved, mark)
        /\ \A c \in Clients :
              pend[c].kind = "rollback" /\ pend[c].stage = "counted" =>
                  Covers(mem.art, pend[c].ids, mark)

MarkInv == Named /\ Collecting /\ Preparing /\ Unasked /\ Accounted

-----------------------------------------------------------------------------
\* The kernel's steps

LEMMA RulesRecorded ==
    ASSUME DurableInv, NEW i \in Ids, rules.scope[i] # None
    PROVE  /\ disk # NoFile /\ disk.art[i] = rules.scope[i]
           /\ mem.art[i] \in {None, rules.scope[i]}
           /\ pc = "gc_program" => op.saved.art[i] = rules.scope[i]
           /\ pc \in {"prep_persist", "rollback_persist"} => i # op.id
           /\ Audited /\ pc # "gc_program" => mem.art[i] = rules.scope[i]
  <1>1. disk # NoFile /\ disk.art[i] = rules.scope[i]
    BY DEF DurableInv, DurableCoverage
  <1>2. i \notin Fresh
    BY DEF DurableInv, MemoryRecorded
  <1>3. mem.art[i] \in {None, rules.scope[i]}
    BY <1>1, <1>2 DEF DurableInv, MemoryRecorded, Recorded
  <1>4. pc = "gc_program" => op.saved.art[i] = rules.scope[i]
    BY DEF DurableInv, TableKnown, Known
  <1>5. Audited /\ pc # "gc_program" => mem.art[i] = rules.scope[i]
    BY DEF DurableInv, TableKnown, Known, Audited, AuditPcs
  <1> QED BY <1>1, <1>2, <1>3, <1>4, <1>5 DEF Fresh

LEMMA MarkKernel ==
    ASSUME TypeOK, DurableInv, EngineInv, MarkInv, Kernel
    PROVE  MarkInv'
  <1>1. UNCHANGED <<rules, pc, op, mem, disk, pend, reserved>>
    BY DEF Kernel, KernelNext, Syn, FlowEnd, FlowIdle, controllerVars
  <1>2. ASSUME NEW art, Fits(art, mark, born),
               \A i \in Ids : rules.scope[i] # None => art[i] \in {None, rules.scope[i]}
        PROVE  Fits(art, mark', born')
    BY <1>2, KernelMarks DEF Fits
  <1>3. Named'
    <2>1. Fits(rules.scope, mark', born') /\ Fits(mem.art, mark', born')
      BY <1>2, RulesRecorded DEF MarkInv, Named
    <2>2. disk # NoFile => Fits(disk.art, mark', born')
      BY <1>2, RulesRecorded DEF MarkInv, Named
    <2> QED BY <1>1, <2>1, <2>2 DEF Named, Fits
  <1>4. Collecting'
    <2>1. CASE pc = "gc_program"
      <3>1. Fits(op.saved.art, mark', born')
        BY <1>2, <2>1, RulesRecorded DEF MarkInv, Collecting
      <3>2. Free(op.id, mark')
        BY <2>1, KernelMarks DEF MarkInv, Collecting, Free
      <3> QED BY <1>1, <2>1, <3>1, <3>2 DEF MarkInv, Collecting, Fits, Free
    <2> QED BY <1>1, <2>1 DEF Collecting
  <1>5. Preparing'
    <2>1. CASE pc \in {"prep_persist", "rollback_persist"}
      <3>1. op.id \in Ids
        BY <2>1 DEF DurableInv, MemoryRecorded, Fresh
      <3>2. Free(op.id, mark')
        BY <2>1, <3>1, KernelMarks, RulesRecorded DEF MarkInv, Preparing, Free
      <3> QED BY <1>1, <2>1, <3>2 DEF Preparing, Free
    <2> QED BY <1>1, <2>1 DEF Preparing
  <1>6. Unasked'
    BY <1>1 DEF MarkInv, Unasked
  <1>7. Accounted'
    <2>1. CASE Audited
      <3>1. \A i \in Ids : rules.scope[i] # None /\ (pc = "gc_program" => i # op.id) => mem.art[i] # None
        BY <2>1, RulesRecorded DEF MarkInv, Collecting
      <3>2. ASSUME NEW kept, Covers(mem.art, kept, mark)
            PROVE  Covers(mem.art, kept, mark')
        BY <3>1, <3>2, KernelMarks DEF Covers, MarkInv, Collecting
      <3>3. Covers(mem.art, reserved, mark')
        BY <2>1, <3>2 DEF MarkInv, Accounted
      <3>4. \A c \in Clients : pend[c].kind = "rollback" /\ pend[c].stage = "counted" =>
                  Covers(mem.art, pend[c].ids, mark')
        BY <2>1, <3>2 DEF MarkInv, Accounted
      <3> QED BY <1>1, <3>3, <3>4 DEF Accounted, Covers
    <2>2. CASE ~ Audited
      BY <1>1, <2>2 DEF Accounted, Audited
    <2> QED BY <2>1, <2>2
  <1> QED BY <1>3, <1>4, <1>5, <1>6, <1>7 DEF MarkInv

-----------------------------------------------------------------------------
\* Every other step

\* The audit is entered once, by the startup that performs it.
LEMMA AuditedStep ==
    ASSUME TypeOK, EngineInv, [Next]_vars, Audited'
    PROVE  Audited \/ StartAudits \/ StartAuditFails
  <1> USE DEF Audited, AuditPcs
  <1>0. op.back \in {"idle", "close_rules", "exit"} /\ op \in Ops
    BY OpParts DEF TypeOK, ControlTypeOK
  <1>1. CASE Kernel \/ UNCHANGED vars \/ IntegrityFailure \/ ReconcileStart \/ ReconcileEnd
    BY <1>1, LooksStep
  <1>2. CASE Request \/ Pending
    <2>1. pc = "idle" \/ UNCHANGED <<pc, op>>
      BY <1>2
         DEF Request, Prepare, PrepareGateFails, ActivateForNewConnections, Rollback,
             DeactivateForNewConnections, DrainBegin, GcList, RollbackBegin, MayRequest, Idle,
             Pending, GcBegin, CountBegin, CountSucceeds, CountFails, RollbackCountFails,
             DrainFinish, GcFinish, RollbackFinish
    <2> QED BY <2>1
  <1>3. CASE PrepareStep \/ ActivateStep \/ CompensationStep \/ DeactivateStep \/ CollectStep
    <2>1. CASE SweepSucceeds
      BY <2>1 DEF SweepSucceeds, GoTo
    <2> QED BY <1>3, <2>1
       DEF PrepareStep, PrepareInterrupted, PreparePersists, PreparePersistFails,
           ActivateStep, RollbackActivate, ActivatePersists, ActivatePersistFails,
           StageInstalls, FlipInstalls, TransactionFails, SweepFails, ActivateDone,
           CompensationStep, UnwindPersists, CompensationInstalls, CompensationInstallFails,
           CompensationPersists, CompensationPersistFails, CompensationDone, IntegrityFailureLocked,
           DeactivateStep, DeactivatePersists, DeactivatePersistFails, DeactivateInstalls,
           DeactivateInstallFails, CollectStep, DrainPersists, DrainPersistFails, GcInstalls,
           GcInstallFails
  <1>4. CASE OffloadStep
    <2>1. CASE pc \in {"restore", "restore_persist"} /\ op.kind = "close"
      <3>1. ASSUME NEW failed, RestoreReturns(failed)
            PROVE  pc' \in {"close_rules", "exit"}
        BY <2>1, <3>1 DEF RestoreReturns, AfterRestore
      <3>2. ASSUME RestoreCall
            PROVE  pc' = "restore_persist" /\ op'.kind = "close"
        BY <2>1, <3>2, OpFields DEF RestoreCall
      <3> QED BY <1>4, <2>1, <3>1, <3>2
         DEF OffloadStep, OffloadsDown, OffloadsCapture, OffloadsCallFails, ClaimPersists,
             ClaimPersistFails, DisableSucceeds, DisableFails, UnclaimPersists, UnclaimPersistFails,
             RestoreNothing, RestorePersists, RestorePersistFails
    <2> QED BY <1>4, <2>1
       DEF OffloadStep, OffloadsDown, OffloadsCapture, OffloadsCallFails, ClaimPersists,
           ClaimPersistFails, DisableSucceeds, DisableFails, UnclaimPersists, UnclaimPersistFails,
           RestoreNothing, RestoreCall, RestorePersists, RestorePersistFails
  <1>5. CASE ReconcileStep
    BY <1>0, <1>5
       DEF ReconcileStep, ReconcileInstalls, ReconcileInstallFails, ReconcilePersists,
           ReconcilePersistFails, ReconcileReturn, GoTo
  <1>6. CASE StartStep /\ ~ StartAudits /\ ~ StartAuditFails
    BY <1>6
       DEF StartStep, StartRemoves, StartLoads, StartQuarantines, StartQuarantineFails,
           StartPersists, StartPersistFails, StartInstallsBoundary, StartFlips, StartPrograms,
           StartProgramsUngated, StartFails, GoTo, Abandon
  <1>7. CASE CloseStep
    BY <1>7 DEF CloseStep, CloseRemoves, CloseFails, Exit, ProcessGone, GoTo, EngineInv
  <1>8. CASE ReconcileBegin
    <2>1. [op EXCEPT !.kind = "reconcile", !.back = pc].back = pc
      BY <1>0 DEF Ops
    <2> QED BY <1>8, <2>1 DEF ReconcileBegin
  <1>9. CASE Crash \/ Boot \/ Shutdown
    BY <1>9 DEF Crash, ProcessGone, Boot, Shutdown, Idle
  <1> QED BY <1>1, <1>2, <1>3, <1>4, <1>5, <1>6, <1>7, <1>8, <1>9 DEF Next, LockedStep

\* Only the end of the process leads back to where no audit has been made.
LEMMA EntersAudit ==
    ASSUME TypeOK, [Next]_vars, pc' \in AuditPcs, pc \notin AuditPcs
    PROVE  ProcessGone
  <1> USE DEF AuditPcs
  <1>1. CASE Kernel \/ UNCHANGED vars \/ IntegrityFailure \/ ReconcileStart \/ ReconcileEnd
    BY <1>1, LooksStep
  <1>2. CASE Request \/ Pending
    <2>1. ASSUME NEW i, NEW repair, ActivateLocked(i, repair)
          PROVE  FALSE
      BY <2>1, ActivateLockedSaves
    <2>2. CASE Request
      BY <2>1, <2>2
         DEF Request, Prepare, PrepareGateFails, ActivateForNewConnections, Rollback,
             DeactivateForNewConnections, DrainBegin, GcList, RollbackBegin, RequestFrame
    <2>3. CASE Pending
      BY <2>1, <2>3
         DEF Pending, GcBegin, CountBegin, CountSucceeds, CountFails, RollbackCountFails,
             DrainFinish, GcFinish, RollbackFinish, RequestFrame
    <2> QED BY <1>2, <2>2, <2>3
  <1>3. CASE PrepareStep \/ ActivateStep
    <2>1. ASSUME NEW i, NEW repair, ActivateLocked(i, repair)
          PROVE  FALSE
      BY <2>1, ActivateLockedSaves
    <2> QED BY <1>3, <2>1
       DEF PrepareStep, PrepareInterrupted, PreparePersists, PreparePersistFails,
           ActivateStep, RollbackActivate, ActivatePersists, ActivatePersistFails,
           StageInstalls, SweepSucceeds, FlipInstalls, TransactionFails, SweepFails, ActivateDone,
           GoTo, Return
  <1>4. CASE OffloadStep
    <2>1. ASSUME NEW m, NEW durable, OffloadsFailed(m, durable)
          PROVE  pc' \in {"close_rules", "act_unwind"}
      BY <2>1 DEF OffloadsFailed, GoTo
    <2>2. ASSUME NEW failed, RestoreReturns(failed)
          PROVE  pc' \in {"idle", "gc_persist", "close_rules", "exit", "comp_done"}
      BY <2>2 DEF RestoreReturns, AfterRestore
    <2> QED BY <1>4, <2>1, <2>2
       DEF OffloadStep, OffloadsDown, OffloadsCapture, OffloadsCallFails, ClaimPersists,
           ClaimPersistFails, DisableSucceeds, DisableFails, UnclaimPersists, UnclaimPersistFails,
           RestoreNothing, RestoreCall, RestorePersists, RestorePersistFails, OffloadsDone, GoTo,
           StartPath
  <1>5. CASE CompensationStep \/ DeactivateStep \/ CollectStep
    BY <1>5
       DEF CompensationStep, UnwindPersists, CompensationInstalls, CompensationInstallFails,
           CompensationPersists, CompensationPersistFails, CompensationDone, IntegrityFailureLocked,
           DeactivateStep, DeactivatePersists, DeactivatePersistFails, DeactivateInstalls,
           DeactivateInstallFails, CollectStep, DrainPersists, DrainPersistFails, GcInstalls,
           GcInstallFails, GoTo, Return, AfterOldTable, AfterCompensation, AfterCollection
  <1>6. CASE ReconcileStep
    <2>1. op.back \in {"idle", "close_rules", "exit"}
      BY OpParts DEF TypeOK, ControlTypeOK
    <2> QED BY <1>6, <2>1
       DEF ReconcileStep, ReconcileInstalls, ReconcileInstallFails, ReconcilePersists,
           ReconcilePersistFails, ReconcileReturn, GoTo
  <1>7. CASE StartStep
    BY <1>7
       DEF StartStep, StartRemoves, StartLoads, StartQuarantines, StartQuarantineFails,
           StartAudits, StartAuditFails, StartPersists, StartPersistFails, StartInstallsBoundary,
           StartFlips, StartPrograms, StartProgramsUngated, StartFails, GoTo, Return, Abandon,
           StartPath
  <1>8. CASE CloseStep \/ Crash \/ ReconcileBegin \/ Boot \/ Shutdown
    BY <1>8 DEF CloseStep, CloseRemoves, CloseFails, Exit, Crash, GoTo, Abandon,
                 ReconcileBegin, Boot, Shutdown
  <1> QED BY <1>1, <1>2, <1>3, <1>4, <1>5, <1>6, <1>7, <1>8 DEF Next, LockedStep

\* A new process has no requests, and takes none before its audit.
LEMMA UnaskedStep ==
    ASSUME TypeOK, Unasked, [Next]_vars
    PROVE  Unasked'
  <1> SUFFICES ASSUME pc' \in AuditPcs PROVE \A c \in Clients : pend'[c] = NoRequest
    BY DEF Unasked
  <1> USE DEF AuditPcs
  <1>0. NoRequest.stage = "none"
    BY DEF NoRequest
  <1>1. CASE pc \in AuditPcs
    <2>1. \A c \in Clients : pend[c] = NoRequest
      BY <1>1 DEF Unasked
    <2>2. ASSUME NEW c \in Clients, Answer(c)
          PROVE  \A d \in Clients : pend'[d] = NoRequest
      BY <2>1, <2>2 DEF Answer, TypeOK, ControlTypeOK
    <2>3. ASSUME NEW c \in Clients, GcBegin(c) \/ CountBegin(c) \/ CountSucceeds(c)
          PROVE  FALSE
      BY <1>0, <2>1, <2>3 DEF GcBegin, CountBegin, CountSucceeds
    <2>4. CASE Request
      BY <1>1, <2>4
         DEF Request, Prepare, PrepareGateFails, ActivateForNewConnections, Rollback,
             DeactivateForNewConnections, DrainBegin, GcList, RollbackBegin, MayRequest, Idle
    <2>5. CASE Pending
      BY <1>0, <1>1, <2>1, <2>5
         DEF Pending, GcBegin, CountBegin, CountSucceeds, CountFails, RollbackCountFails,
             DrainFinish, GcFinish, RollbackFinish
    <2>6. CASE ~ Request /\ ~ Pending
      <3>1. UNCHANGED pend \/ pend' = [c \in Clients |-> NoRequest]
        BY <2>6, OthersPend
      <3> QED BY <2>1, <3>1
    <2> QED BY <2>4, <2>5, <2>6
  <1>2. CASE pc \notin AuditPcs
    <2>1. ProcessGone
      BY <1>2, EntersAudit
    <2> QED BY <2>1 DEF ProcessGone
  <1> QED BY <1>1, <1>2

\* A drain or a collection begins its count; a count, or a rollback's, ends.
BeginsCount(c) ==
    /\ CountBegin(c) /\ pc = "idle" /\ pend'[c].stage = "begun"
    /\ pend'[c].kind = pend[c].kind /\ pend'[c].id = pend[c].id
    /\ pend[c].id \in Retained(mem) \ {mem.active}
    /\ UNCHANGED <<pc, op, mem, mark, rules, fatal>>
EndsCount(c) ==
    /\ CountSucceeds(c) /\ pend[c].stage = "begun" /\ pend'[c].stage = "counted"
    /\ pend'[c].kind = pend[c].kind /\ pend'[c].id = pend[c].id
    /\ IF pend[c].kind = "rollback" THEN pend'[c].ids = Counts
                                    ELSE pend'[c].live = Count(pend[c].id)
    /\ UNCHANGED <<pc, op, mem, mark, rules, fatal>>

LEMMA RequestStep ==
    ASSUME TypeOK, [Next]_vars, NEW c \in Clients, pend'[c].stage \in {"begun", "counted"}
    PROVE  \/ pend'[c] = pend[c]
           \/ pend'[c].kind = "rollback" /\ pend'[c].stage = "begun"
           \/ BeginsCount(c) \/ EndsCount(c)
  <1>0. pend \in [Clients -> Requests] /\ NoRequest.stage = "none"
    BY DEF TypeOK, ControlTypeOK, NoRequest
  <1>1. ASSUME NEW d \in Clients, Answer(d)
        PROVE  pend'[c] = pend[c]
    BY <1>0, <1>1 DEF Answer
  <1>2. ASSUME NEW d \in Clients, NEW kind, NEW stage, NEW a, NEW id, Ask(d, kind, stage, a, id),
               stage \in {"listed", "matched"} \/ (kind = "rollback" /\ stage = "begun")
        PROVE  pend'[c] = pend[c] \/ (pend'[c].kind = "rollback" /\ pend'[c].stage = "begun")
    <2>1. LET r == [NoRequest EXCEPT !.kind = kind, !.stage = stage, !.art = a, !.id = id]
          IN  r.kind = kind /\ r.stage = stage
      BY DEF NoRequest
    <2> QED BY <1>0, <1>2, <2>1 DEF Ask
  <1>3. CASE Request
    <2>1. ASSUME NEW a \in Artifacts,
                 \/ Prepare(a) \/ ActivateForNewConnections(a) \/ Rollback(a)
                 \/ DeactivateForNewConnections(a)
          PROVE  UNCHANGED pend
      BY <2>1 DEF Prepare, ActivateForNewConnections, Rollback, DeactivateForNewConnections
    <2>2. ASSUME NEW d \in Clients, NEW a \in Artifacts, DrainBegin(d, a) \/ RollbackBegin(d, a)
          PROVE  pend'[c] = pend[c] \/ (pend'[c].kind = "rollback" /\ pend'[c].stage = "begun")
      BY <1>2, <2>2 DEF DrainBegin, RollbackBegin
    <2>3. ASSUME NEW d \in Clients, NEW i \in Ids, GcList(d, i)
          PROVE  pend'[c] = pend[c] \/ (pend'[c].kind = "rollback" /\ pend'[c].stage = "begun")
      BY <1>2, <2>3 DEF GcList
    <2>4. CASE PrepareGateFails
      BY <2>4 DEF PrepareGateFails
    <2> QED BY <1>3, <2>1, <2>2, <2>3, <2>4 DEF Request
  <1>4. CASE Pending
    <2>1. ASSUME NEW d \in Clients, GcBegin(d)
          PROVE  pend'[c] = pend[c]
      <3>1. CASE pend' = [pend EXCEPT ![d].stage = "matched"]
        <4>1. pend[d] \in Requests /\ [pend[d] EXCEPT !.stage = "matched"].stage = "matched"
          BY <1>0 DEF Requests
        <4> QED BY <1>0, <3>1, <4>1
      <3> QED BY <1>1, <2>1, <3>1 DEF GcBegin
    <2>2. ASSUME NEW d \in Clients, CountBegin(d)
          PROVE  pend'[c] = pend[c] \/ BeginsCount(c)
      <3>1. CASE /\ pend' = [pend EXCEPT ![d].stage = "begun", ![d].art = mem.art[pend[d].id]]
                 /\ pend[d].id \in Retained(mem) \ {mem.active}
        <4>1. \A x : LET r == [[pend[d] EXCEPT !.stage = "begun"] EXCEPT !.art = x]
                     IN  r.stage = "begun" /\ r.kind = pend[d].kind /\ r.id = pend[d].id
          BY <1>0 DEF Requests
        <4>2. pc = "idle" /\ UNCHANGED <<pc, op, mem, mark, rules, fatal>>
          BY <2>2 DEF CountBegin, Idle, RequestFrame, kernelVars, flowVars, exitVars
        <4> QED BY <1>0, <2>2, <3>1, <4>1, <4>2 DEF BeginsCount
      <3> QED BY <1>1, <2>2, <3>1 DEF CountBegin
    <2>3. ASSUME NEW d \in Clients, CountSucceeds(d)
          PROVE  pend'[c] = pend[c] \/ EndsCount(c)
      <3>1. pend[d].stage = "begun" /\ UNCHANGED <<pc, op, mem, mark, rules, fatal>>
        BY <2>3 DEF CountSucceeds, RequestFrame, kernelVars, flowVars, exitVars
      <3>2. CASE c = d
        <4> DEFINE r == [pend[d] EXCEPT !.stage = "counted", !.ids = Counts]
                   q == [pend[d] EXCEPT !.stage = "counted", !.live = Count(pend[d].id)]
        <4>1. /\ r.kind = pend[d].kind /\ r.stage = "counted" /\ r.id = pend[d].id /\ r.ids = Counts
              /\ q.kind = pend[d].kind /\ q.stage = "counted" /\ q.id = pend[d].id
              /\ q.live = Count(pend[d].id)
          BY <1>0 DEF Requests
        <4>2. pend'[d] = IF pend[d].kind = "rollback" THEN r ELSE q
          BY <1>0, <2>3 DEF CountSucceeds
        <4> HIDE DEF r, q
        <4> QED BY <2>3, <3>1, <3>2, <4>1, <4>2 DEF EndsCount
      <3>3. CASE c # d
        BY <1>0, <2>3, <3>3 DEF CountSucceeds
      <3> QED BY <3>2, <3>3
    <2>4. ASSUME NEW d \in Clients,
                 CountFails(d) \/ RollbackCountFails(d) \/ DrainFinish(d) \/ GcFinish(d) \/ RollbackFinish(d)
          PROVE  pend'[c] = pend[c]
      BY <1>1, <2>4 DEF CountFails, RollbackCountFails, DrainFinish, GcFinish, RollbackFinish
    <2> QED BY <1>4, <2>1, <2>2, <2>3, <2>4 DEF Pending
  <1> QED BY <1>0, <1>3, <1>4, OthersPend

\* A rollback's count is the one taken when its request was counted.
LEMMA CountedStep ==
    ASSUME TypeOK, [Next]_vars, NEW c \in Clients,
           pend'[c].kind = "rollback", pend'[c].stage = "counted"
    PROVE  \/ pend'[c] = pend[c]
           \/ pend'[c].ids = Counts /\ UNCHANGED <<pc, op, mem, mark>>
  <1>1. pend'[c].stage \in {"begun", "counted"} /\ pend'[c].stage # "begun"
    OBVIOUS
  <1>2. pend'[c] = pend[c] \/ EndsCount(c)
    BY <1>1, RequestStep DEF BeginsCount
  <1>3. ASSUME EndsCount(c)
        PROVE  pend'[c].ids = Counts /\ UNCHANGED <<pc, op, mem, mark>>
    BY <1>3 DEF EndsCount
  <1> QED BY <1>2, <1>3

\* Fewer marks and fewer artifacts.
LEMMA FitsKept ==
    ASSUME NEW art, NEW new, Fits(art, mark, born), [Next]_vars, ~ Kernel,
           \A i \in Ids : new[i] \in {None, art[i]}
    PROVE  Fits(new, mark', born')
  BY MarksKept DEF Fits

\* Reserved identifiers are released only when a count no longer finds them.
LEMMA ReservedCovers ==
    ASSUME [Next]_vars, Audited, Accounted, pc' # "down"
    PROVE  Covers(mem.art, reserved', mark)
  <1>1. ASSUME NEW ids, Covers(mem.art, ids, mark)
        PROVE  Covers(mem.art, Reserve(mem, ids), mark)
    BY <1>1 DEF Covers, Reserve, Has
  <1>2. Covers(mem.art, Counts, mark)
    BY DEF Covers, Counts
  <1> QED BY <1>1, <1>2, ReservedStep DEF Accounted

\* No connection carries the identifier of a new generation.
LEMMA MadeFree ==
    ASSUME [Next]_vars, MarkInv, NEW i \in Ids, Makes(i)
    PROVE  Free(i, mark) /\ Free(i, mark')
  <1>1. Audited /\ pc' # "down"
    BY DEF Makes, Audited, AuditPcs
  <1>2. Covers(mem.art, reserved', mark)
    BY <1>1, ReservedCovers DEF MarkInv
  <1> QED BY <1>2 DEF Makes, Covers, Free

-----------------------------------------------------------------------------
\* What the mark invariant asks of the environment and of the collector

\* The startup audit fails only when memory describes every marked connection:
\* StartAuditFails forgets the orphans, and Prepare may reuse their identifiers
\* without a count.
AuditComplete == StartAuditFails => \A f \in Flows : mark[f] \in Ids => Has(mem, mark[f])

\* A collection is of a generation that nothing assigns and no connection carries.
CollectsUnused ==
    \A c \in Clients :
        GcFinish(c) /\ MayCollect(pend[c]) => rules.active # pend[c].id /\ Free(pend[c].id, mark)

LEMMA NamedStep ==
    ASSUME TypeOK, DurableInv, LoadInv, MarkInv, [Next]_vars, ~ Kernel
    PROVE  Named'
  <1>1. Fits(rules'.scope, mark', born')
    <2>1. \A i \in Ids : rules'.scope[i] \in {None, mem.art[i]} \/ rules' = rules
      <3>1. CASE rules' \in {StageTable, NoRules, Program(mem, 0, FALSE), Program(mem, 0, TRUE),
                             Program(mem, mem.active, FALSE)}
        BY <3>1, TableScope
      <3> QED BY <3>1, TableStep
    <2>2. CASE rules' = rules
      BY <2>2, FitsKept DEF MarkInv, Named
    <2>3. CASE \A i \in Ids : rules'.scope[i] \in {None, mem.art[i]}
      BY <2>3, FitsKept DEF MarkInv, Named
    <2> QED BY <2>1, <2>2, <2>3
  <1>2. Fits(mem'.art, mark', born')
    <2>0. mem.art \in [Ids -> OrNone(Artifacts)]
      BY StateTypes, StateParts
    <2>1. CASE \E i \in Ids : Makes(i)
      <3>1. PICK i \in Ids : Makes(i)
        BY <2>1
      <3>2. Free(i, mark')
        BY <3>1, MadeFree
      <3>3. \A j \in Ids : j # i => mem'.art[j] = mem.art[j]
        BY <2>0, <3>1 DEF Makes
      <3>4. Fits(mem.art, mark', born')
        BY FitsKept DEF MarkInv, Named
      <3> QED BY <3>2, <3>3, <3>4 DEF Fits, Free
    <2>2. CASE mem'.art = mem.art \/ Forgets \/ \E c \in Clients : Collects(c)
      <3>1. \A i \in Ids : mem'.art[i] \in {None, mem.art[i]}
        BY <2>0, <2>2 DEF Forgets, Collects
      <3> QED BY <3>1, FitsKept DEF MarkInv, Named
    <2>3. CASE BringsBack
      BY <2>3, FitsKept DEF BringsBack, MarkInv, Collecting
    <2>4. CASE Loads
      BY <2>4, FitsKept DEF Loads, MarkInv, Named
    <2>5. CASE Loses
      BY <2>5 DEF Loses, Fits
    <2> QED BY <2>1, <2>2, <2>3, <2>4, <2>5, GenerationStep
  <1>3. disk' # NoFile => Fits(disk'.art, mark', born')
    BY FileStep, FitsKept DEF MarkInv, Named
  <1> QED BY <1>1, <1>2, <1>3 DEF Named, Fits

LEMMA CollectingKept ==
    ASSUME TypeOK, DurableInv, LoadInv, MarkInv, CollectsUnused, [Next]_vars, ~ Kernel
    PROVE  Collecting'
  <1> SUFFICES ASSUME pc' = "gc_program"
               PROVE  /\ Fits(op'.saved.art, mark', born')
                      /\ op'.id \in Ids /\ rules'.active # op'.id /\ Free(op'.id, mark')
                      /\ \A i \in Ids : i # op'.id => mem'.art[i] = op'.saved.art[i]
    BY DEF Collecting, Fits, Free
  <1>1. CASE UNCHANGED <<pc, op, mem, rules>>
    <2>1. Fits(op.saved.art, mark', born')
      BY <1>1, FitsKept DEF MarkInv, Collecting
    <2>2. Free(op.id, mark')
      BY <1>1, MarksKept DEF MarkInv, Collecting, Free
    <2> QED BY <1>1, <2>1, <2>2 DEF MarkInv, Collecting
  <1>2. ASSUME NEW c \in Clients, Collects(c)
        PROVE  /\ Fits(op'.saved.art, mark', born')
               /\ op'.id \in Ids /\ rules'.active # op'.id /\ Free(op'.id, mark')
               /\ \A i \in Ids : i # op'.id => mem'.art[i] = op'.saved.art[i]
    <2>1. Fits(mem.art, mark', born')
      BY FitsKept DEF MarkInv, Named
    <2>2. rules.active # pend[c].id /\ Free(pend[c].id, mark)
      BY <1>2 DEF Collects, CollectsUnused
    <2>3. mem.art \in [Ids -> OrNone(Artifacts)]
      BY StateTypes, StateParts
    <2>4. \A i \in Ids : i # op'.id => mem'.art[i] = op'.saved.art[i]
      BY <1>2, <2>3 DEF Collects
    <2> QED BY <1>2, <2>1, <2>2, <2>4 DEF Collects
  <1> QED BY <1>1, <1>2, CollectionStep

LEMMA PreparingStep ==
    ASSUME TypeOK, DurableInv, LoadInv, MarkInv, [Next]_vars, ~ Kernel
    PROVE  Preparing'
  <1> SUFFICES ASSUME pc' \in {"prep_persist", "rollback_persist"} PROVE Free(op'.id, mark')
    BY DEF Preparing, Free
  <1>1. CASE mem' = mem /\ op' = op /\ pc' = pc
    <2>1. op.id \in Ids
      BY <1>1 DEF DurableInv, MemoryRecorded, Fresh
    <2> QED BY <1>1, <2>1, MarksKept DEF MarkInv, Preparing, Free
  <1>2. CASE mem.art[op'.id] = None /\ op'.id \in Ids /\ \E a \in Artifacts : mem' = Prepared(mem, op'.id, a)
    <2>1. mem'.art[op'.id] # None
      <3>1. PICK a \in Artifacts : mem' = Prepared(mem, op'.id, a)
        BY <1>2
      <3>2. mem'.art = [mem.art EXCEPT ![op'.id] = a]
        BY <1>2, <3>1, PreparedArt, StateTypes
      <3>3. mem.art \in [Ids -> OrNone(Artifacts)]
        BY StateTypes, StateParts
      <3> QED BY <1>2, <3>1, <3>2, <3>3, SteeringAssumption
    <2>2. ~ Forgets /\ ~ BringsBack /\ ~ Loads /\ ~ Loses /\ \A c \in Clients : ~ Collects(c)
      BY DEF Forgets, BringsBack, Loads, Loses, Collects
    <2>3. PICK i \in Ids : Makes(i)
      BY <1>2, <2>1, <2>2, GenerationStep
    <2> QED BY <2>3, MadeFree DEF Makes
  <1> QED BY <1>1, <1>2, FreshStep DEF FreshPcs

\* Once the audit is over, what was accounted for stays so.
LEMMA CoversKept ==
    ASSUME TypeOK, DurableInv, LoadInv, MarkInv, CollectsUnused, [Next]_vars, ~ Kernel,
           Audited', NEW kept, Covers(mem.art, kept, mark)
    PROVE  Covers(mem'.art, kept, mark')
  <1>0. mem.art \in [Ids -> OrNone(Artifacts)]
    BY StateTypes, StateParts
  <1>1. Covers(mem.art, kept, mark')
    BY MarksKept DEF Covers
  <1>2. CASE mem'.art = mem.art
    BY <1>1, <1>2
  <1>3. ASSUME NEW i \in Ids, Makes(i)
        PROVE  Covers(mem'.art, kept, mark')
    BY <1>0, <1>1, <1>3, SteeringAssumption DEF Makes, Covers
  <1>4. CASE Forgets
    BY <1>0, <1>1, <1>4, MarksKept DEF Forgets, MarkInv, Preparing, Free, Covers
  <1>5. ASSUME NEW c \in Clients, Collects(c)
        PROVE  Covers(mem'.art, kept, mark')
    BY <1>0, <1>1, <1>5 DEF Collects, CollectsUnused, Free, Covers
  <1>6. CASE BringsBack
    BY <1>1, <1>6 DEF BringsBack, DurableInv, SavedRecorded, Covers
  <1>7. ~ Loads /\ ~ Loses
    BY DEF Loads, Loses, Audited, AuditPcs
  <1> QED BY <1>2, <1>3, <1>4, <1>5, <1>6, <1>7, GenerationStep

LEMMA AccountedStep ==
    ASSUME TypeOK, DurableInv, LoadInv, EngineInv, MarkInv, AuditComplete, CollectsUnused,
           [Next]_vars, ~ Kernel
    PROVE  Accounted'
  <1> SUFFICES ASSUME Audited'
               PROVE  /\ Covers(mem'.art, reserved', mark')
                      /\ \A c \in Clients :
                            pend'[c].kind = "rollback" /\ pend'[c].stage = "counted" =>
                                Covers(mem'.art, pend'[c].ids, mark')
    BY DEF Accounted, Covers
  <1>1. CASE Audited
    <2>1. Covers(mem'.art, reserved', mark')
      <3>1. pc' # "down"
        BY DEF Audited, AuditPcs
      <3> QED BY <1>1, <3>1, ReservedCovers, CoversKept DEF MarkInv
    <2>2. ASSUME NEW c \in Clients, pend'[c].kind = "rollback", pend'[c].stage = "counted"
          PROVE  Covers(mem'.art, pend'[c].ids, mark')
      <3>1. CASE pend'[c] = pend[c]
        BY <1>1, <2>2, <3>1, CoversKept DEF MarkInv, Accounted
      <3>2. CASE pend'[c].ids = Counts /\ UNCHANGED <<pc, op, mem, mark>>
        BY <3>2 DEF Covers, Counts
      <3> QED BY <2>2, <3>1, <3>2, CountedStep
    <2> QED BY <2>1, <2>2
  <1>2. CASE StartAudits \/ StartAuditFails
    <2>1. /\ UNCHANGED <<pend, mark>> /\ pc = "start_audit"
          /\ reserved' = Reserve(mem, Counts) \/ \A f \in Flows : mark[f] \in Ids => Has(mem, mark[f])
      BY <1>2 DEF StartAudits, StartAuditFails, AuditComplete, kernelVars, flowVars
    <2>2. mem'.art = mem.art
      <3>1. ~ StartLoads /\ ~ StartQuarantines
        BY <2>1 DEF StartLoads, StartQuarantines
      <3> QED BY <1>2, <3>1, StartArt DEF StartStep
    <2>3. Covers(mem'.art, reserved', mark')
      BY <2>1, <2>2 DEF Covers, Reserve, Counts, Has
    <2>4. \A c \in Clients : pend'[c].kind = "none"
      BY <2>1 DEF MarkInv, Unasked, AuditPcs, NoRequest
    <2> QED BY <2>3, <2>4
  <1> QED BY <1>1, <1>2, AuditedStep

LEMMA MarkNext ==
    ASSUME TypeOK, DurableInv, LoadInv, EngineInv, MarkInv, AuditComplete, CollectsUnused, [Next]_vars
    PROVE  MarkInv'
  <1>1. Unasked'
    BY UnaskedStep DEF MarkInv
  <1> QED BY <1>1, MarkKernel, NamedStep, CollectingKept, PreparingStep, AccountedStep DEF MarkInv

LEMMA MarkInit == Init => MarkInv
  BY DEF Init, KernelInit, MarkInv, Named, Fits, Collecting, Preparing, Unasked, Accounted, Audited,
         AuditPcs, Absent, Ids

LEMMA MarksHold ==
    Spec /\ [][AuditComplete /\ CollectsUnused]_vars => []MarkInv
  <1>1. UNCHANGED vars /\ MarkInv => MarkInv'
    BY DEF vars, kernelVars, flowVars, MarkInv, Named, Fits, Collecting, Free, Preparing, Unasked,
           Accounted, Audited, Covers
  <1>2. TypeOK /\ DurableInv /\ [Next]_vars => DurableInv'
    BY DurableNext
  <1>3. TypeOK /\ LoadInv /\ [Next]_vars => LoadInv'
    BY LoadNext
  <1>4. TypeOK /\ DurableInv /\ LoadInv /\ EngineInv /\ [Next]_vars => EngineInv'
    BY EngineNext
  <1>5. TypeOK /\ DurableInv /\ LoadInv /\ EngineInv /\ MarkInv /\ [Next]_vars
           /\ [AuditComplete /\ CollectsUnused]_vars => MarkInv'
    BY <1>1, MarkNext
  <1> QED BY <1>2, <1>3, <1>4, <1>5, DurableInit, LoadInit, EngineInit, MarkInit, TypeCorrect,
             PTL DEF Spec

LEMMA MarkedAreKnown ==
    ASSUME MarkInv
    PROVE  EveryMarkAccountedFor
  <1> SUFFICES ASSUME Running, NEW f \in Flows, mark[f] \in Ids
               PROVE  mem.art[mark[f]] = born[f] \/ mark[f] \in reserved
    BY DEF EveryMarkAccountedFor
  <1>1. Audited
    BY DEF Running, Audited, AuditPcs, StartPcs
  <1> QED BY <1>1 DEF MarkInv, Named, Fits, Accounted, Covers

\* However requests overlap, signals arrive, idle connections time out, calls
\* fail, late or not, and processes come and go: as long as garbage collection
\* keeps its promise ("only at zero flows") and a startup audit that fails had
\* no orphans to find, a connection marked for one strategy is never queued to
\* another's engine (prepareLocked, Rollback, persistLocked, loadLocked: an
\* identifier is reused only when no connection carries it).
THEOREM MarksNameTheirStrategy ==
    Spec /\ [][AuditComplete /\ CollectsUnused]_vars => []Affinity
  <1>1. MarkInv => Affinity
    BY DEF MarkInv, Named, Fits, Affinity
  <1> QED BY <1>1, MarksHold, PTL

\* Under the same conditions a serving controller accounts for every marked
\* connection: its generation is retained, with the strategy that it began
\* under, or its identifier is reserved (reconcileReservedGenerationsLocked).
THEOREM EveryMarkIsAccountedFor ==
    Spec /\ [][AuditComplete /\ CollectsUnused]_vars => []EveryMarkAccountedFor
  <1>1. MarkInv => EveryMarkAccountedFor
    BY MarkedAreKnown
  <1> QED BY <1>1, MarksHold, PTL

-----------------------------------------------------------------------------
\* One request at a time, and no idle timeout

NeverIdle == \A f \in Flows : ~ idle[f]

Lone == \A c, d \in Clients : pend[c] # NoRequest /\ pend[d] # NoRequest => c = d

\* A collection or a drain of a generation has asked conntrack about it.
Counting(c) == pend[c].kind \in {"gc", "drain"} /\ pend[c].stage \in {"begun", "counted"}

\* Nobody but the reconciler or Close takes the mutex before the answer.
Standing ==
    \/ pc \in {"idle", "rec_program", "rec_remove", "rec_persist", "close_rules", "exit"}
    \/ pc \in {"restore", "restore_persist"} /\ op.kind = "close"

\* The table does not assign the generation, which gets no connection.
Unneeded(c) ==
    /\ rules.active # pend[c].id
    /\ pend[c].stage = "counted" /\ ~ pend[c].live => Free(pend[c].id, mark)

SerialInv == NeverIdle /\ Lone /\ \A c \in Clients : Counting(c) => Standing /\ (fatal \/ Unneeded(c))

LEMMA NeverIdleStep ==
    ASSUME TypeOK, ~ IdleDrain, NeverIdle, [Next]_vars
    PROVE  NeverIdle'
  <1>1. idle \in [Flows -> BOOLEAN]
    BY DEF TypeOK, KernelTypeOK
  <1>2. CASE Kernel
    BY <1>1, <1>2 DEF Kernel, KernelNext, Syn, FlowEnd, FlowIdle, NeverIdle
  <1> QED BY <1>2, MarksStep DEF NeverIdle

LEMMA LoneStep ==
    ASSUME TypeOK, Serial, Lone, [Next]_vars
    PROVE  Lone'
  <1>0. pend \in [Clients -> Requests] /\ NoRequest.stage = "none" /\ NoRequest.kind = "none"
    BY DEF TypeOK, ControlTypeOK, NoRequest
  <1>1. ASSUME NEW c \in Clients, NEW r, pend' = [pend EXCEPT ![c] = r],
               \A d \in Clients : d # c => pend[d] = NoRequest
        PROVE  Lone'
    BY <1>0, <1>1 DEF Lone
  <1>2. CASE Request
    <2>1. \/ UNCHANGED pend
          \/ MayRequest /\ \E c \in Clients : \E r : pend' = [pend EXCEPT ![c] = r]
      BY <1>2
         DEF Request, Prepare, PrepareGateFails, ActivateForNewConnections, Rollback,
             DeactivateForNewConnections, DrainBegin, GcList, RollbackBegin, Ask
    <2> QED BY <1>1, <2>1 DEF MayRequest, Lone
  <1>3. CASE Pending
    <2>1. PICK c \in Clients :
             /\ pend[c].stage # "none" \/ pend[c].kind # "none"
             /\ \E r : pend' = [pend EXCEPT ![c] = r]
      <3>1. PICK c \in Clients :
               \/ GcBegin(c) \/ CountBegin(c) \/ CountSucceeds(c) \/ CountFails(c) \/ RollbackCountFails(c)
               \/ DrainFinish(c) \/ GcFinish(c) \/ RollbackFinish(c)
        BY <1>3 DEF Pending
      <3>2. pend[c].stage # "none" \/ pend[c].kind # "none"
        BY <3>1 DEF GcBegin, CountBegin, CountSucceeds, CountFails, RollbackCountFails,
                    DrainFinish, GcFinish, RollbackFinish
      <3>3. \E r : pend' = [pend EXCEPT ![c] = r]
        <4>1. CASE GcBegin(c) \/ CountBegin(c) \/ CountSucceeds(c)
          BY <4>1 DEF GcBegin, CountBegin, CountSucceeds, Answer
        <4>2. CASE CountFails(c) \/ RollbackCountFails(c) \/ DrainFinish(c) \/ GcFinish(c) \/ RollbackFinish(c)
          BY <4>2 DEF CountFails, RollbackCountFails, DrainFinish, GcFinish, RollbackFinish, Answer
        <4> QED BY <3>1, <4>1, <4>2
      <3> QED BY <3>2, <3>3
    <2>2. \A d \in Clients : d # c => pend[d] = NoRequest
      BY <1>0, <2>1 DEF Lone
    <2> QED BY <1>1, <2>1, <2>2
  <1>4. CASE ~ Request /\ ~ Pending
    BY <1>4, OthersPend DEF Lone
  <1> QED BY <1>2, <1>3, <1>4

LEMMA PersistsFatal ==
    ASSUME Persists \/ PersistFails
    PROVE  fatal' = fatal \/ fatal' = TRUE
  BY DEF Persists, PersistFails, exitVars

\* The reconciler and Close assign nothing, and do not undo Config.Fatal.
LEMMA StandingStep ==
    ASSUME TypeOK, EngineInv, [Next]_vars, Standing, ~ Request, ~ Pending, ~ ProcessGone
    PROVE  Standing' /\ rules'.active \in {rules.active, 0} /\ (fatal' = fatal \/ fatal' = TRUE)
  <1> USE DEF Standing, kernelVars, exitVars
  <1>0. op.back \in {"idle", "close_rules", "exit"} /\ op \in Ops
    BY OpParts DEF TypeOK, ControlTypeOK
  <1>1. CASE Kernel \/ UNCHANGED vars \/ IntegrityFailure \/ ReconcileStart \/ ReconcileEnd
    <2>1. UNCHANGED <<rules, fatal>>
      BY <1>1 DEF Kernel, KernelNext, Syn, FlowEnd, FlowIdle, controllerVars, vars, IntegrityFailure,
                  ReconcileStart, ReconcileEnd
    <2> QED BY <1>1, <2>1, LooksStep
  <1>2. CASE PrepareStep \/ ActivateStep \/ CompensationStep \/ DeactivateStep \/ CollectStep
    BY <1>2
       DEF PrepareStep, PrepareInterrupted, PreparePersists, PreparePersistFails,
           ActivateStep, RollbackActivate, ActivatePersists, ActivatePersistFails,
           StageInstalls, SweepSucceeds, FlipInstalls, TransactionFails, SweepFails, ActivateDone,
           CompensationStep, UnwindPersists, CompensationInstalls, CompensationInstallFails,
           CompensationPersists, CompensationPersistFails, CompensationDone, IntegrityFailureLocked,
           DeactivateStep, DeactivatePersists, DeactivatePersistFails, DeactivateInstalls,
           DeactivateInstallFails, CollectStep, DrainPersists, DrainPersistFails, GcInstalls,
           GcInstallFails
  <1>3. CASE StartStep \/ Boot
    BY <1>3
       DEF StartStep, StartRemoves, StartLoads, StartQuarantines, StartQuarantineFails,
           StartAudits, StartAuditFails, StartPersists, StartPersistFails, StartInstallsBoundary,
           StartFlips, StartPrograms, StartProgramsUngated, StartFails, Boot
  <1>4. CASE OffloadStep
    <2>1. pc \in {"restore", "restore_persist"} /\ op.kind = "close"
      BY <1>4
         DEF OffloadStep, OffloadsDown, OffloadsCapture, OffloadsCallFails, ClaimPersists,
             ClaimPersistFails, DisableSucceeds, DisableFails, UnclaimPersists, UnclaimPersistFails,
             RestoreNothing, RestoreCall, RestorePersists, RestorePersistFails
    <2>2. ASSUME NEW failed, RestoreReturns(failed)
          PROVE  pc' \in {"close_rules", "exit"}
      BY <2>1, <2>2 DEF RestoreReturns, AfterRestore
    <2>3. ASSUME RestoreCall
          PROVE  pc' = "restore_persist" /\ op'.kind = "close"
      BY <2>1, <2>3, OpFields DEF RestoreCall
    <2>4. UNCHANGED rules /\ (fatal' = fatal \/ fatal' = TRUE)
      <3>1. CASE RestorePersists \/ RestorePersistFails
        BY <3>1, PersistsFatal DEF RestorePersists, RestorePersistFails
      <3>2. CASE ~ RestorePersists /\ ~ RestorePersistFails
        BY <1>4, <2>1, <3>2
           DEF OffloadStep, OffloadsDown, OffloadsCapture, OffloadsCallFails, ClaimPersists,
               ClaimPersistFails, DisableSucceeds, DisableFails, UnclaimPersists, UnclaimPersistFails,
               RestoreNothing, RestoreCall
      <3> QED BY <3>1, <3>2
    <2> QED BY <1>4, <2>1, <2>2, <2>3, <2>4
       DEF OffloadStep, OffloadsDown, OffloadsCapture, OffloadsCallFails, ClaimPersists,
           ClaimPersistFails, DisableSucceeds, DisableFails, UnclaimPersists, UnclaimPersistFails,
           RestoreNothing, RestorePersists, RestorePersistFails
  <1>5. CASE ReconcileStep
    <2>1. CASE ReconcileInstalls \/ ReconcileInstallFails
      BY <2>1, TableFields
         DEF ReconcileInstalls, ReconcileInstallFails, GoTo, Installs, InstallFails
    <2>2. CASE ReconcilePersists \/ ReconcilePersistFails
      BY <1>0, <2>2, PersistsFatal DEF ReconcilePersists, ReconcilePersistFails, ReconcileReturn
    <2> QED BY <1>5, <2>1, <2>2 DEF ReconcileStep
  <1>6. CASE CloseStep
    BY <1>6, TableFields
       DEF CloseStep, CloseRemoves, CloseFails, Exit, GoTo, EngineInv, Installs, InstallFails
  <1>7. CASE Crash \/ ReconcileBegin \/ Shutdown
    BY <1>7 DEF Crash, ReconcileBegin, Shutdown, Abandon
  <1> QED BY <1>1, <1>2, <1>3, <1>4, <1>5, <1>6, <1>7 DEF Next, LockedStep

\* What is free and not assigned stays free.
LEMMA FreeKept ==
    ASSUME TypeOK, EngineInv, [Next]_vars, NEW i \in Ids, Free(i, mark), rules.active # i
    PROVE  Free(i, mark')
  <1>1. CASE Kernel
    BY <1>1, KernelMarks DEF Free
  <1> QED BY <1>1, MarksKept DEF Free

LEMMA CountingStep ==
    ASSUME TypeOK, LoadInv, EngineInv, Agreement, Serial, SerialInv, [Next]_vars,
           NEW c \in Clients, Counting(c)'
    PROVE  Standing' /\ (fatal' \/ Unneeded(c)')
  <1>0. /\ pend'[c].kind \in {"gc", "drain"} /\ pend'[c].stage \in {"begun", "counted"}
        /\ NoRequest.stage = "none" /\ pend \in [Clients -> Requests]
    BY DEF Counting, NoRequest, TypeOK, ControlTypeOK
  <1>1. CASE pend'[c] = pend[c]
    <2>1. Counting(c) /\ pend[c].id \in Ids /\ pend[c] # NoRequest
      BY <1>0, <1>1, LoadParts DEF Counting, Asked
    <2>2. Standing /\ (fatal \/ Unneeded(c))
      BY <2>1 DEF SerialInv
    <2>3. ~ Request
      BY <2>1 DEF Request, Prepare, PrepareGateFails, ActivateForNewConnections, Rollback,
             DeactivateForNewConnections, DrainBegin, GcList, RollbackBegin, MayRequest
    <2>4. ~ ProcessGone
      BY <1>0 DEF ProcessGone
    <2>5. Standing' /\ rules'.active \in {rules.active, 0} /\ (fatal' = fatal \/ fatal' = TRUE)
      <3>1. CASE Pending
        <4>1. PICK d \in Clients :
                 \/ GcBegin(d) \/ CountBegin(d) \/ CountSucceeds(d) \/ CountFails(d) \/ RollbackCountFails(d)
                 \/ DrainFinish(d) \/ GcFinish(d) \/ RollbackFinish(d)
          BY <3>1 DEF Pending
        <4>2. pend[d] # NoRequest
          BY <1>0, <4>1 DEF GcBegin, CountBegin, CountSucceeds, CountFails, RollbackCountFails,
                            DrainFinish, GcFinish, RollbackFinish
        <4>3. d = c
          BY <2>1, <4>2 DEF SerialInv, Lone
        <4>4. ~ Answer(c)
          BY <1>0 DEF Answer
        <4>5. CountSucceeds(c)
          BY <2>1, <4>1, <4>3, <4>4
             DEF Counting, GcBegin, CountBegin, CountFails, RollbackCountFails, DrainFinish, GcFinish,
                 RollbackFinish
        <4> QED BY <2>2, <4>5 DEF CountSucceeds, RequestFrame, kernelVars, exitVars, Standing
      <3> QED BY <2>2, <2>3, <2>4, <3>1, StandingStep
    <2>7. fatal => fatal'
      BY <2>5
    <2>6. Unneeded(c) => Unneeded(c)'
      <3> SUFFICES ASSUME Unneeded(c) PROVE Unneeded(c)'
        OBVIOUS
      <3>1. rules'.active # pend[c].id
        BY <2>1, <2>5 DEF Unneeded, Ids
      <3>2. pend[c].stage = "counted" /\ ~ pend[c].live => Free(pend[c].id, mark')
        BY <2>1, FreeKept DEF Unneeded
      <3> QED BY <1>1, <3>1, <3>2 DEF Unneeded, Free
    <2> QED BY <2>2, <2>5, <2>6, <2>7
  <1>2. CASE BeginsCount(c)
    <2>1. fatal \/ rules.active = mem.active
      BY <1>2 DEF BeginsCount, Agreement, InStep, Resting, AtRest
    <2> QED BY <1>2, <2>1 DEF BeginsCount, Standing, Unneeded
  <1>3. CASE EndsCount(c)
    <2>1. Counting(c)
      BY <1>0, <1>3 DEF EndsCount, Counting
    <2>2. Standing /\ (fatal \/ Unneeded(c))
      BY <2>1 DEF SerialInv
    <2>3. ~ pend'[c].live => Free(pend[c].id, mark)
      BY <1>0, <1>3 DEF EndsCount, Count, Free, SerialInv, NeverIdle
    <2> QED BY <1>3, <2>2, <2>3 DEF EndsCount, Standing, Unneeded, Free
  <1> QED BY <1>0, <1>1, <1>2, <1>3, RequestStep

LEMMA SerialNext ==
    ASSUME TypeOK, LoadInv, EngineInv, Agreement, Serial, ~ IdleDrain, SerialInv, [Next]_vars
    PROVE  SerialInv'
  BY NeverIdleStep, LoneStep, CountingStep DEF SerialInv

LEMMA SerialInit == Init => SerialInv
  BY DEF Init, KernelInit, SerialInv, NeverIdle, Lone, Counting, NoRequest

LEMMA SerialHolds ==
    ASSUME Serial, ~ IdleDrain
    PROVE  Spec => []SerialInv
  <1>1. TypeOK /\ DurableInv /\ [Next]_vars => DurableInv'
    BY DurableNext
  <1>2. TypeOK /\ LoadInv /\ [Next]_vars => LoadInv'
    BY LoadNext
  <1>3. TypeOK /\ DurableInv /\ LoadInv /\ EngineInv /\ [Next]_vars => EngineInv'
    BY EngineNext
  <1>4. TypeOK /\ DurableInv /\ EngineInv /\ Agreement /\ [Next]_vars => Agreement'
    BY AgreementNext
  <1>5. TypeOK /\ LoadInv /\ EngineInv /\ Agreement /\ SerialInv /\ [Next]_vars => SerialInv'
    BY SerialNext
  <1> QED BY <1>1, <1>2, <1>3, <1>4, <1>5, DurableInit, LoadInit, EngineInit, AgreementInit,
             SerialInit, TypeCorrect, PTL DEF Spec

\* A collection is of a generation that nothing assigns and no connection
\* carries, unless the process is on its way out.
CollectsUnusedUnlessFatal ==
    \A c \in Clients :
        GcFinish(c) /\ MayCollect(pend[c]) => fatal \/ (rules.active # pend[c].id /\ Free(pend[c].id, mark))

\* Nothing is collected between Config.Fatal and the end of the process.
FatalCollectsNothing == \A c \in Clients : GcFinish(c) /\ MayCollect(pend[c]) => ~ fatal

\* One request at a time and without idle timeout, garbage collection keeps its
\* promise, "only at zero flows", although it counts them without the mutex:
\* meanwhile connections come and go, signals, crashes and shutdowns arrive and
\* the reconciler and Close run, but the table assigns no connection to the
\* generation that is counted (GarbageCollectGeneration).
THEOREM CollectsAtZeroFlows ==
    ASSUME Serial, ~ IdleDrain
    PROVE  Spec => [][CollectsUnusedUnlessFatal]_vars
  <1>1. SerialInv /\ [Next]_vars => [CollectsUnusedUnlessFatal]_vars
    <2> SUFFICES ASSUME SerialInv, NEW c \in Clients, GcFinish(c), MayCollect(pend[c])
                 PROVE  fatal \/ (rules.active # pend[c].id /\ Free(pend[c].id, mark))
      BY DEF CollectsUnusedUnlessFatal
    <2>1. Counting(c) /\ pend[c].stage = "counted" /\ ~ pend[c].live
      BY DEF GcFinish, MayCollect, Counting
    <2> QED BY <2>1 DEF SerialInv, Unneeded
  <1> QED BY <1>1, SerialHolds, PTL DEF Spec

LEMMA SerialMarksHold ==
    ASSUME Serial, ~ IdleDrain
    PROVE  Spec /\ [][AuditComplete /\ FatalCollectsNothing]_vars => []MarkInv
  <1>1. Spec => [][CollectsUnusedUnlessFatal]_vars
    BY CollectsAtZeroFlows
  <1>2. [CollectsUnusedUnlessFatal]_vars /\ [AuditComplete /\ FatalCollectsNothing]_vars
           => [AuditComplete /\ CollectsUnused]_vars
    BY DEF CollectsUnusedUnlessFatal, FatalCollectsNothing, CollectsUnused
  <1> QED BY <1>1, <1>2, MarksHold, PTL

\* So with one request at a time and without idle timeout no connection changes
\* its strategy, whatever signals arrive, calls fail and processes end, as long
\* as a failed startup audit had no orphans to find and nothing is collected
\* after Config.Fatal.
THEOREM SerialMarksNameTheirStrategy ==
    ASSUME Serial, ~ IdleDrain
    PROVE  Spec /\ [][AuditComplete /\ FatalCollectsNothing]_vars => []Affinity
  <1>1. MarkInv => Affinity
    BY DEF MarkInv, Named, Fits, Affinity
  <1> QED BY <1>1, SerialMarksHold, PTL

\* And the controller accounts for every marked connection.
THEOREM SerialMarksAreAccountedFor ==
    ASSUME Serial, ~ IdleDrain
    PROVE  Spec /\ [][AuditComplete /\ FatalCollectsNothing]_vars => []EveryMarkAccountedFor
  <1>1. MarkInv => EveryMarkAccountedFor
    BY MarkedAreKnown
  <1> QED BY <1>1, SerialMarksHold, PTL

-----------------------------------------------------------------------------
\* Which generations may still have connections

\* Retained by m, but without rules in its table.
Spare(m) == Retained(m) \ Live(m)

\* Nothing assigns generation i, and no connection carries it.
Vacant(i) == rules.active # i /\ Free(i, mark)
Vacated(m) == \A i \in Spare(m) : Vacant(i)

Deactivating == pc \in DeactivationPcs
Restoring == Activating \/ Deactivating \/ pc = "gc_program"

\* A process that reads the file now finds the generation and serves it.
Recoverable(i) == i # 0 => disk # NoFile /\ i \in Live(disk)

\* What memory, the file or the copy an operation may return to does not serve is
\* vacant: whatever of the three the next table is rendered from, no connection
\* loses its rules.
AllVacated ==
    /\ Vacated(mem)
    /\ disk # NoFile => Vacated(disk)
    /\ Restoring => Vacated(op.saved)

\* What is or may again be assigned is served by all of them.
AllServe ==
    /\ pc # "act_persist" => Recoverable(mem.active)
    /\ Restoring => Recoverable(op.saved.active)
    /\ Activating \/ Deactivating => (op.saved.active # 0 => op.saved.active \in Live(mem))

Rendered == \A i \in Ids : rules.scope[i] \notin Inert

PhaseInv == AllVacated /\ AllServe /\ Rendered

\* A drain ends with a generation that nothing assigns and no connection carries.
DrainsUnused ==
    \A c \in Clients :
        DrainFinish(c) /\ Unchanged(pend[c]) /\ ~ pend[c].live => Vacant(pend[c].id)

-----------------------------------------------------------------------------
\* Updates of a state that let go of no generation's rules

Retains(n, m) == Spare(n) \subseteq Spare(m) /\ n.active \in {m.active, 0}

LEMMA SpareFewer ==
    ASSUME NEW m, NEW n, \A i \in Ids : n.art[i] \in {None, m.art[i]},
           \A i \in Ids : n.art[i] # None /\ m.phase[i] \in {"active", "draining"} =>
                             n.phase[i] \in {"active", "draining"}
    PROVE  Spare(n) \subseteq Spare(m)
  BY DEF Spare, Live, Retained, Has

LEMMA RetainsKept ==
    ASSUME NEW m \in States
    PROVE  /\ Retains(m, m)
           /\ Retains(MarkUnsafe(m), m)
           /\ Retains(Quarantined(m), m)
           /\ Retains(Deactivated(m), m)
           /\ \A b : Retains([m EXCEPT !.offloads = b], m)
           /\ Retains([m EXCEPT !.offloads = TRUE], m)
           /\ Retains([m EXCEPT !.offloads = FALSE], m)
           /\ \A b, d : Retains([m EXCEPT !.offloads = b, !.unsafe = @ \/ ~ d], m)
           /\ \A b, c : Retains([m EXCEPT !.offloads = b, !.unsafe = c], m)
           /\ Retains([m EXCEPT !.unsafe = TRUE], m)
           /\ Retains([m EXCEPT !.unsafe = TRUE, !.active = 0], m)
           /\ \A i : Retains(Without(m, i), m)
           /\ \A i, x : Retains([Without(m, i) EXCEPT !.previous = x], m)
           /\ \A i : Retains([m EXCEPT !.phase[i] = "draining"], m)
           /\ Retains(EmptyState, m)
  <1>1. ASSUME NEW n, n.art = m.art, n.phase = m.phase, n.active \in {m.active, 0}
        PROVE  Retains(n, m)
    BY <1>1, SpareFewer DEF Retains
  <1>2. /\ m.art \in [Ids -> OrNone(Artifacts)] /\ m.phase \in [Ids -> Phases]
        /\ m.active \in 0 .. MaxId
    BY StateParts
  <1>3. /\ Retains(m, m)
        /\ Retains(MarkUnsafe(m), m)
        /\ \A b : Retains([m EXCEPT !.offloads = b], m)
        /\ Retains([m EXCEPT !.offloads = TRUE], m)
        /\ Retains([m EXCEPT !.offloads = FALSE], m)
        /\ \A b, d : Retains([m EXCEPT !.offloads = b, !.unsafe = @ \/ ~ d], m)
        /\ \A b, c : Retains([m EXCEPT !.offloads = b, !.unsafe = c], m)
        /\ Retains([m EXCEPT !.unsafe = TRUE], m)
        /\ Retains([m EXCEPT !.unsafe = TRUE, !.active = 0], m)
    BY <1>1 DEF States, MarkUnsafe
  <1>4. Retains(Quarantined(m), m)
    <2>1. /\ Quarantined(m).art = m.art /\ Quarantined(m).active = 0
          /\ \A i \in Ids : Quarantined(m).phase[i] \in {"draining", m.phase[i]}
      BY DEF States, Quarantined
    <2> QED BY <2>1, SpareFewer DEF Retains
  <1>5. Retains(Deactivated(m), m)
    <2>1. /\ Deactivated(m).art = m.art /\ Deactivated(m).active = 0
          /\ \A i \in Ids : Deactivated(m).phase[i] \in {"draining", m.phase[i]}
      BY <1>2 DEF States, Deactivated
    <2> QED BY <2>1, SpareFewer DEF Retains
  <1>6. ASSUME NEW i
        PROVE  /\ Retains(Without(m, i), m)
               /\ \A x : Retains([Without(m, i) EXCEPT !.previous = x], m)
    <2>1. /\ Without(m, i).active = m.active
          /\ \A j \in Ids : Without(m, i).art[j] \in {None, m.art[j]}
          /\ \A j \in Ids : j # i => Without(m, i).phase[j] = m.phase[j]
          /\ i \in Ids => Without(m, i).art[i] = None
      BY <1>2 DEF States, Without
    <2>2. ASSUME NEW x
          PROVE  LET n == [Without(m, i) EXCEPT !.previous = x] IN
                     n.art = Without(m, i).art /\ n.phase = Without(m, i).phase
                     /\ n.active = Without(m, i).active
      BY DEF States, Without
    <2>3. ASSUME NEW n, n.art = Without(m, i).art, n.phase = Without(m, i).phase,
                 n.active = Without(m, i).active
          PROVE  Retains(n, m)
      BY <2>1, <2>3, SpareFewer DEF Retains
    <2> QED BY <2>2, <2>3
  <1>7. ASSUME NEW i
        PROVE  Retains([m EXCEPT !.phase[i] = "draining"], m)
    <2> DEFINE n == [m EXCEPT !.phase[i] = "draining"]
    <2>1. /\ n.art = m.art /\ n.active = m.active
          /\ \A j \in Ids : n.phase[j] \in {"draining", m.phase[j]}
      BY <1>2 DEF States
    <2> HIDE DEF n
    <2>2. Retains(n, m)
      BY <2>1, SpareFewer DEF Retains
    <2> QED BY <2>2 DEF n
  <1>8. Retains(EmptyState, m)
    BY DEF EmptyState, Retains, Spare, Retained, Has
  <1> QED BY <1>3, <1>4, <1>5, <1>6, <1>7, <1>8

LEMMA RetainsTransitive ==
    ASSUME NEW l, NEW m, NEW n, Retains(n, m), Retains(m, l)
    PROVE  Retains(n, l)
  BY DEF Retains

\* An activation only gives rules.
LEMMA SpareActivated ==
    ASSUME NEW m \in States, NEW i
    PROVE  /\ Spare(Activated(m, i)) \subseteq Spare(m)
           /\ Spare([Activated(m, i) EXCEPT !.unsafe = FALSE]) \subseteq Spare(m)
  <1>1. /\ Activated(m, i).art = m.art
        /\ \A j \in Ids : Activated(m, i).phase[j] \in {"active", "draining", m.phase[j]}
    BY DEF States, Activated
  <1>2. /\ [Activated(m, i) EXCEPT !.unsafe = FALSE].art = Activated(m, i).art
        /\ [Activated(m, i) EXCEPT !.unsafe = FALSE].phase = Activated(m, i).phase
    BY DEF States, Activated
  <1> QED BY <1>1, <1>2, SpareFewer

LEMMA SparePrepared ==
    ASSUME NEW m \in States, NEW i \in Ids, NEW a \in Artifacts
    PROVE  Spare(Prepared(m, i, a)) \subseteq Spare(m) \cup {i} /\ Prepared(m, i, a).active = m.active
  BY DEF States, Prepared, Spare, Live, Retained, Has

LEMMA SpareDrained ==
    ASSUME NEW m \in States, NEW i, NEW p
    PROVE  /\ Spare([m EXCEPT !.phase[i] = p]) \subseteq Spare(m) \cup {i}
           /\ [m EXCEPT !.phase[i] = p].active = m.active
  BY DEF States, Spare, Live, Retained, Has
-----------------------------------------------------------------------------
\* Memory, the file and the table, whatever the step

MemoryBack == Restoring /\ Retains(mem', op.saved) /\ (pc = "gc_program" => disk' = disk)
MemoryLoads == pc = "start_load" /\ disk # NoFile /\ mem' = disk /\ disk' = disk
Activates == pc' = "act_persist" /\ Spare(mem') \subseteq Spare(mem)
MakesOne ==
    /\ pc' \in {"prep_persist", "rollback_persist"}
    /\ Spare(mem') \subseteq Spare(mem) \cup {op'.id} /\ mem'.active = mem.active
DrainsOne(c) ==
    /\ DrainFinish(c) /\ Unchanged(pend[c]) /\ ~ pend[c].live
    /\ Spare(mem') \subseteq Spare(mem) \cup {pend[c].id} /\ mem'.active = mem.active

PhaseMoves ==
    \/ Retains(mem', mem) \/ MemoryBack \/ MemoryLoads \/ Activates \/ MakesOne
    \/ \E c \in Clients : DrainsOne(c)

LEMMA ActivateLockedRetains ==
    ASSUME mem \in States, NEW id, NEW repair, ActivateLocked(id, repair)
    PROVE  Retains(mem', mem) \/ Activates
  <1>1. \/ mem' = mem
        \/ /\ pc' = "act_persist"
           /\ mem' \in {Activated(mem, id), [Activated(mem, id) EXCEPT !.unsafe = FALSE]}
    BY ActivateLockedShape
  <1> QED BY <1>1, RetainsKept, SpareActivated DEF Activates

LEMMA PhaseRequest ==
    ASSUME TypeOK, LoadInv, Request
    PROVE  PhaseMoves
  <1> USE DEF PhaseMoves
  <1>0. mem \in States
    BY StateTypes
  <1>1. ASSUME NEW a \in Artifacts, Prepare(a)
        PROVE  Retains(mem', mem) \/ MakesOne
    <2> DEFINE id == NextGeneration(mem, IF latched THEN Reserve(mem, Counts) ELSE reserved)
    <2>1. \/ mem' = mem
          \/ /\ mem' = Prepared(mem, id, a) /\ id # 0 /\ pc' = "prep_persist"
             /\ op' = [NoOp EXCEPT !.kind = "prepare", !.id = id, !.repair = latched, !.epoch = epoch]
      BY <1>1 DEF Prepare
    <2>2. id # 0 => id \in Ids
      BY NextGenerationFree
    <2>3. op' = [NoOp EXCEPT !.kind = "prepare", !.id = id, !.repair = latched, !.epoch = epoch] => op'.id = id
      BY DEF NoOp
    <2> HIDE DEF id
    <2>4. CASE mem' = mem
      BY <1>0, <2>4, RetainsKept
    <2>5. CASE mem' # mem
      <3>1. Spare(mem') \subseteq Spare(mem) \cup {id} /\ mem'.active = mem.active
        BY <1>0, <2>1, <2>2, <2>5, SparePrepared
      <3> QED BY <2>1, <2>3, <2>5, <3>1 DEF MakesOne
    <2> QED BY <2>4, <2>5
  <1>2. ASSUME NEW a \in Artifacts, ActivateForNewConnections(a) \/ Rollback(a)
        PROVE  Retains(mem', mem) \/ Activates
    <2>1. PICK id, repair : ActivateLocked(id, repair)
      BY <1>2 DEF ActivateForNewConnections, Rollback
    <2> QED BY <1>0, <2>1, ActivateLockedRetains
  <1>3. ASSUME NEW a \in Artifacts, DeactivateForNewConnections(a)
        PROVE  Retains(mem', mem)
    BY <1>0, <1>3, RetainsKept DEF DeactivateForNewConnections
  <1> QED BY <1>0, <1>1, <1>2, <1>3, LooksStep, RetainsKept DEF Request

LEMMA PhasePending ==
    ASSUME TypeOK, LoadInv, Pending
    PROVE  PhaseMoves
  <1> USE DEF PhaseMoves
  <1>0. mem \in States
    BY StateTypes
  <1>1. ASSUME NEW c \in Clients, RollbackCountFails(c)
        PROVE  Retains(mem', mem)
    BY <1>0, <1>1, RetainsKept DEF RollbackCountFails
  <1>2. ASSUME NEW c \in Clients, DrainFinish(c)
        PROVE  Retains(mem', mem) \/ DrainsOne(c)
    <2> DEFINE i == pend[c].id
    <2>1. \/ mem' = mem
          \/ Unchanged(pend[c]) /\ pend[c].live /\ mem' = [mem EXCEPT !.phase[i] = "draining"]
          \/ Unchanged(pend[c]) /\ ~ pend[c].live /\ mem' = [mem EXCEPT !.phase[i] = "drained"]
      BY <1>2 DEF DrainFinish, DrainPhase
    <2> HIDE DEF i
    <2>2. CASE mem' = mem \/ mem' = [mem EXCEPT !.phase[i] = "draining"]
      BY <1>0, <2>2, RetainsKept
    <2>3. CASE Unchanged(pend[c]) /\ ~ pend[c].live /\ mem' = [mem EXCEPT !.phase[i] = "drained"]
      BY <1>0, <1>2, <2>3, SpareDrained DEF DrainsOne, i
    <2> QED BY <2>1, <2>2, <2>3
  <1>3. ASSUME NEW c \in Clients, GcFinish(c)
        PROVE  Retains(mem', mem)
    <2> DEFINE i == pend[c].id
    <2>1. \/ mem' = mem
          \/ mem' = [Without(mem, i) EXCEPT !.previous = IF @ = i THEN 0 ELSE @]
      BY <1>3 DEF GcFinish
    <2> HIDE DEF i
    <2>2. mem' # mem => \E x : mem' = [Without(mem, i) EXCEPT !.previous = x]
      BY <2>1
    <2>3. CASE mem' = mem
      BY <1>0, <2>3, RetainsKept
    <2>4. CASE mem' # mem
      <3>1. PICK x : mem' = [Without(mem, i) EXCEPT !.previous = x]
        BY <2>2, <2>4
      <3>2. Retains([Without(mem, i) EXCEPT !.previous = x], mem)
        BY <1>0, RetainsKept
      <3> QED BY <3>1, <3>2
    <2> QED BY <2>3, <2>4
  <1>4. ASSUME NEW c \in Clients, RollbackFinish(c)
        PROVE  Retains(mem', mem) \/ Activates \/ MakesOne
    <2> DEFINE r == pend[c]
               id == NextGeneration(mem, Reserve(mem, r.ids))
    <2>1. /\ r.kind = "rollback"
          /\ \/ mem' = mem
             \/ \E i : ActivateLocked(i, TRUE)
             \/ /\ mem' = Prepared(mem, id, r.art) /\ id # 0 /\ pc' = "rollback_persist"
                /\ op' = [NoOp EXCEPT !.kind = "rollback", !.id = id]
      BY <1>4 DEF RollbackFinish
    <2>2. id # 0 => id \in Ids
      BY NextGenerationFree
    <2>3. r.art \in Artifacts
      BY <2>1, LoadParts DEF Asked
    <2>4. op' = [NoOp EXCEPT !.kind = "rollback", !.id = id] => op'.id = id
      BY DEF NoOp
    <2> HIDE DEF id, r
    <2>5. CASE mem' = mem
      BY <1>0, <2>5, RetainsKept
    <2>6. ASSUME NEW i, ActivateLocked(i, TRUE)
          PROVE  Retains(mem', mem) \/ Activates
      BY <1>0, <2>6, ActivateLockedRetains
    <2>7. CASE /\ mem' = Prepared(mem, id, r.art) /\ id # 0 /\ pc' = "rollback_persist"
               /\ op' = [NoOp EXCEPT !.kind = "rollback", !.id = id]
      <3>1. Spare(mem') \subseteq Spare(mem) \cup {id} /\ mem'.active = mem.active
        BY <1>0, <2>2, <2>3, <2>7, SparePrepared
      <3> QED BY <2>4, <2>7, <3>1 DEF MakesOne
    <2> QED BY <2>1, <2>5, <2>6, <2>7
  <1> QED BY <1>0, <1>1, <1>2, <1>3, <1>4, LooksStep, RetainsKept DEF Pending

LEMMA PhaseRestored ==
    ASSUME TypeOK
    PROVE  /\ Retains(Restored, op.saved)
           /\ Retains([Restored EXCEPT !.unsafe = MarkUnsafe(mem).unsafe], op.saved)
           /\ \A durable : RestoreState(durable) => Retains(mem', op.saved)
  <1>0. op.saved \in States
    BY StateTypes
  <1>1. ASSUME NEW u
        PROVE  Retains([Restored EXCEPT !.unsafe = u], op.saved)
    <2>1. Restored = [op.saved EXCEPT !.offloads = mem.offloads, !.unsafe = mem.unsafe]
      BY DEF Restored
    <2>2. [Restored EXCEPT !.unsafe = u] = [op.saved EXCEPT !.offloads = mem.offloads, !.unsafe = u]
      BY <1>0, <2>1 DEF States
    <2> QED BY <1>0, <2>2, RetainsKept
  <1>2. Retains([Restored EXCEPT !.unsafe = MarkUnsafe(mem).unsafe], op.saved)
    BY <1>1
  <1>3. Retains(Restored, op.saved)
    <2>1. Restored = [op.saved EXCEPT !.offloads = mem.offloads, !.unsafe = mem.unsafe]
      BY DEF Restored
    <2>2. Restored.art = op.saved.art /\ Restored.phase = op.saved.phase /\ Restored.active = op.saved.active
      BY <1>0, <2>1 DEF States
    <2> QED BY <2>2, SpareFewer DEF Retains
  <1>4. ASSUME NEW durable, RestoreState(durable)
        PROVE  Retains(mem', op.saved)
    <2>1. mem' = [op.saved EXCEPT !.offloads = mem.offloads, !.unsafe = @ \/ ~ durable]
      BY <1>4 DEF RestoreState
    <2>2. mem'.art = op.saved.art /\ mem'.phase = op.saved.phase /\ mem'.active = op.saved.active
      BY <1>0, <2>1 DEF States
    <2> QED BY <2>2, SpareFewer DEF Retains
  <1> QED BY <1>2, <1>3, <1>4

LEMMA PhaseLocked ==
    ASSUME TypeOK, DurableInv, LoadInv,
           PrepareStep \/ ActivateStep \/ CompensationStep \/ DeactivateStep \/ CollectStep \/ ReconcileStep
    PROVE  PhaseMoves
  <1> USE DEF PhaseMoves
  <1>0. mem \in States /\ MarkUnsafe(mem) \in States
    BY StateTypes, MarkUnsafeType
  <1>1. CASE PrepareStep
    <2>1. mem' \in {mem, Without(mem, op.id), Without(MarkUnsafe(mem), op.id)}
      BY <1>1 DEF PrepareStep, PrepareInterrupted, PreparePersists, PreparePersistFails, Unprepare
    <2>2. /\ Retains(mem, mem) /\ Retains(Without(mem, op.id), mem) /\ Retains(MarkUnsafe(mem), mem)
          /\ Retains(Without(MarkUnsafe(mem), op.id), MarkUnsafe(mem))
      BY <1>0, RetainsKept
    <2>3. Retains(Without(MarkUnsafe(mem), op.id), mem)
      BY <2>2, RetainsTransitive
    <2>4. Retains(mem', mem)
      BY <2>1, <2>2, <2>3
    <2> QED BY <2>4
  <1>2. CASE ActivateStep
    <2>1. CASE RollbackActivate
      <3>1. mem' = mem \/ \E i : ActivateLocked(i, TRUE)
        BY <2>1 DEF RollbackActivate
      <3> QED BY <1>0, <3>1, RetainsKept, ActivateLockedRetains
    <2>2. CASE ActivatePersistFails \/ TransactionFails \/ SweepFails
      <3>1. pc \in ActingPcs /\ \E durable : RestoreState(durable)
        BY <2>2 DEF ActivatePersistFails, TransactionFails, SweepFails, ActingPcs
      <3> QED BY <3>1, PhaseRestored DEF MemoryBack, Restoring, Activating, ActingPcs
    <2>3. CASE ActivatePersists \/ StageInstalls \/ SweepSucceeds \/ FlipInstalls \/ ActivateDone
      BY <1>0, <2>3, RetainsKept DEF ActivatePersists, StageInstalls, SweepSucceeds, FlipInstalls, ActivateDone
    <2> QED BY <1>2, <2>1, <2>2, <2>3 DEF ActivateStep
  <1>3. CASE CompensationStep \/ ReconcileStep
    <2>1. mem' \in {mem, MarkUnsafe(mem), Quarantined(mem)}
      BY <1>3
         DEF CompensationStep, UnwindPersists, CompensationInstalls, CompensationInstallFails,
             CompensationPersists, CompensationPersistFails, CompensationDone, IntegrityFailureLocked,
             ReconcileStep, ReconcileInstalls, ReconcileInstallFails,
             ReconcilePersists, ReconcilePersistFails
    <2> QED BY <1>0, <2>1, RetainsKept
  <1>4. CASE DeactivateStep
    <2>1. /\ pc \in DeactivationPcs
          /\ mem' \in {mem, Restored, [Restored EXCEPT !.unsafe = MarkUnsafe(mem).unsafe]}
      BY <1>4
         DEF DeactivateStep, DeactivatePersists, DeactivatePersistFails, DeactivateInstalls,
             DeactivateInstallFails, DeactivationPcs
    <2>2. pc # "gc_program"
      BY <2>1 DEF DeactivationPcs
    <2> QED BY <1>0, <2>1, <2>2, RetainsKept, PhaseRestored DEF MemoryBack, Restoring, Deactivating
  <1>5. CASE CollectStep
    <2>1. CASE GcInstallFails
      BY <2>1, PhaseRestored DEF GcInstallFails, MemoryBack, Restoring
    <2>2. CASE ~ GcInstallFails
      <3>1. mem' \in {mem, MarkUnsafe(mem)}
        BY <1>5, <2>2 DEF CollectStep, DrainPersists, DrainPersistFails, GcInstalls
      <3> QED BY <1>0, <3>1, RetainsKept
    <2> QED BY <2>1, <2>2
  <1> QED BY <1>1, <1>2, <1>3, <1>4, <1>5

LEMMA PhaseOffloadStep ==
    ASSUME TypeOK, DurableInv, OffloadStep
    PROVE  PhaseMoves
  <1> USE DEF PhaseMoves
  <1>0. mem \in States /\ MarkUnsafe(mem) \in States /\ op.saved \in States
    BY StateTypes, MarkUnsafeType
  <1>1. ASSUME NEW m, Retains(m, mem), NEW durable, OffloadsFailed(m, durable), pc \in ClaimPcs
        PROVE  Retains(mem', mem) \/ MemoryBack
    <2>1. CASE op.kind = "start"
      BY <1>1, <2>1 DEF OffloadsFailed
    <2>2. CASE op.kind # "start"
      <3>1. mem' = [op.saved EXCEPT !.offloads = m.offloads, !.unsafe = @ \/ ~ durable]
        BY <1>1, <2>2 DEF OffloadsFailed
      <3>2. Activating /\ pc # "gc_program"
        BY <1>1, <2>2, OperationKnown DEF Activating, ClaimPcs
      <3> QED BY <1>0, <3>1, <3>2, RetainsKept DEF MemoryBack, Restoring
    <2> QED BY <2>1, <2>2
  <1>2. CASE OffloadsCallFails \/ UnclaimPersists \/ ClaimPersistFails \/ UnclaimPersistFails
    <2>1. /\ pc \in ClaimPcs
          /\ \E m \in {mem, MarkUnsafe(mem), [MarkUnsafe(mem) EXCEPT !.offloads = FALSE]}, durable \in BOOLEAN :
                OffloadsFailed(m, durable)
      BY <1>2 DEF OffloadsCallFails, UnclaimPersists, ClaimPersistFails, UnclaimPersistFails,
                 ClaimPcs, TypeOK, FlagTypeOK
    <2>2. Retains([MarkUnsafe(mem) EXCEPT !.offloads = FALSE], mem)
      BY <1>0, RetainsKept, RetainsTransitive
    <2>3. \A m \in {mem, MarkUnsafe(mem), [MarkUnsafe(mem) EXCEPT !.offloads = FALSE]} : Retains(m, mem)
      BY <1>0, <2>2, RetainsKept
    <2> QED BY <1>1, <2>1, <2>3
  <1>3. CASE /\ OffloadStep
             /\ ~ (OffloadsCallFails \/ UnclaimPersists \/ ClaimPersistFails \/ UnclaimPersistFails)
    <2>1. mem' \in {mem, [mem EXCEPT !.offloads = TRUE], [mem EXCEPT !.offloads = FALSE], MarkUnsafe(mem)}
      BY <1>3
         DEF OffloadStep, OffloadsDown, OffloadsCapture, ClaimPersists, DisableSucceeds,
             DisableFails, RestoreNothing, RestoreCall, RestorePersists, RestorePersistFails
    <2> QED BY <1>0, <2>1, RetainsKept
  <1> QED BY <1>2, <1>3

LEMMA PhaseStartStep ==
    ASSUME TypeOK, StartStep
    PROVE  PhaseMoves
  <1> USE DEF PhaseMoves
  <1>0. mem \in States
    BY StateTypes
  <1>1. CASE StartAudits
    <2>1. [mem EXCEPT !.unsafe = TRUE, !.active = 0] \in States
      BY AuditedType
    <2>2. PICK m \in {mem, [mem EXCEPT !.unsafe = TRUE, !.active = 0]} : mem' \in {m, Quarantined(m)}
      BY <1>1 DEF StartAudits
    <2>3. m \in States /\ Retains(m, mem)
      BY <1>0, <2>1, RetainsKept
    <2>4. Retains(m, m) /\ Retains(Quarantined(m), m)
      BY <2>3, RetainsKept
    <2>5. Retains(mem', m)
      BY <2>2, <2>4
    <2>6. Retains(mem', mem)
      BY <2>3, <2>5, RetainsTransitive
    <2> QED BY <2>6
  <1>2. CASE StartAuditFails
    <2>1. /\ mem'.art = mem.art /\ mem'.active = 0
          /\ \A i \in Ids : mem'.phase[i] = IF mem.phase[i] = "active" THEN "draining" ELSE mem.phase[i]
      BY <1>0, <1>2 DEF StartAuditFails, States
    <2> QED BY <2>1, SpareFewer DEF Retains
  <1>3. CASE StartQuarantines
    <2>1. PICK b : mem' = [EmptyState EXCEPT !.unsafe = TRUE, !.offloads = b]
      BY <1>3 DEF StartQuarantines
    <2>2. mem'.active = 0 /\ \A i \in Ids : mem'.art[i] = None
      BY <2>1 DEF EmptyState
    <2> QED BY <2>2 DEF Retains, Spare, Retained, Has
  <1>4. CASE StartQuarantineFails
    <2>1. PICK b : mem' = [mem EXCEPT !.offloads = b]
      BY <1>4 DEF StartQuarantineFails
    <2> QED BY <1>0, <2>1, RetainsKept
  <1>5. CASE StartLoads
    BY <1>0, <1>5, RetainsKept DEF StartLoads, MemoryLoads
  <1>6. CASE \/ StartRemoves \/ StartPersists \/ StartPersistFails \/ StartInstallsBoundary
             \/ StartFlips \/ StartPrograms \/ StartProgramsUngated \/ StartFails
    <2>1. mem' \in {mem, MarkUnsafe(mem)}
      BY <1>6
         DEF StartRemoves, StartPersists, StartPersistFails, StartInstallsBoundary,
             StartFlips, StartPrograms, StartProgramsUngated, StartFails
    <2> QED BY <1>0, <2>1, RetainsKept
  <1> QED BY <1>1, <1>2, <1>3, <1>4, <1>5, <1>6 DEF StartStep

LEMMA PhaseStep ==
    ASSUME TypeOK, DurableInv, LoadInv, [Next]_vars
    PROVE  PhaseMoves
  <1>0. mem \in States
    BY StateTypes
  <1>1. CASE Kernel \/ UNCHANGED vars \/ IntegrityFailure \/ ReconcileStart \/ ReconcileEnd
    BY <1>0, <1>1, LooksStep, RetainsKept DEF PhaseMoves
  <1>2. CASE CloseStep \/ Crash \/ ReconcileBegin \/ Boot \/ Shutdown
    <2>1. mem' \in {mem, EmptyState, Quarantined(mem)}
      BY <1>2 DEF CloseStep, CloseRemoves, CloseFails, Exit, Crash, ProcessGone, ReconcileBegin, Boot, Shutdown
    <2> QED BY <1>0, <2>1, RetainsKept DEF PhaseMoves
  <1> QED BY <1>1, <1>2, PhaseRequest, PhasePending, PhaseLocked, PhaseOffloadStep, PhaseStartStep
          DEF Next, LockedStep

-----------------------------------------------------------------------------
\* The file, the copy an operation may return to, and the assignment

ReadPcs == {"act_persist", "deact_persist", "gc_program"}

\* The file is written from memory, or set aside when it does not load.
LEMMA WritesStep ==
    ASSUME TypeOK, [Next]_vars, disk' # disk
    PROVE  pc' \notin ReadPcs /\ (disk' = mem \/ (pc = "start_load" /\ disk' = NoFile))
  <1> USE DEF Persists, PersistFails, ReadPcs
  <1>1. CASE Kernel \/ UNCHANGED vars \/ IntegrityFailure \/ ReconcileStart \/ ReconcileEnd
    BY <1>1, LooksStep
  <1>2. CASE Request
    BY <1>2, LooksStep
       DEF Request, Prepare, ActivateForNewConnections, Rollback, ActivateFrame,
           DeactivateForNewConnections
  <1>3. CASE Pending
    BY <1>3, LooksStep DEF Pending, RollbackCountFails, DrainFinish, GcFinish, RollbackFinish
  <1>4. CASE PrepareStep \/ ActivateStep
    BY <1>4
       DEF PrepareStep, PrepareInterrupted, PreparePersists, PreparePersistFails,
           ActivateStep, RollbackActivate, ActivatePersists, ActivatePersistFails,
           StageInstalls, SweepSucceeds, FlipInstalls, TransactionFails, SweepFails, ActivateDone,
           ActivateFrame, GoTo, Return
  <1>5. CASE OffloadStep
    <2>1. ASSUME NEW m, NEW durable, OffloadsFailed(m, durable)
          PROVE  pc' \in {"close_rules", "act_unwind"}
      BY <2>1 DEF OffloadsFailed, GoTo
    <2>2. ASSUME NEW failed, RestoreReturns(failed)
          PROVE  pc' \in {"idle", "gc_persist", "close_rules", "exit", "comp_done"}
      BY <2>2 DEF RestoreReturns, AfterRestore
    <2> QED BY <1>5, <2>1, <2>2
       DEF OffloadStep, OffloadsDown, OffloadsCapture, OffloadsCallFails, ClaimPersists,
           ClaimPersistFails, DisableSucceeds, DisableFails, UnclaimPersists, UnclaimPersistFails,
           RestoreNothing, RestoreCall, RestorePersists, RestorePersistFails, GoTo
  <1>6. CASE CompensationStep \/ DeactivateStep \/ CollectStep
    BY <1>6
       DEF CompensationStep, UnwindPersists, CompensationInstalls, CompensationInstallFails,
           CompensationPersists, CompensationPersistFails, CompensationDone, IntegrityFailureLocked,
           DeactivateStep, DeactivatePersists, DeactivatePersistFails, DeactivateInstalls,
           DeactivateInstallFails, CollectStep, DrainPersists, DrainPersistFails, GcInstalls,
           GcInstallFails, GoTo, Return, AfterCompensation
  <1>7. CASE ReconcileStep
    <2>1. op.back \in {"idle", "close_rules", "exit"}
      BY OpParts DEF TypeOK, ControlTypeOK
    <2> QED BY <1>7, <2>1
       DEF ReconcileStep, ReconcileInstalls, ReconcileInstallFails, ReconcilePersists,
           ReconcilePersistFails, ReconcileReturn
  <1>8. CASE StartStep \/ CloseStep \/ Crash
    BY <1>8
       DEF StartStep, StartRemoves, StartLoads, StartQuarantines, StartQuarantineFails,
           StartAudits, StartAuditFails, StartPersists, StartPersistFails, StartInstallsBoundary,
           StartFlips, StartPrograms, StartProgramsUngated, StartFails, CloseStep, CloseRemoves,
           CloseFails, Exit, Crash, ProcessGone, GoTo, Abandon, StartPath
  <1>9. CASE ReconcileBegin \/ Boot \/ Shutdown
    BY <1>9 DEF ReconcileBegin, Boot, Shutdown
  <1> QED BY <1>1, <1>2, <1>3, <1>4, <1>5, <1>6, <1>7, <1>8, <1>9 DEF Next, LockedStep

\* An activation's durable intent is recorded, or it is over.
LEMMA IntentStep ==
    ASSUME [Next]_vars, pc = "act_persist"
    PROVE  \/ UNCHANGED <<pc, op, mem, disk>>
           \/ pc' = "offload" /\ mem' = mem /\ disk' = mem
           \/ pc' = "idle" /\ mem'.active \in {op.saved.active, 0}
           \/ pc' = "down" /\ mem'.active = 0
  <1>1. CASE Kernel \/ UNCHANGED vars \/ IntegrityFailure \/ ReconcileStart \/ ReconcileEnd
    BY <1>1, LooksStep
  <1>2. CASE Request \/ Pending
    BY <1>2, LooksStep
       DEF Request, Prepare, ActivateForNewConnections, Rollback, DeactivateForNewConnections,
           MayRequest, Idle, Pending, RollbackCountFails, DrainFinish, GcFinish, RollbackFinish
  <1>3. CASE ActivateStep
    <2>1. CASE ActivatePersistFails
      BY <2>1 DEF ActivatePersistFails, RestoreState, Return
    <2> QED BY <1>3, <2>1
       DEF ActivateStep, RollbackActivate, ActivatePersists, Persists, GoTo,
           StageInstalls, SweepSucceeds, FlipInstalls, TransactionFails, SweepFails, ActivateDone
  <1>4. CASE Exit \/ Crash
    BY <1>4 DEF Exit, Crash, ProcessGone, EmptyState
  <1> QED BY <1>1, <1>2, <1>3, <1>4
       DEF Next, LockedStep, PrepareStep, PrepareInterrupted, PreparePersists, PreparePersistFails,
           OffloadStep, OffloadsDown, OffloadsCapture, OffloadsCallFails, ClaimPersists,
           ClaimPersistFails, DisableSucceeds, DisableFails, UnclaimPersists, UnclaimPersistFails,
           RestoreNothing, RestoreCall, RestorePersists, RestorePersistFails,
           CompensationStep, UnwindPersists, CompensationInstalls, CompensationInstallFails,
           CompensationPersists, CompensationPersistFails, CompensationDone, IntegrityFailureLocked,
           DeactivateStep, DeactivatePersists, DeactivatePersistFails, DeactivateInstalls,
           DeactivateInstallFails, CollectStep, DrainPersists, DrainPersistFails, GcInstalls,
           GcInstallFails, ReconcileStep, ReconcileInstalls, ReconcileInstallFails,
           ReconcilePersists, ReconcilePersistFails, StartStep, StartRemoves, StartLoads,
           StartQuarantines, StartQuarantineFails, StartAudits, StartAuditFails, StartPersists,
           StartPersistFails, StartInstallsBoundary, StartFlips, StartPrograms,
           StartProgramsUngated, StartFails, CloseStep, CloseRemoves, CloseFails,
           ReconcileBegin, Boot, Shutdown, Idle

\* A deactivation, until its transaction.
LEMMA DeactivatingStep ==
    ASSUME TypeOK, [Next]_vars, Deactivating'
    PROVE  \/ Deactivating /\ UNCHANGED <<op, mem>>
           \/ /\ pc = "idle" /\ UNCHANGED disk
              /\ mem.active # 0 /\ mem' = Deactivated(mem) /\ op'.saved = mem
  <1> USE DEF Deactivating, DeactivationPcs
  <1>1. CASE Kernel \/ UNCHANGED vars \/ IntegrityFailure \/ ReconcileStart \/ ReconcileEnd
    BY <1>1, LooksStep
  <1>2. CASE Request
    <2>1. ASSUME NEW a \in Artifacts, DeactivateForNewConnections(a)
          PROVE  /\ pc = "idle" /\ UNCHANGED disk
                 /\ mem.active # 0 /\ mem' = Deactivated(mem) /\ op'.saved = mem
      BY <2>1 DEF DeactivateForNewConnections, MayRequest, Idle, NoOp
    <2>2. ASSUME NEW a \in Artifacts, ActivateForNewConnections(a) \/ Rollback(a)
          PROVE  FALSE
      <3>1. \E i, repair : ActivateLocked(i, repair)
        BY <2>2 DEF ActivateForNewConnections, Rollback
      <3> QED BY <3>1, ActivateLockedSaves
    <2> QED BY <1>2, <2>1, <2>2, LooksStep DEF Request, Prepare, MayRequest, Idle
  <1>3. CASE Pending
    <2>1. ASSUME NEW c \in Clients, RollbackFinish(c)
          PROVE  FALSE
      <3>1. pc = "idle" /\ (UNCHANGED pc \/ pc' = "rollback_persist" \/ \E i : ActivateLocked(i, TRUE))
        BY <2>1 DEF RollbackFinish, Idle
      <3> QED BY <3>1, ActivateLockedSaves
    <2>2. ASSUME NEW c \in Clients, DrainFinish(c) \/ GcFinish(c) \/ RollbackCountFails(c)
          PROVE  FALSE
      BY <2>2 DEF DrainFinish, GcFinish, RollbackCountFails, Idle
    <2> QED BY <1>3, <2>1, <2>2, LooksStep DEF Pending
  <1>4. CASE PrepareStep \/ ActivateStep
    <2>1. CASE RollbackActivate
      <3>1. pc' = "idle" \/ \E i : ActivateLocked(i, TRUE)
        BY <2>1 DEF RollbackActivate, Return
      <3> QED BY <3>1, ActivateLockedSaves
    <2> QED BY <1>4, <2>1
       DEF PrepareStep, PrepareInterrupted, PreparePersists, PreparePersistFails,
           ActivateStep, ActivatePersists, ActivatePersistFails, StageInstalls, SweepSucceeds,
           FlipInstalls, TransactionFails, SweepFails, ActivateDone, GoTo, Return
  <1>5. CASE OffloadStep
    <2>1. ASSUME NEW m, NEW durable, OffloadsFailed(m, durable)
          PROVE  pc' \in {"close_rules", "act_unwind"}
      BY <2>1 DEF OffloadsFailed, GoTo
    <2>2. ASSUME NEW failed, RestoreReturns(failed)
          PROVE  pc' \in {"idle", "gc_persist", "close_rules", "exit", "comp_done"}
      BY <2>2 DEF RestoreReturns, AfterRestore
    <2> QED BY <1>5, <2>1, <2>2
       DEF OffloadStep, OffloadsDown, OffloadsCapture, OffloadsCallFails, ClaimPersists,
           ClaimPersistFails, DisableSucceeds, DisableFails, UnclaimPersists, UnclaimPersistFails,
           RestoreNothing, RestoreCall, RestorePersists, RestorePersistFails, OffloadsDone, GoTo,
           StartPath
  <1>6. CASE CompensationStep \/ CollectStep
    BY <1>6
       DEF CompensationStep, UnwindPersists, CompensationInstalls, CompensationInstallFails,
           CompensationPersists, CompensationPersistFails, CompensationDone, IntegrityFailureLocked,
           CollectStep, DrainPersists, DrainPersistFails, GcInstalls,
           GcInstallFails, GoTo, Return, AfterOldTable, AfterCompensation, AfterCollection
  <1>7. CASE DeactivateStep
    BY <1>7
       DEF DeactivateStep, DeactivatePersists, DeactivatePersistFails, DeactivateInstalls,
           DeactivateInstallFails, GoTo, Return
  <1>8. CASE ReconcileStep
    <2>1. op.back \in {"idle", "close_rules", "exit"}
      BY OpParts DEF TypeOK, ControlTypeOK
    <2> QED BY <1>8, <2>1
       DEF ReconcileStep, ReconcileInstalls, ReconcileInstallFails, ReconcilePersists,
           ReconcilePersistFails, ReconcileReturn, GoTo
  <1>9. CASE StartStep \/ CloseStep \/ Crash \/ ReconcileBegin \/ Boot \/ Shutdown
    BY <1>9
       DEF StartStep, StartRemoves, StartLoads, StartQuarantines, StartQuarantineFails,
           StartAudits, StartAuditFails, StartPersists, StartPersistFails, StartInstallsBoundary,
           StartFlips, StartPrograms, StartProgramsUngated, StartFails, GoTo, Return, Abandon,
           StartPath, CloseStep, CloseRemoves, CloseFails, Exit, Crash, ProcessGone,
           ReconcileBegin, Boot, Shutdown
  <1> QED BY <1>1, <1>2, <1>3, <1>4, <1>5, <1>6, <1>7, <1>8, <1>9 DEF Next, LockedStep

\* An operation saves the memory that it found, and keeps that copy.
LEMMA RestoringStep ==
    ASSUME TypeOK, DurableInv, LoadInv, [Next]_vars, Restoring'
    PROVE  \/ Restoring /\ op' = op /\ (disk' # disk => disk' = mem)
           \/ pc # "act_persist" /\ op'.saved = mem /\ disk' = disk
  <1>0. (Activating \/ Deactivating) /\ disk' # disk => disk' = mem
    BY WritesStep DEF Activating, Deactivating, ActingPcs, ClaimPcs, DeactivationPcs
  <1>1. CASE Activating'
    <2>1. CASE pc' = "act_persist" /\ \E id, repair : ActivateLocked(id, repair)
      <3>1. UNCHANGED disk
        BY <2>1, WritesStep, IntentStep DEF ReadPcs
      <3>2. CASE pc = "act_persist"
        <4>1. op' = op
          BY <2>1, <3>2, IntentStep
        <4> QED BY <3>1, <3>2, <4>1 DEF Restoring, Activating, ActingPcs
      <3>3. CASE pc # "act_persist"
        BY <2>1, <3>1, <3>3, ActivateLockedShape
      <3> QED BY <3>2, <3>3
    <2>2. CASE Activating /\ op' = op
      BY <1>0, <2>2 DEF Restoring
    <2> QED BY <1>1, <2>1, <2>2, ActivatingStep
  <1>2. CASE Deactivating'
    BY <1>0, <1>2, DeactivatingStep DEF Restoring
  <1>3. CASE pc' = "gc_program"
    <2>1. UNCHANGED disk
      BY <1>3, WritesStep, CollectionStep DEF ReadPcs, Collects
    <2>2. CASE UNCHANGED <<pc, op>>
      BY <1>3, <2>1, <2>2 DEF Restoring
    <2>3. ASSUME NEW c \in Clients, Collects(c)
          PROVE  pc # "act_persist" /\ op'.saved = mem
      BY <2>3 DEF Collects
    <2> QED BY <1>3, <2>1, <2>2, <2>3, CollectionStep
  <1> QED BY <1>1, <1>2, <1>3 DEF Restoring

\* A step that gives the table an assignment takes it from memory or, in an
\* activation's first transaction, from the saved copy, and changes neither.
LEMMA AssignsStep ==
    ASSUME ~ CommitOnError, [Next]_vars
    PROVE  \/ rules'.active \in {rules.active, 0}
           \/ pc = "act_stage" /\ rules'.active = op.saved.active /\ UNCHANGED <<op, mem, disk>>
           \/ /\ pc # "act_persist" /\ rules'.active = mem.active /\ UNCHANGED <<mem, disk>>
              /\ ~ Restoring'
  <1> USE DEF kernelVars, Installs, InstallFails, NoRules, Program
  <1>1. CASE \/ Kernel \/ UNCHANGED vars \/ IntegrityFailure \/ ReconcileStart \/ ReconcileEnd
             \/ Request \/ Pending \/ PrepareStep
    <2>1. rules' = rules
      BY <1>1
       DEF Kernel, KernelNext, Syn, FlowEnd, FlowIdle, vars, IntegrityFailure, ReconcileStart, ReconcileEnd,
           Request, Prepare, PrepareGateFails, ActivateForNewConnections, Rollback,
           ActivateFrame, DeactivateForNewConnections, DrainBegin, GcList, RollbackBegin,
           RequestFrame,
           Pending, GcBegin, CountBegin, CountSucceeds, CountFails, RollbackCountFails,
           DrainFinish, GcFinish, RollbackFinish,
           PrepareStep, PrepareInterrupted, PreparePersists, PreparePersistFails
    <2> QED BY <2>1
  <1>2. CASE ActivateStep
    <2>1. CASE StageInstalls
      BY <2>1 DEF StageInstalls, StageTable, GoTo
    <2>2. CASE FlipInstalls
      BY <2>2 DEF FlipInstalls, FlipTable, GoTo, Restoring, Activating, Deactivating, ActingPcs,
                  ClaimPcs, DeactivationPcs
    <2> QED BY <1>2, <2>1, <2>2
       DEF ActivateStep, RollbackActivate, ActivateFrame, ActivatePersists, ActivatePersistFails,
           SweepSucceeds, TransactionFails, SweepFails, ActivateDone
  <1>3. CASE OffloadStep
    BY <1>3
       DEF OffloadStep, OffloadsDown, OffloadsCapture, OffloadsCallFails, ClaimPersists,
           ClaimPersistFails, DisableSucceeds, DisableFails, UnclaimPersists, UnclaimPersistFails,
           RestoreNothing, RestoreCall, RestorePersists, RestorePersistFails
  <1>4. CASE CompensationStep \/ DeactivateStep \/ CollectStep \/ ReconcileStep
    <2>1. CASE CompensationInstalls \/ GcInstalls
      BY <2>1 DEF CompensationInstalls, GcInstalls, OldTable, AfterOldTable, AfterCollection, GoTo,
                  Restoring, Activating, Deactivating, ActingPcs, ClaimPcs, DeactivationPcs
    <2> QED BY <1>4, <2>1
       DEF CompensationStep, UnwindPersists, CompensationInstallFails,
           CompensationPersists, CompensationPersistFails, CompensationDone, IntegrityFailureLocked,
           DeactivateStep, DeactivatePersists, DeactivatePersistFails, DeactivateInstalls,
           DeactivateInstallFails, CollectStep, DrainPersists, DrainPersistFails,
           GcInstallFails, ReconcileStep, ReconcileInstalls, ReconcileInstallFails,
           ReconcilePersists, ReconcilePersistFails
  <1>5. CASE StartStep \/ CloseStep \/ Crash \/ ReconcileBegin \/ Boot \/ Shutdown
    <2>1. CASE StartFlips \/ StartPrograms \/ StartProgramsUngated
      BY <2>1 DEF StartFlips, StartPrograms, StartProgramsUngated, GoTo, Return,
                  Restoring, Activating, Deactivating, ActingPcs, ClaimPcs, DeactivationPcs
    <2> QED BY <1>5, <2>1
       DEF StartStep, StartRemoves, StartLoads, StartQuarantines, StartQuarantineFails,
           StartAudits, StartAuditFails, StartPersists, StartPersistFails, StartInstallsBoundary,
           StartFails, CloseStep, CloseRemoves,
           CloseFails, Exit, Crash, ProcessGone, ReconcileBegin, Boot, Shutdown
  <1> QED BY <1>1, <1>2, <1>3, <1>4, <1>5 DEF Next, LockedStep
-----------------------------------------------------------------------------
\* The invariant is inductive

LEMMA AssignedLive ==
    ASSUME NEW m \in States, Loadable(m), m.active # 0
    PROVE  m.active \in Live(m) /\ m.active \in Ids
  BY DEF States, Loadable, Live, Retained, Has, Ids

LEMMA VacantKept ==
    ASSUME TypeOK, EngineInv, [Next]_vars, NEW i \in Ids, Vacant(i), rules'.active # i
    PROVE  Vacant(i)'
  BY FreeKept DEF Vacant, Free

\* The parts of the invariant that a step reads.
LEMMA PhaseParts ==
    ASSUME TypeOK, DurableInv, LoadInv, PhaseInv
    PROVE  /\ mem \in States /\ op.saved \in States /\ (disk # NoFile => disk \in States)
           /\ Loadable(mem) /\ Loadable(op.saved) /\ (disk # NoFile => Loadable(disk))
           /\ pc = "start_load" => mem.active = 0
           /\ \A m \in {mem, disk, op.saved} : Spare(m) \subseteq Ids /\ (\A i \in Spare(m) : i \notin Live(m))
           /\ \A i \in Spare(mem) : Vacant(i)
           /\ disk # NoFile => \A i \in Spare(disk) : Vacant(i)
           /\ Restoring => \A i \in Spare(op.saved) : Vacant(i)
           /\ pc # "act_persist" => Recoverable(mem.active)
           /\ Restoring => Recoverable(op.saved.active)
           /\ Activating \/ Deactivating => (op.saved.active # 0 => op.saved.active \in Live(mem))
  <1>1. mem \in States /\ op.saved \in States /\ (disk # NoFile => disk \in States)
    BY StateTypes DEF TypeOK, StateTypeOK
  <1>2. Loadable(mem) /\ Loadable(op.saved) /\ (disk # NoFile => Loadable(disk))
    BY LoadParts DEF Sound
  <1>3. pc = "start_load" => mem.active = 0
    <2>1. pc = "start_load" => \A i \in Ids : mem.art[i] = None
      BY DEF DurableInv, StepOfOperation
    <2>2. mem.active # 0 => mem.active \in Ids /\ Has(mem, mem.active)
      BY <1>1, <1>2, AssignedLive DEF Live, Retained
    <2> QED BY <2>1, <2>2 DEF Has
  <1>4. \A m \in {mem, disk, op.saved} : Spare(m) \subseteq Ids /\ (\A i \in Spare(m) : i \notin Live(m))
    BY DEF Spare, Retained
  <1> QED BY <1>1, <1>2, <1>3, <1>4 DEF PhaseInv, AllVacated, Vacated, AllServe

\* What is not served is not assigned again.
LEMMA SpareUnassigned ==
    ASSUME ~ CommitOnError, TypeOK, DurableInv, LoadInv, PhaseInv, [Next]_vars,
           NEW i \in Ids, Vacant(i),
           \/ i \in Spare(mem')
           \/ disk' # NoFile /\ i \in Spare(disk')
           \/ Restoring' /\ i \in Spare(op'.saved)
    PROVE  rules'.active # i
  <1> USE PhaseParts
  <1>0. i # 0
    BY SteeringAssumption DEF Ids
  <1>1. CASE rules'.active \in {rules.active, 0}
    BY <1>0, <1>1 DEF Vacant
  <1>2. CASE pc = "act_stage" /\ rules'.active = op.saved.active /\ UNCHANGED <<op, mem, disk>>
    <2>1. Activating
      BY <1>2 DEF Activating, ActingPcs
    <2>2. op.saved.active = i => i \in Live(mem) /\ i \in Live(op.saved) /\ disk # NoFile /\ i \in Live(disk)
      BY <1>0, <2>1, AssignedLive DEF Restoring, Recoverable
    <2> QED BY <1>2, <2>2
  <1>3. CASE /\ pc # "act_persist" /\ rules'.active = mem.active /\ UNCHANGED <<mem, disk>>
             /\ ~ Restoring'
    <2>1. mem.active = i => i \in Live(mem) /\ disk # NoFile /\ i \in Live(disk)
      BY <1>0, <1>3, AssignedLive DEF Recoverable
    <2> QED BY <1>3, <2>1
  <1> QED BY <1>1, <1>2, <1>3, AssignsStep

\* A generation that is made is vacant.
LEMMA MadeVacant ==
    ASSUME DurableInv', EngineInv', MarkInv', pc' \in {"prep_persist", "rollback_persist"}
    PROVE  Vacant(op.id)'
  <1>1. Free(op.id, mark)'
    BY DEF MarkInv, Preparing
  <1>2. (Fresh = {op.id})'
    BY DEF Fresh
  <1>3. (op.id \in Ids /\ rules.scope[op.id] = None)'
    BY <1>2 DEF DurableInv, MemoryRecorded
  <1>4. (rules.active # op.id)'
    BY <1>3, SteeringAssumption DEF EngineInv, Ids
  <1> QED BY <1>1, <1>4 DEF Vacant

LEMMA VacatedNext ==
    ASSUME ~ CommitOnError, TypeOK, DurableInv, LoadInv, EngineInv, PhaseInv, DrainsUnused,
           DurableInv', EngineInv', MarkInv', [Next]_vars
    PROVE  AllVacated'
  <1> USE PhaseParts
  <1>1. ASSUME NEW i \in Ids, Vacant(i),
               \/ i \in Spare(mem')
               \/ disk' # NoFile /\ i \in Spare(disk')
               \/ Restoring' /\ i \in Spare(op'.saved)
        PROVE  Vacant(i)'
    BY <1>1, SpareUnassigned, VacantKept
  <1>2. ASSUME NEW i \in Spare(mem')
        PROVE  i \in Ids /\ Vacant(i)'
    <2>0. i \in Ids
      BY DEF Spare, Retained
    <2>1. CASE i \in Spare(mem)
      BY <1>1, <2>0, <2>1
    <2>2. CASE MemoryBack
      BY <1>1, <2>0, <2>2 DEF MemoryBack, Retains
    <2>3. CASE MemoryLoads
      BY <1>1, <2>0, <2>3 DEF MemoryLoads
    <2>4. CASE MakesOne /\ i \notin Spare(mem)
      <3>1. i = op'.id /\ pc' \in {"prep_persist", "rollback_persist"}
        BY <2>4 DEF MakesOne
      <3>2. Vacant(op.id)'
        BY <3>1, MadeVacant
      <3> QED BY <2>0, <3>1, <3>2 DEF Vacant, Free
    <2>5. ASSUME NEW c \in Clients, DrainsOne(c), i \notin Spare(mem)
          PROVE  Vacant(i)'
      <3>1. i = pend[c].id
        BY <2>5 DEF DrainsOne
      <3>2. Vacant(i)
        BY <2>5, <3>1 DEF DrainsOne, DrainsUnused
      <3> QED BY <1>1, <2>0, <3>2
    <2> QED BY <2>0, <2>1, <2>2, <2>3, <2>4, <2>5, PhaseStep DEF PhaseMoves, Retains, Activates
  <1>3. ASSUME disk' # NoFile, NEW i \in Spare(disk')
        PROVE  Vacant(i)'
    <2>1. i \in Ids /\ i \in Spare(disk) \cup Spare(mem) /\ (disk' = disk \/ disk' = mem)
      BY <1>3, WritesStep DEF Spare, Retained
    <2> QED BY <1>1, <1>3, <2>1
  <1>4. ASSUME Restoring', NEW i \in Spare(op'.saved)
        PROVE  Vacant(i)'
    BY <1>1, <1>4, RestoringStep DEF Spare, Retained
  <1> QED BY <1>2, <1>3, <1>4 DEF AllVacated, Vacated, Spare, Live, Retained, Has
\* Where memory and the file are after a step, a process that reads the file
\* finds what is assigned.
LEMMA RecoverableStep ==
    ASSUME TypeOK, DurableInv, LoadInv, PhaseInv, LoadInv', [Next]_vars,
           pc' # "act_persist", mem'.active # 0
    PROVE  disk' # NoFile /\ mem'.active \in Live(disk')
  <1> USE PhaseParts
  <1>0. NoFile # mem
    BY NoFileIsNoState
  <1>1. CASE pc = "act_persist"
    <2>1. Restoring /\ pc # "start_load"
      BY <1>1 DEF Restoring, Activating, ActingPcs
    <2>2. CASE mem' = mem /\ disk' = mem
      BY <1>0, <2>2, AssignedLive
    <2>3. CASE mem'.active \in {op.saved.active, 0}
      <3>1. op.saved.active \in Live(mem) /\ disk # NoFile /\ op.saved.active \in Live(disk)
        BY <1>1, <2>1, <2>3 DEF Recoverable, Activating, ActingPcs
      <3> QED BY <1>0, <2>1, <2>3, <3>1, WritesStep
    <2> QED BY <1>1, <2>2, <2>3, IntentStep
  <1>2. CASE pc # "act_persist" /\ mem'.active = mem.active
    <2>1. disk # NoFile /\ mem.active \in Live(disk) /\ mem.active \in Live(mem)
      BY <1>2, AssignedLive DEF Recoverable
    <2>2. pc # "start_load"
      BY <1>2
    <2> QED BY <1>0, <1>2, <2>1, <2>2, WritesStep
  <1>3. CASE MemoryBack
    <2>1. Restoring /\ mem'.active = op.saved.active
      BY <1>3 DEF MemoryBack, Retains
    <2>2. disk # NoFile /\ op.saved.active \in Live(disk)
      BY <2>1 DEF Recoverable
    <2>3. pc # "gc_program" => op.saved.active \in Live(mem)
      BY <2>1 DEF Restoring
    <2>4. pc # "start_load"
      BY <2>1 DEF Restoring, Activating, Deactivating, ActingPcs, ClaimPcs, DeactivationPcs
    <2> QED BY <1>0, <1>3, <2>1, <2>2, <2>3, <2>4, WritesStep DEF MemoryBack
  <1>4. CASE MemoryLoads
    BY <1>4, AssignedLive DEF MemoryLoads
  <1> QED BY <1>1, <1>2, <1>3, <1>4, PhaseStep DEF PhaseMoves, Retains, Activates, MakesOne, DrainsOne

LEMMA SavedRecoverableStep ==
    ASSUME TypeOK, DurableInv, LoadInv, PhaseInv, [Next]_vars, Restoring', op'.saved.active # 0
    PROVE  disk' # NoFile /\ op'.saved.active \in Live(disk')
  <1> USE PhaseParts
  <1>0. NoFile # mem
    BY NoFileIsNoState
  <1>1. CASE Restoring /\ op' = op /\ (disk' # disk => disk' = mem)
    <2>1. disk # NoFile /\ op.saved.active \in Live(disk)
      BY <1>1 DEF Recoverable
    <2>2. CASE disk' = disk
      BY <1>1, <2>1, <2>2
    <2>3. CASE disk' # disk
      <3>1. pc' # "gc_program"
        BY <2>3, WritesStep DEF ReadPcs
      <3>2. Activating' \/ Deactivating'
        BY <3>1 DEF Restoring
      <3>3. pc # "gc_program"
        <4>1. CASE Activating'
          <5>1. pc' # "act_persist"
            BY <2>3, WritesStep DEF ReadPcs
          <5> QED BY <4>1, <5>1, ActivatingStep DEF Activating, ActingPcs, ClaimPcs
        <4>2. CASE Deactivating'
          BY <2>3, <4>2, DeactivatingStep DEF Deactivating, DeactivationPcs
        <4> QED BY <3>2, <4>1, <4>2
      <3>4. op.saved.active \in Live(mem)
        BY <1>1, <3>3 DEF Restoring
      <3> QED BY <1>0, <1>1, <2>3, <3>4
    <2> QED BY <2>2, <2>3
  <1>2. CASE pc # "act_persist" /\ op'.saved = mem /\ disk' = disk
    BY <1>2 DEF Recoverable
  <1> QED BY <1>1, <1>2, RestoringStep

LEMMA SavedLiveStep ==
    ASSUME TypeOK, DurableInv, LoadInv, PhaseInv, TypeOK', DurableInv', LoadInv', EngineInv', [Next]_vars,
           Activating' \/ Deactivating', op'.saved.active # 0
    PROVE  op'.saved.active \in Live(mem')
  <1> USE PhaseParts
  <1>1. CASE Activating'
    <2>1. (mem.phase[op.saved.active] \in {"active", "draining"})'
      BY <1>1 DEF EngineInv
    <2>2. (op.kind = "activate")'
      BY <1>1 DEF DurableInv, StepOfOperation, Activating, ActingPcs
    <2>3. (op.saved.art = mem.art)'
      BY <2>2 DEF DurableInv, SavedRecorded
    <2>4. (op.saved \in States /\ Loadable(op.saved))'
      BY StateTypes DEF TypeOK, ControlTypeOK, LoadInv, Sound, Ops
    <2>5. op'.saved.active \in Ids /\ Has(op'.saved, op'.saved.active)
      BY <2>4, AssignedLive DEF Live, Retained
    <2> QED BY <2>1, <2>3, <2>5 DEF Live, Retained, Has
  <1>2. CASE Deactivating'
    <2>1. CASE Deactivating /\ UNCHANGED <<op, mem>>
      BY <2>1
    <2>2. CASE mem.active # 0 /\ mem' = Deactivated(mem) /\ op'.saved = mem
      <3>1. mem.active \in Ids /\ Has(mem, mem.active)
        BY <2>2, AssignedLive DEF Live, Retained
      <3>2. Deactivated(mem).art = mem.art /\ Deactivated(mem).phase[mem.active] = "draining"
        BY <3>1 DEF Deactivated, States
      <3> QED BY <2>2, <3>1, <3>2 DEF Live, Retained, Has
    <2> QED BY <1>2, <2>1, <2>2, DeactivatingStep
  <1> QED BY <1>1, <1>2

\* A table's rules are those of the generations in memory, whoever installs it.
LEMMA ScopeStep ==
    ASSUME [Next]_vars, rules' \notin {rules, NoRules}, NEW i \in Ids
    PROVE  rules'.scope[i] = IF i \in Live(mem) /\ mem.art[i] \notin Inert THEN mem.art[i] ELSE None
  BY TableStep DEF Program, StageTable

LEMMA RenderedStep ==
    ASSUME Rendered, [Next]_vars
    PROVE  Rendered'
  <1>1. None \notin Inert
    BY SteeringAssumption, LifecycleAssumption
  <1>2. CASE rules' \in {rules, NoRules}
    BY <1>1, <1>2, NoRulesScope DEF Rendered
  <1>3. CASE rules' \notin {rules, NoRules}
    BY <1>1, <1>3, ScopeStep DEF Rendered
  <1> QED BY <1>2, <1>3

LEMMA PhaseNext ==
    ASSUME ~ CommitOnError, TypeOK, DurableInv, LoadInv, EngineInv, PhaseInv, DrainsUnused,
           TypeOK', DurableInv', LoadInv', EngineInv', MarkInv', [Next]_vars
    PROVE  PhaseInv'
  <1>1. (pc # "act_persist" => Recoverable(mem.active))'
    BY RecoverableStep DEF Recoverable, Live, Retained, Has
  <1>2. (Restoring => Recoverable(op.saved.active))'
    BY SavedRecoverableStep DEF Recoverable, Live, Retained, Has
  <1>3. (Activating \/ Deactivating => (op.saved.active # 0 => op.saved.active \in Live(mem)))'
    BY SavedLiveStep DEF Live, Retained, Has
  <1>4. AllServe'
    BY <1>1, <1>2, <1>3 DEF AllServe
  <1>5. Rendered'
    BY RenderedStep DEF PhaseInv
  <1> QED BY <1>4, <1>5, VacatedNext DEF PhaseInv

LEMMA PhaseInit == Init => PhaseInv
  BY SteeringAssumption, LifecycleAssumption
     DEF Init, KernelInit, NoRules, EmptyState, PhaseInv, AllVacated, Vacated, Spare, Live, Retained, Has,
         AllServe, Rendered, Recoverable, Restoring, Activating, Deactivating, ActingPcs, ClaimPcs,
         DeactivationPcs
-----------------------------------------------------------------------------
\* What a connection sees

OwnerOf(m, b) ==
    CASE m = Absent -> "absent"
      [] m = Unmarked -> "unowned"
      [] m = Neutral -> "neutral"
      [] OTHER -> b

Owner == [f \in Flows |-> OwnerOf(mark[f], born[f])]
Serving == [f \in Flows |-> IF mark[f] \in Ids THEN rules.scope[mark[f]] ELSE None]

LEMMA OwnerValues ==
    ASSUME NEW b
    PROVE  /\ OwnerOf(Absent, b) = "absent" /\ OwnerOf(Unmarked, b) = "unowned"
           /\ OwnerOf(Neutral, b) = "neutral" /\ \A i \in Ids : OwnerOf(i, b) = b
           /\ Absent \notin Ids /\ Unmarked \notin Ids /\ Neutral \notin Ids
  BY SteeringAssumption DEF OwnerOf, Absent, Unmarked, Neutral, Ids

\* A SYN gives a connection the assigned strategy, and the rules are there; or
\* no strategy, and it gets none later.
LEMMA ContractSyn ==
    ASSUME TypeOK, EngineInv, NeutralBoundary, NEW f \in Flows, Syn(f)
    PROVE  Contract!Open(f) \/ Contract!Exclude
  <1>0. /\ mark \in [Flows -> Marks] /\ born \in [Flows -> OrNone(Artifacts)]
        /\ rules.scope \in [Ids -> OrNone(Artifacts)] /\ rules.active \in 0 .. MaxId
        /\ rules' = rules
    BY DEF TypeOK, KernelTypeOK, Tables, Syn
  <1>1. /\ \A g \in Flows : g # f => mark'[g] = mark[g] /\ born'[g] = born[g]
        /\ mark'[f] = Assignment
        /\ rules.active # 0 => born'[f] = rules.scope[rules.active]
    BY <1>0 DEF Syn
  <1>2. CASE rules.active # 0
    <2>0. rules.active \in Ids
      BY <1>0, <1>2, SteeringAssumption DEF Ids
    <2>1. rules.active \in Ids /\ Assignment = rules.active /\ rules.scope[rules.active] \in Artifacts
      BY <1>0, <1>2, <2>0 DEF Assignment, EngineInv, OrNone
    <2>2. mark[f] = Absent
      BY <1>2 DEF NeutralBoundary, Syn
    <2> DEFINE a == rules.scope[rules.active]
    <2>3. Owner' = [Owner EXCEPT ![f] = a]
      <3>1. Owner'[f] = a
        BY <1>1, <1>2, <2>1, OwnerValues DEF Owner
      <3>2. \A g \in Flows : g # f => Owner'[g] = Owner[g]
        BY <1>1 DEF Owner
      <3> QED BY <3>1, <3>2 DEF Owner
    <2>4. Serving' = [Serving EXCEPT ![f] = a]
      BY <1>0, <1>1, <2>1 DEF Serving
    <2>5. Owner[f] = "absent"
      BY <2>2, OwnerValues DEF Owner
    <2> HIDE DEF a
    <2>6. a \in Artifacts
      BY <2>1 DEF a
    <2> QED BY <1>0, <2>3, <2>4, <2>5, <2>6 DEF Contract!Open, Owner, OwnerOf, Serving
  <1>3. CASE rules.active = 0
    <2>1. Assignment \in {Neutral, Unmarked}
      BY <1>3 DEF Assignment
    <2>2. Serving' = Serving
      BY <1>0, <1>1, <2>1, OwnerValues DEF Serving, Syn
    <2>3. CASE mark[f] = Absent
      <3>1. PICK o \in {"unowned", "neutral"} : \A b : OwnerOf(Assignment, b) = o
        BY <2>1, OwnerValues
      <3>2. Owner' = [Owner EXCEPT ![f] = o]
        BY <1>1, <3>1 DEF Owner
      <3>3. Owner[f] = "absent"
        BY <2>3, OwnerValues DEF Owner
      <3> QED BY <1>0, <2>2, <3>2, <3>3 DEF Contract!Open, Owner, OwnerOf, Serving
    <2>4. CASE mark[f] = Unmarked
      <3>1. Assignment = Neutral
        BY <2>1, <2>4 DEF Syn
      <3>2. Owner[f] = "unowned"
        BY <2>4, OwnerValues DEF Owner
      <3>3. Owner' = [g \in Flows |-> IF g \in {f} THEN "neutral" ELSE Owner[g]]
        BY <1>1, <3>1, OwnerValues DEF Owner
      <3>4. {f} \in SUBSET {g \in Flows : Owner[g] = "unowned"}
        BY <3>2
      <3> QED BY <1>0, <2>2, <3>3, <3>4 DEF Contract!Exclude, Owner, OwnerOf, Serving
    <2> QED BY <2>3, <2>4 DEF Syn
  <1> QED BY <1>2, <1>3

LEMMA ContractKernel ==
    ASSUME TypeOK, EngineInv, NeutralBoundary, Kernel
    PROVE  Contract!Next \/ UNCHANGED <<rules, Owner, Serving>>
  <1>0. mark \in [Flows -> Marks] /\ born \in [Flows -> OrNone(Artifacts)]
    BY DEF TypeOK, KernelTypeOK
  <1>1. ASSUME NEW f \in Flows, Syn(f)
        PROVE  Contract!Next
    BY <1>1, ContractSyn DEF Contract!Next
  <1>2. ASSUME NEW f \in Flows, FlowEnd(f)
        PROVE  Contract!Next
    <2>1. /\ \A g \in Flows : g # f => mark'[g] = mark[g] /\ born'[g] = born[g]
          /\ mark'[f] = Absent /\ rules' = rules
      BY <1>0, <1>2 DEF FlowEnd
    <2>2. Owner' = [Owner EXCEPT ![f] = "absent"]
      <3>1. Owner'[f] = "absent"
        BY <2>1, OwnerValues DEF Owner
      <3>2. \A g \in Flows : g # f => Owner'[g] = Owner[g]
        BY <2>1 DEF Owner
      <3> QED BY <3>1, <3>2 DEF Owner
    <2>3. Serving' = [Serving EXCEPT ![f] = None]
      BY <2>1, OwnerValues DEF Serving
    <2> QED BY <2>1, <2>2, <2>3 DEF Contract!Next, Contract!End, Owner, OwnerOf, Serving
  <1>3. ASSUME NEW f \in Flows, FlowIdle(f)
        PROVE  UNCHANGED <<rules, Owner, Serving>>
    BY <1>3 DEF FlowIdle, Owner, Serving
  <1> QED BY <1>1, <1>2, <1>3 DEF Kernel, KernelNext

LEMMA ContractSweep ==
    ASSUME UNCHANGED <<rules, born>>, NEW fs \in SUBSET Flows, mark' = Neutralized(fs)
    PROVE  Contract!Exclude
  <1> DEFINE gs == {f \in fs : mark[f] = Unmarked}
  <1>1. \A f \in Flows : mark'[f] = IF f \in gs THEN Neutral ELSE mark[f]
    BY DEF Neutralized
  <1>2. gs \in SUBSET {f \in Flows : Owner[f] = "unowned"}
    BY OwnerValues DEF Owner
  <1> HIDE DEF gs
  <1>3. Owner' = [f \in Flows |-> IF f \in gs THEN "neutral" ELSE Owner[f]]
    BY <1>1, OwnerValues DEF Owner
  <1>4. \A f \in Flows : f \in gs => mark[f] = Unmarked
    BY DEF gs
  <1>5. Serving' = Serving
    BY <1>1, <1>4, OwnerValues DEF Serving
  <1> QED BY <1>2, <1>3, <1>5 DEF Contract!Exclude, Owner, OwnerOf, Serving
\* Where the table may still be a predecessor's, it is only removed.
LEMMA EndsStep ==
    ASSUME [Next]_vars, pc \in Ends, ~ raising, reconciling = "no"
    PROVE  rules' \in {rules, NoRules}
  <1> USE DEF kernelVars, Installs, InstallFails, Ends
  <1>1. CASE \/ Kernel \/ UNCHANGED vars \/ IntegrityFailure \/ ReconcileStart \/ ReconcileEnd
             \/ Request \/ Pending \/ PrepareStep
    BY <1>1
       DEF Kernel, KernelNext, Syn, FlowEnd, FlowIdle, vars, IntegrityFailure, ReconcileStart, ReconcileEnd,
           Request, Prepare, PrepareGateFails, ActivateForNewConnections, Rollback,
           ActivateFrame, DeactivateForNewConnections, DrainBegin, GcList, RollbackBegin,
           RequestFrame,
           Pending, GcBegin, CountBegin, CountSucceeds, CountFails, RollbackCountFails,
           DrainFinish, GcFinish, RollbackFinish,
           PrepareStep, PrepareInterrupted, PreparePersists, PreparePersistFails
  <1>2. CASE ActivateStep \/ OffloadStep
    BY <1>2
       DEF ActivateStep, RollbackActivate, ActivateFrame, ActivatePersists, ActivatePersistFails,
           StageInstalls, SweepSucceeds, FlipInstalls, TransactionFails, SweepFails, ActivateDone,
           OffloadStep, OffloadsDown, OffloadsCapture, OffloadsCallFails, ClaimPersists,
           ClaimPersistFails, DisableSucceeds, DisableFails, UnclaimPersists, UnclaimPersistFails,
           RestoreNothing, RestoreCall, RestorePersists, RestorePersistFails
  <1>3. CASE CompensationStep \/ DeactivateStep \/ CollectStep \/ ReconcileStep
    BY <1>3
       DEF CompensationStep, UnwindPersists, CompensationInstalls, CompensationInstallFails,
           CompensationPersists, CompensationPersistFails, CompensationDone, IntegrityFailureLocked,
           DeactivateStep, DeactivatePersists, DeactivatePersistFails, DeactivateInstalls,
           DeactivateInstallFails, CollectStep, DrainPersists, DrainPersistFails, GcInstalls,
           GcInstallFails, ReconcileStep, ReconcileInstalls, ReconcileInstallFails,
           ReconcilePersists, ReconcilePersistFails
  <1>4. CASE StartStep \/ CloseStep \/ Crash \/ ReconcileBegin \/ Boot \/ Shutdown
    BY <1>4
       DEF StartStep, StartRemoves, StartLoads, StartQuarantines, StartQuarantineFails,
           StartAudits, StartAuditFails, StartPersists, StartPersistFails, StartInstallsBoundary,
           StartFlips, StartPrograms, StartProgramsUngated, StartFails, CloseStep, CloseRemoves,
           CloseFails, Exit, Crash, ProcessGone, ReconcileBegin, Boot, Shutdown
  <1> QED BY <1>1, <1>2, <1>3, <1>4 DEF Next, LockedStep

\* A connection that is served keeps its rules, unless all lose theirs.
LEMMA ServedStay ==
    ASSUME TypeOK, DurableInv, MarkInv, PhaseInv, [Next]_vars, rules' \notin {rules, NoRules},
           NEW i \in Ids, rules.scope[i] # None, ~ Free(i, mark)
    PROVE  rules'.scope[i] = rules.scope[i]
  <1>1. Known(IF pc = "gc_program" THEN op.saved.art ELSE mem.art)
    BY EndsStep DEF DurableInv, TableKnown, Ends
  <1>2. mem.art[i] = rules.scope[i]
    <2>1. CASE pc = "gc_program"
      <3>1. i # op.id /\ op.saved.art[i] = rules.scope[i]
        BY <1>1, <2>1 DEF MarkInv, Collecting, Known
      <3> QED BY <2>1, <3>1 DEF MarkInv, Collecting
    <2>2. CASE pc # "gc_program"
      BY <1>1, <2>2 DEF Known
    <2> QED BY <2>1, <2>2
  <1>3. i \in Live(mem)
    BY <1>2 DEF PhaseInv, AllVacated, Vacated, Vacant, Spare, Retained, Has
  <1>4. mem.art[i] \notin Inert
    BY <1>2 DEF PhaseInv, Rendered
  <1> QED BY <1>2, <1>3, <1>4, ScopeStep

LEMMA ContractTable ==
    ASSUME TypeOK, DurableInv, MarkInv, PhaseInv, TypeOK', MarkInv', [Next]_vars,
           UNCHANGED <<mark, born>>
    PROVE  Contract!Next \/ UNCHANGED <<rules, Owner, Serving>>
  <1>1. UNCHANGED Owner
    BY DEF Owner
  <1>2. CASE rules' = rules
    BY <1>1, <1>2 DEF Serving
  <1>3. CASE rules' = NoRules
    <2>1. Serving' = [f \in Flows |-> None]
      BY <1>3, NoRulesScope DEF Serving
    <2> QED BY <1>1, <1>3, <2>1 DEF Contract!Next, Contract!Withdraw, Owner, OwnerOf, Serving
  <1>4. CASE rules' \notin {rules, NoRules}
    <2> DEFINE fs == {f \in Flows : mark[f] \in Ids /\ rules'.scope[mark[f]] # None}
    <2>1. ASSUME NEW f \in fs
          PROVE  Owner[f] = rules'.scope[mark[f]] /\ Owner[f] \in Artifacts
      <3>1. mark[f] \in Ids /\ rules'.scope[mark[f]] # None /\ f \in Flows
        OBVIOUS
      <3>2. (Fits(rules.scope, mark, born))'
        BY DEF MarkInv, Named
      <3>3. rules'.scope[mark[f]] = born[f]
        BY <3>1, <3>2 DEF Fits
      <3>4. rules'.scope[mark[f]] \in Artifacts
        BY <3>1 DEF TypeOK, KernelTypeOK, Tables, OrNone
      <3> QED BY <3>1, <3>3, <3>4, OwnerValues DEF Owner
    <2>2. ASSUME NEW f \in Flows, f \notin fs
          PROVE  Serving'[f] = Serving[f]
      <3>1. mark[f] \in Ids => rules'.scope[mark[f]] = None
        BY <2>2
      <3>2. mark[f] \in Ids => ~ Free(mark[f], mark)
        BY DEF Free
      <3>3. mark[f] \in Ids => rules.scope[mark[f]] = None
        BY <1>4, <3>1, <3>2, ServedStay
      <3> QED BY <3>1, <3>3 DEF Serving
    <2>3. ASSUME NEW f \in fs
          PROVE  Serving'[f] = Owner[f]
      BY <2>1 DEF Serving
    <2>4. fs \in SUBSET {f \in Flows : Owner[f] \in Artifacts}
      BY <2>1
    <2> HIDE DEF fs
    <2>5. Serving' = [f \in Flows |-> IF f \in fs THEN Owner[f] ELSE Serving[f]]
      <3>1. \A f \in Flows : Serving'[f] = IF f \in fs THEN Owner[f] ELSE Serving[f]
        BY <2>2, <2>3
      <3>2. Serving' = [f \in Flows |-> Serving'[f]]
        BY DEF Serving
      <3> QED BY <3>1, <3>2
    <2> QED BY <1>1, <1>4, <2>4, <2>5 DEF Contract!Next, Contract!Serve, Owner, OwnerOf, Serving
  <1> QED BY <1>2, <1>3, <1>4

\* Every step of the lifecycle is a step of the contract, or none.
LEMMA ContractStep ==
    ASSUME TypeOK, DurableInv, EngineInv, MarkInv, PhaseInv, NeutralBoundary, TypeOK', MarkInv', [Next]_vars
    PROVE  Contract!Next \/ UNCHANGED <<rules # NoRules, Owner, Serving>>
  <1>1. CASE Kernel
    BY <1>1, ContractKernel
  <1>2. CASE UNCHANGED <<mark, born>>
    BY <1>2, ContractTable
  <1>3. ASSUME UNCHANGED <<rules, born>>, NEW fs \in SUBSET Flows, mark' = Neutralized(fs)
        PROVE  Contract!Next
    BY <1>3, ContractSweep DEF Contract!Next
  <1> QED BY <1>1, <1>2, <1>3, MarksStep

LEMMA ContractInit == Init => Contract!Init
  BY OwnerValues DEF Init, KernelInit, Contract!Init, Absent, Ids

LEMMA PhaseStutters == UNCHANGED vars /\ PhaseInv => PhaseInv'
  BY DEF vars, kernelVars, flowVars, PhaseInv, AllVacated, Vacated, Spare, Live, Retained, Has, AllServe,
         Recoverable, Restoring, Activating, Deactivating, Rendered, Vacant, Free

LEMMA ContractHolds ==
    TypeOK /\ DurableInv /\ EngineInv /\ MarkInv /\ PhaseInv /\ NeutralBoundary /\ TypeOK' /\ MarkInv'
        /\ [Next]_vars => [Contract!Next]_<<rules # NoRules, Owner, Serving>>
  BY ContractStep

LEMMA PhaseHolds ==
    ASSUME ~ CommitOnError
    PROVE  Spec /\ [][AuditComplete /\ CollectsUnused /\ DrainsUnused]_vars => [](MarkInv /\ PhaseInv)
  <1>1. TypeOK /\ DurableInv /\ [Next]_vars => DurableInv'
    BY DurableNext
  <1>2. TypeOK /\ LoadInv /\ [Next]_vars => LoadInv'
    BY LoadNext
  <1>3. TypeOK /\ DurableInv /\ LoadInv /\ EngineInv /\ [Next]_vars => EngineInv'
    BY EngineNext
  <1>4. TypeOK /\ DurableInv /\ LoadInv /\ EngineInv /\ PhaseInv
           /\ TypeOK' /\ DurableInv' /\ LoadInv' /\ EngineInv' /\ MarkInv' /\ [Next]_vars
           /\ [AuditComplete /\ CollectsUnused /\ DrainsUnused]_vars => PhaseInv'
    BY PhaseStutters, PhaseNext
  <1>5. [AuditComplete /\ CollectsUnused /\ DrainsUnused]_vars => [AuditComplete /\ CollectsUnused]_vars
    OBVIOUS
  <1>6. Spec /\ [][AuditComplete /\ CollectsUnused]_vars => []MarkInv
    BY MarksHold
  <1> QED BY <1>1, <1>2, <1>3, <1>4, <1>5, <1>6, DurableInit, LoadInit, EngineInit, PhaseInit,
             TypeCorrect, PTL DEF Spec

\* The lifecycle keeps the contract of module Connections, through overlapping
\* requests, signals, failing calls, crashes and restarts: a connection gets a
\* strategy with its first SYN or never, keeps it until it ends, and rules are
\* withdrawn for all connections at once, or not at all.  The provisos: no
\* kernel batch and no file operation takes effect and reports an error, a
\* startup audit that fails had no orphans to find, and a generation is
\* collected, or its drain completed, only when nothing assigns it and no
\* connection carries it ("only at zero flows").
THEOREM LifecycleKeepsContract ==
    ASSUME ~ CommitOnError
    PROVE  Spec /\ [][AuditComplete /\ CollectsUnused /\ DrainsUnused]_vars => KeepsContract
  <1>1. TypeOK /\ DurableInv /\ [Next]_vars => DurableInv'
    BY DurableNext
  <1>2. TypeOK /\ LoadInv /\ [Next]_vars => LoadInv'
    BY LoadNext
  <1>3. TypeOK /\ DurableInv /\ LoadInv /\ EngineInv /\ [Next]_vars => EngineInv'
    BY EngineNext
  <1>4. Spec /\ [][AuditComplete /\ CollectsUnused /\ DrainsUnused]_vars => [](MarkInv /\ PhaseInv)
    BY PhaseHolds
  <1>5. Spec => []NeutralBoundary
    BY BoundaryIsNeutral
  <1>6. TypeOK /\ DurableInv /\ EngineInv /\ MarkInv /\ PhaseInv /\ NeutralBoundary /\ TypeOK' /\ MarkInv'
           /\ [Next]_vars => [Contract!Next]_<<rules # NoRules, Owner, Serving>>
    BY ContractHolds
  <1>7. Spec /\ [][AuditComplete /\ CollectsUnused /\ DrainsUnused]_vars
           => [][Contract!Next]_<<rules # NoRules, Owner, Serving>>
    BY <1>1, <1>2, <1>3, <1>4, <1>5, <1>6, DurableInit, LoadInit, EngineInit, TypeCorrect, PTL DEF Spec
  <1>8. Contract!Init /\ [][Contract!Next]_<<rules # NoRules, Owner, Serving>> => KeepsContract
    BY DEF KeepsContract, Contract!Spec, Owner, OwnerOf, Serving
  <1> QED BY <1>7, <1>8, ContractInit, PTL DEF Spec

\* A drain is completed for a generation that nothing assigns and no connection
\* carries, unless the process is on its way out.
DrainsUnusedUnlessFatal ==
    \A c \in Clients :
        DrainFinish(c) /\ Unchanged(pend[c]) /\ ~ pend[c].live => fatal \/ Vacant(pend[c].id)

\* No drain is completed between Config.Fatal and the end of the process.
FatalDrainsNothing ==
    \A c \in Clients : DrainFinish(c) /\ Unchanged(pend[c]) /\ ~ pend[c].live => ~ fatal

\* One request at a time and without idle timeout, a drain that reports no
\* connections leaves none and no assignment behind, although it counts them
\* without the mutex (drainGenerationNumber).
THEOREM DrainsAtZeroFlows ==
    ASSUME Serial, ~ IdleDrain
    PROVE  Spec => [][DrainsUnusedUnlessFatal]_vars
  <1>1. SerialInv /\ [Next]_vars => [DrainsUnusedUnlessFatal]_vars
    <2> SUFFICES ASSUME SerialInv, NEW c \in Clients, DrainFinish(c), Unchanged(pend[c]), ~ pend[c].live
                 PROVE  fatal \/ Vacant(pend[c].id)
      BY DEF DrainsUnusedUnlessFatal
    <2>1. Counting(c) /\ pend[c].stage = "counted"
      BY DEF DrainFinish, Counting
    <2> QED BY <2>1 DEF SerialInv, Unneeded, Vacant
  <1> QED BY <1>1, SerialHolds, PTL DEF Spec

LEMMA SerialProvisos ==
    ASSUME Serial, ~ IdleDrain
    PROVE  Spec /\ [][AuditComplete /\ FatalCollectsNothing /\ FatalDrainsNothing]_vars
              => [][AuditComplete /\ CollectsUnused /\ DrainsUnused]_vars
  <1>1. Spec => [][CollectsUnusedUnlessFatal]_vars
    BY CollectsAtZeroFlows
  <1>2. Spec => [][DrainsUnusedUnlessFatal]_vars
    BY DrainsAtZeroFlows
  <1>3. [CollectsUnusedUnlessFatal]_vars /\ [DrainsUnusedUnlessFatal]_vars
           /\ [AuditComplete /\ FatalCollectsNothing /\ FatalDrainsNothing]_vars
           => [AuditComplete /\ CollectsUnused /\ DrainsUnused]_vars
    <2>1. CollectsUnusedUnlessFatal /\ FatalCollectsNothing => CollectsUnused
      BY DEF CollectsUnusedUnlessFatal, FatalCollectsNothing, CollectsUnused
    <2>2. DrainsUnusedUnlessFatal /\ FatalDrainsNothing => DrainsUnused
      BY DEF DrainsUnusedUnlessFatal, FatalDrainsNothing, DrainsUnused
    <2> QED BY <2>1, <2>2
  <1> QED BY <1>1, <1>2, <1>3, PTL

LEMMA SerialPhaseHolds ==
    ASSUME Serial, ~ IdleDrain, ~ CommitOnError
    PROVE  Spec /\ [][AuditComplete /\ FatalCollectsNothing /\ FatalDrainsNothing]_vars => []PhaseInv
  BY SerialProvisos, PhaseHolds, PTL

\* So with one request at a time and without idle timeout the lifecycle keeps
\* the contract through signals, failing calls, crashes and restarts, provided
\* that no batch and no file operation takes effect and reports an error, a
\* failed startup audit had no orphans to find, and nothing is collected and no
\* drain completed after Config.Fatal.
THEOREM SerialLifecycleKeepsContract ==
    ASSUME Serial, ~ IdleDrain, ~ CommitOnError
    PROVE  Spec /\ [][AuditComplete /\ FatalCollectsNothing /\ FatalDrainsNothing]_vars => KeepsContract
  BY SerialProvisos, LifecycleKeepsContract, PTL

-----------------------------------------------------------------------------
\* The NIC's offloads

\* The table is gone or on its way out, and the process follows.
Ending ==
    \/ pc \in {"down", "exit", "close_rules"}
    \/ pc \in {"restore", "restore_persist"} /\ op.kind = "close"
    \/ pc \in {"rec_program", "rec_remove", "rec_persist"} /\ op.back # "idle"

\* Steps before which memory may serve more than the offloads were taken down for.
AskingPcs == ClaimPcs \cup {"act_persist", "start_remove", "start_load", "start_audit", "start_persist"}

LoweredPcs == {"act_stage", "act_sweep", "act_flip", "act_engine"}

\* A call of the compensation failed, or a table is about to be replaced whose
\* state is not known: what follows removes the table or ends the process.
Doubt ==
    \/ pc \in {"start_remove", "rec_program", "rec_remove"}
    \/ pc \in {"comp_persist", "restore", "restore_persist", "comp_done"} /\ op.failed

Lowered(m) == HasSteering(m) => nicDown

Nic ==
    /\ pc \in LoweredPcs => nicDown
    /\ pc \notin AskingPcs => Lowered(mem)
    /\ Restoring => Lowered(op.saved) /\ (op.restoreNic => ~ HasSteering(op.saved))
    /\ ~ Doubt /\ Steers(rules) => nicDown
    /\ pc \in {"comp_program", "comp_persist"} /\ op.restoreNic => ~ HasSteering(mem)
    /\ pc = "comp_persist" /\ ~ op.failed /\ Steers(rules) => HasSteering(mem)
    /\ pc \in {"restore", "restore_persist"} =>
          /\ ~ HasSteering(mem)
          /\ op.kind \in {"gc", "start"} \/ ~ op.failed => ~ Steers(rules)

NicInv == Ending \/ fatal \/ Nic

\* A drain that still finds connections is of a generation whose rules are installed.
DrainsServed ==
    \A c \in Clients :
        DrainFinish(c) /\ Unchanged(pend[c]) /\ pend[c].live => pend[c].id \in Live(mem)

-----------------------------------------------------------------------------
\* Updates of a state that serve nothing more

LEMMA SteeringFewer ==
    ASSUME NEW m, NEW n,
           \A i \in Ids : n.art[i] # None /\ n.phase[i] \in {"active", "draining"} =>
                             n.art[i] = m.art[i] /\ m.phase[i] \in {"active", "draining"}
    PROVE  HasSteering(n) => HasSteering(m)
  BY DEF HasSteering, Live, Retained, Has

LEMMA SteeringKept ==
    ASSUME NEW m \in States
    PROVE  /\ HasSteering(MarkUnsafe(m)) => HasSteering(m)
           /\ \A b : HasSteering([m EXCEPT !.offloads = b]) => HasSteering(m)
           /\ HasSteering([m EXCEPT !.offloads = TRUE]) => HasSteering(m)
           /\ HasSteering([m EXCEPT !.offloads = FALSE]) => HasSteering(m)
           /\ \A b, d : HasSteering([m EXCEPT !.offloads = b, !.unsafe = @ \/ ~ d]) => HasSteering(m)
           /\ \A b, c : HasSteering([m EXCEPT !.offloads = b, !.unsafe = c]) => HasSteering(m)
           /\ HasSteering([m EXCEPT !.unsafe = TRUE]) => HasSteering(m)
           /\ \A i : HasSteering(Without(m, i)) => HasSteering(m)
           /\ \A i, x : HasSteering([Without(m, i) EXCEPT !.previous = x]) => HasSteering(m)
           /\ \A i : HasSteering([m EXCEPT !.phase[i] = "drained"]) => HasSteering(m)
           /\ \A i \in Live(m) : HasSteering([m EXCEPT !.phase[i] = "draining"]) => HasSteering(m)
           /\ \A i, a : HasSteering(Prepared(m, i, a)) => HasSteering(m)
           /\ ~ HasSteering(EmptyState)
  <1>1. ASSUME NEW n, n.art = m.art, n.phase = m.phase
        PROVE  HasSteering(n) => HasSteering(m)
    BY <1>1, SteeringFewer
  <1>2. m.art \in [Ids -> OrNone(Artifacts)] /\ m.phase \in [Ids -> Phases]
    BY StateParts
  <1>3. /\ HasSteering(MarkUnsafe(m)) => HasSteering(m)
        /\ \A b : HasSteering([m EXCEPT !.offloads = b]) => HasSteering(m)
        /\ HasSteering([m EXCEPT !.offloads = TRUE]) => HasSteering(m)
        /\ HasSteering([m EXCEPT !.offloads = FALSE]) => HasSteering(m)
        /\ \A b, d : HasSteering([m EXCEPT !.offloads = b, !.unsafe = @ \/ ~ d]) => HasSteering(m)
        /\ \A b, c : HasSteering([m EXCEPT !.offloads = b, !.unsafe = c]) => HasSteering(m)
        /\ HasSteering([m EXCEPT !.unsafe = TRUE]) => HasSteering(m)
    BY <1>1 DEF States, MarkUnsafe
  <1>4. ASSUME NEW i
        PROVE  /\ HasSteering(Without(m, i)) => HasSteering(m)
               /\ \A x : HasSteering([Without(m, i) EXCEPT !.previous = x]) => HasSteering(m)
    <2>1. /\ \A j \in Ids : j # i => Without(m, i).art[j] = m.art[j] /\ Without(m, i).phase[j] = m.phase[j]
          /\ i \in Ids => Without(m, i).art[i] = None
      BY <1>2 DEF States, Without
    <2>2. ASSUME NEW n, n.art = Without(m, i).art, n.phase = Without(m, i).phase
          PROVE  HasSteering(n) => HasSteering(m)
      BY <2>1, <2>2, SteeringFewer
    <2>3. ASSUME NEW x
          PROVE  LET n == [Without(m, i) EXCEPT !.previous = x] IN
                     n.art = Without(m, i).art /\ n.phase = Without(m, i).phase
      BY DEF States, Without
    <2> QED BY <2>2, <2>3
  <1>5. ASSUME NEW i, NEW p \in {"drained", "draining"}, p = "draining" => i \in Live(m)
        PROVE  HasSteering([m EXCEPT !.phase[i] = p]) => HasSteering(m)
    <2> DEFINE n == [m EXCEPT !.phase[i] = p]
    <2>1. n.art = m.art /\ \A j \in Ids : n.phase[j] = IF j = i THEN p ELSE m.phase[j]
      BY <1>2 DEF States
    <2>2. i \in Live(m) => m.phase[i] \in {"active", "draining"}
      BY DEF Live
    <2> HIDE DEF n
    <2>3. HasSteering(n) => HasSteering(m)
      BY <1>5, <2>1, <2>2, SteeringFewer
    <2> QED BY <2>3 DEF n
  <1>6. ASSUME NEW i, NEW a
        PROVE  HasSteering(Prepared(m, i, a)) => HasSteering(m)
    <2>1. \A j \in Ids : /\ j # i => Prepared(m, i, a).art[j] = m.art[j] /\ Prepared(m, i, a).phase[j] = m.phase[j]
                         /\ j = i => Prepared(m, i, a).phase[j] = "prepared"
      BY <1>2 DEF States, Prepared
    <2> QED BY <2>1, SteeringFewer
  <1>7. ~ HasSteering(EmptyState)
    BY DEF EmptyState, HasSteering, Live, Retained, Has
  <1> QED BY <1>3, <1>4, <1>5, <1>6, <1>7

\* What the loader checks of the assigned generation: it is served.
LEMMA SteeringUnassigned ==
    ASSUME NEW m \in States, Sound(m)
    PROVE  /\ HasSteering(Quarantined(m)) => HasSteering(m)
           /\ m.active # 0 => (HasSteering(Deactivated(m)) => HasSteering(m))
  <1>0. /\ m.art \in [Ids -> OrNone(Artifacts)] /\ m.phase \in [Ids -> Phases]
        /\ m.active # 0 => m.phase[m.active] = "active"
    BY StateParts DEF Sound, Loadable
  <1>1. HasSteering(Quarantined(m)) => HasSteering(m)
    <2>1. /\ Quarantined(m).art = m.art
          /\ \A i \in Ids : Quarantined(m).phase[i] = IF i = m.active THEN "draining" ELSE m.phase[i]
      BY DEF States, Quarantined
    <2>2. \A i \in Ids : i = m.active => m.phase[i] = "active"
      BY <1>0 DEF Ids
    <2> QED BY <2>1, <2>2, SteeringFewer
  <1>2. ASSUME m.active # 0
        PROVE  HasSteering(Deactivated(m)) => HasSteering(m)
    <2>1. /\ Deactivated(m).art = m.art
          /\ \A i \in Ids : Deactivated(m).phase[i] = IF i = m.active THEN "draining" ELSE m.phase[i]
      BY <1>0 DEF States, Deactivated
    <2> QED BY <1>0, <1>2, <2>1, SteeringFewer
  <1> QED BY <1>1, <1>2

LEMMA ProgramSteers ==
    ASSUME NEW m, NEW a, NEW b
    PROVE  Steers(Program(m, a, b)) <=> HasSteering(m)
  BY DEF Steers, Program, HasSteering, Live, Retained, Has

LEMMA NoRulesSteer == ~ Steers(NoRules)
  BY DEF Steers, NoRules

-----------------------------------------------------------------------------
\* Every step keeps the offloads down

Underway == {"comp_program", "comp_persist", "restore", "restore_persist"}

\* Steps that serve nothing more and leave the table and the NIC alone.
LEMMA NicKept ==
    ASSUME Nic, UNCHANGED <<rules, nicDown>>, HasSteering(mem') => HasSteering(mem),
           pc \notin AskingPcs, ~ Doubt, ~ Restoring', pc' \notin LoweredPcs \cup Underway
    PROVE  Nic'
  <1>1. Lowered(mem)' /\ (Steers(rules)' => nicDown')
    BY DEF Nic, Lowered
  <1> QED BY <1>1 DEF Nic, Underway

LEMMA NicSame ==
    ASSUME Nic, UNCHANGED <<rules, nicDown, mem, pc, op>>
    PROVE  Nic'
  BY DEF Nic, Lowered, Doubt, Restoring, Activating, Deactivating

LEMMA NicActivates ==
    ASSUME TypeOK, Nic, NEW id, NEW repair, ActivateLocked(id, repair),
           pc \in {"idle", "rollback_activate"}, UNCHANGED <<rules, nicDown>>
    PROVE  Nic'
  <1>0. pc \notin AskingPcs /\ ~ Doubt
    BY DEF AskingPcs, ClaimPcs, Doubt
  <1>1. CASE UNCHANGED <<mem, engines>> /\ pc' = "idle" /\ op' = NoOp
    BY <1>0, <1>1, NicKept DEF Restoring, Activating, Deactivating, ActingPcs, ClaimPcs, DeactivationPcs, LoweredPcs, Underway
  <1>2. CASE pc' = "act_persist"
    <2>1. op' = [NoOp EXCEPT !.kind = "activate", !.id = id, !.repair = repair,
                       !.saved = mem, !.gate = gate, !.guard = guard, !.epoch = epoch,
                       !.restoreNic = ~HasSteering(mem)]
      BY <1>2 DEF ActivateLocked, Return
    <2>2. op'.saved = mem /\ op'.restoreNic = ~ HasSteering(mem)
      BY <2>1 DEF NoOp
    <2>3. Lowered(mem) /\ (Steers(rules) => nicDown)
      BY <1>0 DEF Nic
    <2> QED BY <1>2, <2>2, <2>3 DEF Nic, Lowered, LoweredPcs, AskingPcs
  <1> QED BY <1>1, <1>2, ActivateLockedShape

\* An operation takes a copy of the state that it may return to.
LEMMA NicBegins ==
    ASSUME Nic, pc \notin AskingPcs, ~ Doubt, UNCHANGED <<rules, nicDown>>,
           pc' \in {"deact_persist", "gc_program"}, op'.saved = mem, ~ op'.restoreNic,
           HasSteering(mem') => HasSteering(mem)
    PROVE  Nic'
  <1>1. Lowered(mem)' /\ Lowered(op.saved)' /\ (Steers(rules)' => nicDown')
    BY DEF Nic, Lowered
  <1> QED BY <1>1 DEF Nic, LoweredPcs

LEMMA NicRequest ==
    ASSUME TypeOK, LoadInv, Nic, Request
    PROVE  Nic'
  <1> USE DEF Restoring, Activating, Deactivating, ActingPcs, ClaimPcs, DeactivationPcs, LoweredPcs, Underway
  <1>0. mem \in States /\ Sound(mem)
    BY StateTypes, LoadParts
  <1>1. pc = "idle" => pc \notin AskingPcs /\ ~ Doubt
    BY DEF AskingPcs, Doubt
  <1>2. ASSUME NEW a \in Artifacts, Prepare(a)
        PROVE  Nic'
    <2>1. /\ pc = "idle" /\ pc' \in {"idle", "prep_persist"} /\ UNCHANGED <<rules, nicDown>>
          /\ mem' = mem \/ \E i : mem' = Prepared(mem, i, a)
      BY <1>2 DEF Prepare, MayRequest, Idle, kernelVars
    <2>2. HasSteering(mem') => HasSteering(mem)
      <3>1. CASE mem' = mem
        BY <3>1, <1>0, SteeringFewer
      <3>2. ASSUME NEW i, mem' = Prepared(mem, i, a)
            PROVE  HasSteering(mem') => HasSteering(mem)
        <4>1. HasSteering(Prepared(mem, i, a)) => HasSteering(mem)
          BY <1>0, SteeringKept
        <4> QED BY <3>2, <4>1
      <3> QED BY <2>1, <3>1, <3>2
    <2>3. ~ Restoring' /\ pc' \notin LoweredPcs \cup Underway
      BY <2>1
    <2> QED BY <1>1, <2>1, <2>2, <2>3, NicKept
  <1>3. ASSUME NEW a \in Artifacts, ActivateForNewConnections(a) \/ Rollback(a)
        PROVE  Nic'
    <2>1. /\ pc = "idle" /\ UNCHANGED <<rules, nicDown>>
          /\ \E id, repair : ActivateLocked(id, repair)
      BY <1>3 DEF ActivateForNewConnections, Rollback, ActivateFrame, MayRequest, Idle, kernelVars
    <2> QED BY <2>1, NicActivates
  <1>4. ASSUME NEW a \in Artifacts, DeactivateForNewConnections(a)
        PROVE  Nic'
    <2>1. /\ pc = "idle" /\ pc' = "deact_persist" /\ UNCHANGED <<rules, nicDown>> /\ mem.active # 0
          /\ mem' = Deactivated(mem) /\ op' = [NoOp EXCEPT !.kind = "deactivate", !.saved = mem]
      BY <1>4 DEF DeactivateForNewConnections, MayRequest, Idle, kernelVars
    <2>2. op'.saved = mem /\ ~ op'.restoreNic
      BY <2>1 DEF NoOp
    <2>3. HasSteering(mem') => HasSteering(mem)
      BY <1>0, <2>1, SteeringUnassigned
    <2> QED BY <1>1, <2>1, <2>2, <2>3, NicBegins
  <1>5. ASSUME \/ PrepareGateFails
               \/ \E c \in Clients : \/ \E a \in Artifacts : DrainBegin(c, a) \/ RollbackBegin(c, a)
                                     \/ \E i \in Ids : GcList(c, i)
        PROVE  Nic'
    <2>1. pc = "idle" /\ UNCHANGED <<pc, op, mem, rules, nicDown>>
      BY <1>5 DEF PrepareGateFails, DrainBegin, GcList, RollbackBegin, RequestFrame, MayRequest, Idle, kernelVars
    <2> QED BY <1>1, <2>1, NicKept
  <1> QED BY <1>2, <1>3, <1>4, <1>5 DEF Request

LEMMA NicPending ==
    ASSUME TypeOK, LoadInv, Nic, Pending, DrainsServed
    PROVE  Nic'
  <1> USE DEF Restoring, Activating, Deactivating, ActingPcs, ClaimPcs, DeactivationPcs, LoweredPcs, Underway
  <1>0. mem \in States
    BY StateTypes
  <1>1. pc = "idle" => pc \notin AskingPcs /\ ~ Doubt
    BY DEF AskingPcs, Doubt
  <1>2. ASSUME NEW c \in Clients, RollbackCountFails(c)
        PROVE  Nic'
    <2>1. /\ pc = "idle" /\ pc' \in {"idle", "comp_done"} /\ UNCHANGED <<rules, nicDown>>
          /\ mem' = [mem EXCEPT !.unsafe = TRUE]
      BY <1>2 DEF RollbackCountFails, Idle, kernelVars
    <2>2. HasSteering(mem') => HasSteering(mem)
      BY <1>0, <2>1, SteeringKept
    <2> QED BY <1>1, <2>1, <2>2, NicKept
  <1>3. ASSUME NEW c \in Clients, DrainFinish(c)
        PROVE  Nic'
    <2> DEFINE i == pend[c].id
    <2>1. /\ pc = "idle" /\ pc' \in {"idle", "drain_persist"} /\ UNCHANGED <<rules, nicDown>>
          /\ \/ mem' = mem
             \/ Unchanged(pend[c]) /\ pend[c].live /\ mem' = [mem EXCEPT !.phase[i] = "draining"]
             \/ mem' = [mem EXCEPT !.phase[i] = "drained"]
      BY <1>3 DEF DrainFinish, DrainPhase, Idle, kernelVars
    <2>2. Unchanged(pend[c]) /\ pend[c].live => i \in Live(mem)
      BY <1>3 DEF DrainsServed
    <2> HIDE DEF i
    <2>3. /\ HasSteering([mem EXCEPT !.phase[i] = "drained"]) => HasSteering(mem)
          /\ i \in Live(mem) => (HasSteering([mem EXCEPT !.phase[i] = "draining"]) => HasSteering(mem))
      BY <1>0, SteeringKept
    <2>4. HasSteering(mem') => HasSteering(mem)
      BY <2>1, <2>2, <2>3
    <2> QED BY <1>1, <2>1, <2>4, NicKept
  <1>4. ASSUME NEW c \in Clients, GcFinish(c)
        PROVE  Nic'
    <2> DEFINE i == pend[c].id
    <2>1. /\ pc = "idle" /\ UNCHANGED <<rules, nicDown>>
          /\ \/ UNCHANGED <<mem, pc, op>>
             \/ /\ mem' = [Without(mem, i) EXCEPT !.previous = IF @ = i THEN 0 ELSE @]
                /\ pc' = "gc_program" /\ op' = [NoOp EXCEPT !.kind = "gc", !.id = i, !.saved = mem]
      BY <1>4 DEF GcFinish, Idle, kernelVars
    <2> HIDE DEF i
    <2>2. CASE UNCHANGED <<mem, pc, op>>
      BY <1>1, <2>1, <2>2, NicKept
    <2>3. CASE /\ mem' = [Without(mem, i) EXCEPT !.previous = IF @ = i THEN 0 ELSE @]
               /\ pc' = "gc_program" /\ op' = [NoOp EXCEPT !.kind = "gc", !.id = i, !.saved = mem]
      <3>1. op'.saved = mem /\ ~ op'.restoreNic
        BY <2>3 DEF NoOp
      <3>2. PICK x : mem' = [Without(mem, i) EXCEPT !.previous = x]
        BY <2>3
      <3>3. HasSteering(mem') => HasSteering(mem)
        BY <1>0, <3>2, SteeringKept
      <3> QED BY <1>1, <2>1, <2>3, <3>1, <3>3, NicBegins
    <2> QED BY <2>1, <2>2, <2>3
  <1>5. ASSUME NEW c \in Clients, RollbackFinish(c)
        PROVE  Nic'
    <2>1. /\ pc = "idle" /\ UNCHANGED <<rules, nicDown>>
          /\ \/ UNCHANGED <<mem, pc, op>>
             \/ \E i : ActivateLocked(i, TRUE)
             \/ pc' = "rollback_persist" /\ \E i : mem' = Prepared(mem, i, pend[c].art)
      BY <1>5 DEF RollbackFinish, Idle, kernelVars
    <2>2. CASE UNCHANGED <<mem, pc, op>>
      BY <1>1, <2>1, <2>2, NicKept
    <2>3. CASE \E i : ActivateLocked(i, TRUE)
      BY <2>1, <2>3, NicActivates
    <2>4. CASE pc' = "rollback_persist" /\ \E i : mem' = Prepared(mem, i, pend[c].art)
      <3>1. PICK i : mem' = Prepared(mem, i, pend[c].art)
        BY <2>4
      <3>2. \A j, a : HasSteering(Prepared(mem, j, a)) => HasSteering(mem)
        BY <1>0, SteeringKept
      <3>3. HasSteering(mem') => HasSteering(mem)
        BY <3>1, <3>2
      <3> QED BY <1>1, <2>1, <2>4, <3>3, NicKept
    <2> QED BY <2>1, <2>2, <2>3, <2>4
  <1>6. ASSUME NEW c \in Clients, CountSucceeds(c) \/ CountFails(c) \/ GcBegin(c) \/ CountBegin(c)
        PROVE  Nic'
    <2>1. UNCHANGED <<pc, op, mem, rules, nicDown>>
      BY <1>6 DEF CountSucceeds, CountFails, GcBegin, CountBegin, RequestFrame, kernelVars
    <2> QED BY <2>1, NicSame
  <1> QED BY <1>2, <1>3, <1>4, <1>5, <1>6 DEF Pending

\* What an operation restores is what it took a copy of.
LEMMA SteeringRestored ==
    ASSUME TypeOK
    PROVE  /\ HasSteering(Restored) <=> HasSteering(op.saved)
           /\ \A b, d : HasSteering([op.saved EXCEPT !.offloads = b, !.unsafe = @ \/ ~ d]) <=> HasSteering(op.saved)
  <1>0. op.saved \in States
    BY StateTypes
  <1>1. ASSUME NEW n, n.art = op.saved.art, n.phase = op.saved.phase
        PROVE  HasSteering(n) <=> HasSteering(op.saved)
    BY <1>1, SteeringFewer
  <1>2. Restored.art = op.saved.art /\ Restored.phase = op.saved.phase
    BY <1>0 DEF Restored, States
  <1>3. ASSUME NEW b, NEW d
        PROVE  LET n == [op.saved EXCEPT !.offloads = b, !.unsafe = @ \/ ~ d] IN
                   n.art = op.saved.art /\ n.phase = op.saved.phase
    BY <1>0 DEF States
  <1> QED BY <1>1, <1>2, <1>3

\* A table is rendered from a state that the offloads are down for.
LEMMA NicProgram ==
    ASSUME NEW a, NEW b, NEW m, Installs(Program(m, a, b)) \/ InstallFails(Program(m, a, b))
    PROVE  /\ Steers(rules') => Steers(rules) \/ HasSteering(m)
           /\ Installs(Program(m, a, b)) => (Steers(rules') <=> HasSteering(m))
  BY ProgramSteers DEF Installs, InstallFails

LEMMA NicPrepareStep ==
    ASSUME TypeOK, Nic, PrepareStep
    PROVE  fatal' \/ Nic'
  <1>1. CASE PreparePersistFails
    BY <1>1 DEF PreparePersistFails, PersistFails
  <1>2. CASE PrepareInterrupted \/ PreparePersists
    <2>1. /\ pc \in {"prep_persist", "rollback_persist"} /\ pc' \in {"idle", "rollback_activate"}
          /\ UNCHANGED <<rules, nicDown>> /\ mem' \in {mem, Without(mem, op.id)}
      BY <1>2 DEF PrepareInterrupted, PreparePersists, Unprepare, Return, GoTo, kernelVars
    <2>2. HasSteering(Without(mem, op.id)) => HasSteering(mem)
      BY StateTypes, SteeringKept
    <2>3. HasSteering(mem') => HasSteering(mem)
      BY <2>1, <2>2
    <2> QED BY <2>1, <2>3, NicKept
         DEF Restoring, Activating, Deactivating, ActingPcs, ClaimPcs, DeactivationPcs, LoweredPcs,
             Underway, AskingPcs, Doubt
  <1> QED BY <1>1, <1>2 DEF PrepareStep

LEMMA NicActivateStep ==
    ASSUME TypeOK, DurableInv, Nic, ActivateStep
    PROVE  fatal' \/ Nic'
  <1> USE DEF Restoring, Activating, Deactivating, ActingPcs, ClaimPcs, DeactivationPcs, LoweredPcs, Underway
  <1>0. /\ mem \in States /\ op.saved \in States
        /\ pc \in {"act_persist", "act_stage", "act_sweep", "act_flip", "act_engine"} => op.kind = "activate"
    BY StateTypes DEF DurableInv, StepOfOperation
  <1>1. CASE RollbackActivate
    <2>1. /\ pc = "rollback_activate" /\ UNCHANGED <<rules, nicDown>>
          /\ \/ pc' = "idle" /\ op' = NoOp /\ UNCHANGED mem
             \/ \E i : ActivateLocked(i, TRUE)
      BY <1>1 DEF RollbackActivate, ActivateFrame, Return, kernelVars
    <2>2. CASE pc' = "idle" /\ op' = NoOp /\ UNCHANGED mem
      BY <2>1, <2>2, NicKept DEF AskingPcs, Doubt
    <2> QED BY <2>1, <2>2, NicActivates
  <1>2. CASE ActivatePersistFails
    BY <1>2 DEF ActivatePersistFails, PersistFails
  <1>3. CASE ActivatePersists
    <2>1. UNCHANGED <<rules, nicDown, mem, op>> /\ pc = "act_persist" /\ pc' = "offload"
      BY <1>3 DEF ActivatePersists, GoTo, kernelVars
    <2> QED BY <1>0, <2>1 DEF Nic, Lowered, AskingPcs, Doubt
  <1>4. CASE StageInstalls \/ FlipInstalls \/ (SweepSucceeds /\ pc = "act_sweep") \/ ActivateDone
    <2>1. /\ UNCHANGED <<nicDown, mem>> /\ pc \in LoweredPcs
          /\ \/ pc \in {"act_stage", "act_sweep", "act_flip"} /\ pc' \in LoweredPcs /\ op' = op
             \/ pc' = "idle"
      BY <1>4 DEF StageInstalls, FlipInstalls, SweepSucceeds, ActivateDone, GoTo, Return
    <2>2. nicDown
      BY <2>1 DEF Nic
    <2>3. Restoring' => Restoring /\ op' = op
      BY <2>1
    <2>4. pc' \notin Underway
      BY <2>1
    <2> QED BY <2>1, <2>2, <2>3, <2>4 DEF Nic, Lowered
  <1>5. CASE SweepSucceeds /\ pc = "start_sweep"
    <2>1. UNCHANGED <<nicDown, mem, op, rules>> /\ pc' = "start_flip"
      BY <1>5 DEF SweepSucceeds, GoTo
    <2> QED BY <1>5, <2>1, NicKept DEF AskingPcs, Doubt
  <1>6. CASE TransactionFails \/ SweepFails
    <2>1. /\ pc \in {"act_stage", "act_sweep", "act_flip"} /\ pc' = "comp_program"
          /\ UNCHANGED nicDown
          /\ \E b, d : mem' = [op.saved EXCEPT !.offloads = b, !.unsafe = @ \/ ~ d]
          /\ op' = op \/ op' = [op EXCEPT !.restoreNic = FALSE]
      <3>1. CASE TransactionFails
        BY <3>1 DEF TransactionFails, RestoreState, GoTo
      <3>2. CASE SweepFails
        BY <3>2 DEF SweepFails, RestoreState
      <3> QED BY <1>6, <3>1, <3>2
    <2>2. HasSteering(mem') <=> HasSteering(op.saved)
      <3>1. PICK b, d : mem' = [op.saved EXCEPT !.offloads = b, !.unsafe = @ \/ ~ d]
        BY <2>1
      <3>2. HasSteering([op.saved EXCEPT !.offloads = b, !.unsafe = @ \/ ~ d]) <=> HasSteering(op.saved)
        BY SteeringRestored
      <3> QED BY <3>1, <3>2
    <2>3. op'.restoreNic => op.restoreNic
      BY <2>1 DEF TypeOK, ControlTypeOK, Ops
    <2>4. nicDown
      BY <2>1 DEF Nic
    <2>5. op.restoreNic => ~ HasSteering(op.saved)
      BY <2>1 DEF Nic
    <2> QED BY <2>1, <2>2, <2>3, <2>4, <2>5 DEF Nic, Lowered
  <1> QED BY <1>1, <1>2, <1>3, <1>4, <1>5, <1>6 DEF ActivateStep, SweepSucceeds

LEMMA NicOffloadsFailed ==
    ASSUME TypeOK, DurableInv, Nic, NEW m, NEW durable, OffloadsFailed(m, durable), pc \in ClaimPcs,
           UNCHANGED rules, nicDown => nicDown'
    PROVE  NicInv'
  <1>1. CASE op.kind = "start"
    BY <1>1 DEF OffloadsFailed, NicInv, Ending
  <1>2. CASE op.kind # "start"
    <2>1. /\ pc' = "act_unwind"
          /\ mem' = [op.saved EXCEPT !.offloads = m.offloads, !.unsafe = @ \/ ~ durable]
      BY <1>2 DEF OffloadsFailed, GoTo
    <2>2. HasSteering(mem') <=> HasSteering(op.saved)
      BY <2>1, SteeringRestored
    <2>3. Restoring
      BY <1>2, OperationKnown DEF Restoring, Activating
    <2>4. /\ HasSteering(op.saved) => nicDown
          /\ Steers(rules) => nicDown
      BY <2>3 DEF Nic, Lowered, Doubt, ClaimPcs
    <2> QED BY <2>1, <2>2, <2>4
         DEF NicInv, Nic, Lowered, Restoring, Activating, Deactivating, ActingPcs, ClaimPcs,
             DeactivationPcs, LoweredPcs
  <1> QED BY <1>1, <1>2

LEMMA NicRestoreReturns ==
    ASSUME TypeOK, Nic, NEW failed, RestoreReturns(failed), failed = op.failed, ~ Ending,
           pc \in {"restore", "restore_persist"}, UNCHANGED <<rules, nicDown, mem>>
    PROVE  NicInv'
  <1>1. /\ op.kind # "close"
        /\ ~ HasSteering(mem)
        /\ op.kind \in {"gc", "start"} \/ ~ op.failed => ~ Steers(rules)
    BY DEF Ending, Nic
  <1>2. CASE op.kind \in {"gc", "start"}
    <2>1. pc' \in {"idle", "gc_persist", "close_rules"}
      BY <1>2 DEF RestoreReturns, AfterRestore
    <2> QED BY <1>1, <1>2, <2>1
         DEF NicInv, Ending, Nic, Lowered, Restoring, Activating, Deactivating, ActingPcs, ClaimPcs,
             DeactivationPcs, LoweredPcs
  <1>3. CASE op.kind \notin {"gc", "start"}
    <2>1. pc' = "comp_done" /\ op' = [op EXCEPT !.failed = failed]
      BY <1>1, <1>3 DEF RestoreReturns, AfterRestore
    <2>2. op'.failed = op.failed
      BY <2>1 DEF TypeOK, ControlTypeOK, Ops
    <2>3. ~ Doubt' => ~ Steers(rules)
      BY <1>1, <2>1, <2>2 DEF Doubt
    <2> QED BY <1>1, <2>1, <2>3
         DEF NicInv, Nic, Lowered, Restoring, Activating, Deactivating, ActingPcs, ClaimPcs,
             DeactivationPcs, LoweredPcs
  <1> QED BY <1>2, <1>3

LEMMA NicOffloadStep ==
    ASSUME TypeOK, DurableInv, Nic, ~ Ending, OffloadStep
    PROVE  NicInv'
  <1>0. mem \in States /\ (pc \in ClaimPcs => op.kind \in {"activate", "start"})
    BY StateTypes DEF DurableInv, StepOfOperation, ClaimPcs
  <1> USE DEF kernelVars
  <1>1. CASE OffloadsDown \/ DisableSucceeds
    <2>1. /\ pc \in ClaimPcs /\ UNCHANGED <<rules, mem, op>> /\ nicDown'
          /\ pc' = IF op.kind = "start" THEN StartPath(mem) ELSE "act_stage"
      BY <1>1 DEF OffloadsDown, DisableSucceeds, OffloadsDone, GoTo, ClaimPcs
    <2>2. Restoring' => Restoring
      BY <1>0, <2>1 DEF Restoring, Activating, Deactivating, ActingPcs, ClaimPcs, DeactivationPcs, StartPath
    <2>3. pc' \notin Underway
      BY <2>1 DEF Underway, StartPath
    <2> QED BY <2>1, <2>2, <2>3 DEF NicInv, Nic, Lowered, Underway
  <1>2. CASE OffloadsCapture \/ ClaimPersists \/ DisableFails
    <2>0. nicDown => nicDown'
      <3>1. CASE DisableFails
        <4>1. PICK undone \in BOOLEAN : nicDown' \in IF undone THEN {nicDown} ELSE {nicDown, TRUE}
          BY <3>1 DEF DisableFails
        <4> QED BY <4>1
      <3>2. CASE OffloadsCapture \/ ClaimPersists
        BY <3>2 DEF OffloadsCapture, ClaimPersists
      <3> QED BY <1>2, <3>1, <3>2
    <2>1. /\ pc \in ClaimPcs /\ pc' \in ClaimPcs /\ UNCHANGED <<rules, op>>
      BY <1>2 DEF OffloadsCapture, ClaimPersists, DisableFails, GoTo, ClaimPcs
    <2>2. Restoring' => Restoring
      BY <1>0, <2>1 DEF Restoring, Activating, Deactivating, ActingPcs, ClaimPcs, DeactivationPcs
    <2>3. pc' \notin LoweredPcs \cup Underway /\ pc' \in AskingPcs /\ ~ Doubt
      BY <2>1 DEF Underway, LoweredPcs, AskingPcs, ClaimPcs, Doubt
    <2> QED BY <2>0, <2>1, <2>2, <2>3 DEF NicInv, Nic, Lowered, Underway
  <1>3. CASE OffloadsCallFails \/ UnclaimPersists
    <2>0. nicDown => nicDown'
      <3>1. CASE OffloadsCallFails
        <4>1. nicDown' = nicDown \/ nicDown' = (nicDown \/ mem.offloads)
          BY <3>1 DEF OffloadsCallFails
        <4> QED BY <4>1
      <3>2. CASE UnclaimPersists
        BY <3>2 DEF UnclaimPersists
      <3> QED BY <1>3, <3>1, <3>2
    <2>1. /\ pc \in ClaimPcs /\ UNCHANGED rules
          /\ OffloadsFailed(mem, ~ persistFatal)
      BY <1>3 DEF OffloadsCallFails, UnclaimPersists, ClaimPcs
    <2> QED BY <2>0, <2>1, NicOffloadsFailed
  <1>4. CASE ClaimPersistFails \/ UnclaimPersistFails \/ RestorePersistFails
    BY <1>4 DEF ClaimPersistFails, UnclaimPersistFails, RestorePersistFails, PersistFails, NicInv
  <1>5. CASE RestoreNothing \/ RestorePersists
    <2>1. /\ pc \in {"restore", "restore_persist"} /\ UNCHANGED <<rules, nicDown, mem>>
          /\ RestoreReturns(op.failed)
      BY <1>5 DEF RestoreNothing, RestorePersists
    <2> QED BY <2>1, NicRestoreReturns
  <1>6. CASE RestoreCall
    <2>1. /\ pc = "restore" /\ pc' = "restore_persist" /\ UNCHANGED rules
          /\ mem' = mem \/ mem' = [mem EXCEPT !.offloads = FALSE]
          /\ op' = op \/ op' = [op EXCEPT !.failed = TRUE]
      BY <1>6 DEF RestoreCall
    <2>2. HasSteering(mem') => HasSteering(mem)
      BY <1>0, <2>1, SteeringKept
    <2>3. op'.kind = op.kind /\ (op.failed => op'.failed)
      BY <2>1, OpFields
    <2>4. /\ ~ HasSteering(mem) /\ (op.kind \in {"gc", "start"} \/ ~ op.failed => ~ Steers(rules))
      BY <2>1 DEF Nic
    <2>5. ~ Doubt' => ~ op'.failed
      BY <2>1 DEF Doubt
    <2> QED BY <2>1, <2>2, <2>3, <2>4, <2>5
         DEF NicInv, Nic, Lowered, Restoring, Activating, Deactivating, ActingPcs, ClaimPcs,
             DeactivationPcs, LoweredPcs
  <1> QED BY <1>1, <1>2, <1>3, <1>4, <1>5, <1>6 DEF OffloadStep

LEMMA NicCompensationStep ==
    ASSUME TypeOK, LoadInv, Agreement, Nic, CompensationStep
    PROVE  fatal' \/ Nic'
  <1> USE DEF Restoring, Activating, Deactivating, ActingPcs, ClaimPcs, DeactivationPcs, LoweredPcs, Underway
  <1>0. mem \in States /\ Sound(mem)
    BY StateTypes, LoadParts
  <1>1. CASE UnwindPersists \/ CompensationDone
    <2>1. /\ UNCHANGED <<rules, nicDown, mem>> /\ pc' \in {"comp_done", "idle"}
          /\ pc = "act_unwind" \/ (pc = "comp_done" /\ ~ op.failed)
      BY <1>1 DEF UnwindPersists, CompensationDone, GoTo, Return, kernelVars
    <2> QED BY <2>1, NicKept DEF AskingPcs, Doubt
  <1>2. CASE CompensationInstalls
    <2>1. /\ pc = "comp_program" /\ pc' \in {"comp_done", "comp_persist"} /\ UNCHANGED <<nicDown, mem, op>>
          /\ Installs(Program(mem, mem.active, FALSE))
      BY <1>2 DEF CompensationInstalls, OldTable, AfterOldTable, GoTo
    <2>2. Steers(rules') <=> HasSteering(mem)
      BY <2>1, NicProgram
    <2>3. Lowered(mem) /\ (op.restoreNic => ~ HasSteering(mem))
      BY <2>1 DEF Nic, AskingPcs
    <2> QED BY <2>1, <2>2, <2>3 DEF Nic, Lowered
  <1>3. CASE CompensationInstallFails
    <2>1. /\ pc = "comp_program" /\ pc' \in {"comp_done", "comp_persist"} /\ UNCHANGED <<nicDown, mem>>
          /\ op' = [op EXCEPT !.failed = TRUE]
      BY <1>3 DEF CompensationInstallFails, OldTable, AfterOldTable
    <2>2. op'.failed /\ op'.restoreNic = op.restoreNic
      BY <2>1 DEF TypeOK, ControlTypeOK, Ops
    <2>3. Lowered(mem) /\ (op.restoreNic => ~ HasSteering(mem))
      BY <2>1 DEF Nic, AskingPcs
    <2> QED BY <2>1, <2>2, <2>3 DEF Nic, Lowered, Doubt
  <1>4. CASE CompensationPersists
    <2>1. /\ pc = "comp_persist" /\ UNCHANGED <<rules, nicDown, mem, op>>
          /\ pc' = IF op.restoreNic THEN "restore" ELSE "comp_done"
      BY <1>4 DEF CompensationPersists, AfterCompensation, GoTo, kernelVars
    <2>2. op.kind \in {"activate", "deactivate"}
      BY <2>1 DEF Agreement, Assigning
    <2>3. /\ Lowered(mem) /\ (op.restoreNic => ~ HasSteering(mem))
          /\ ~ op.failed /\ Steers(rules) => HasSteering(mem)
      BY <2>1 DEF Nic, AskingPcs
    <2>4. Steers(rules) => nicDown \/ op.failed
      BY <2>1 DEF Nic, Doubt
    <2>5. ~ Doubt' => ~ op.failed
      BY <2>1 DEF Doubt
    <2> QED BY <2>1, <2>2, <2>3, <2>4, <2>5 DEF Nic, Lowered
  <1>5. CASE CompensationPersistFails
    BY <1>5 DEF CompensationPersistFails, PersistFails
  <1>6. CASE IntegrityFailureLocked
    <2>1. pc = "comp_done" /\ pc' = "rec_program" /\ UNCHANGED nicDown /\ mem' = Quarantined(mem)
      BY <1>6 DEF IntegrityFailureLocked
    <2>2. HasSteering(mem') => HasSteering(mem)
      BY <1>0, <2>1, SteeringUnassigned
    <2>3. Lowered(mem)
      BY <2>1 DEF Nic, AskingPcs
    <2> QED BY <2>1, <2>2, <2>3 DEF Nic, Lowered, Doubt
  <1> QED BY <1>1, <1>2, <1>3, <1>4, <1>5, <1>6 DEF CompensationStep

LEMMA NicDeactivateStep ==
    ASSUME TypeOK, Nic, DeactivateStep
    PROVE  fatal' \/ Nic'
  <1> USE DEF Restoring, Activating, Deactivating, ActingPcs, ClaimPcs, DeactivationPcs, LoweredPcs, Underway
  <1>1. CASE DeactivatePersists
    <2>1. UNCHANGED <<rules, nicDown, mem, op>> /\ pc = "deact_persist" /\ pc' = "deact_program"
      BY <1>1 DEF DeactivatePersists, GoTo, kernelVars
    <2> QED BY <2>1 DEF Nic, Lowered, Doubt, AskingPcs
  <1>2. CASE DeactivatePersistFails
    BY <1>2 DEF DeactivatePersistFails, PersistFails
  <1>3. CASE DeactivateInstalls
    <2>1. UNCHANGED <<nicDown, mem>> /\ pc = "deact_program" /\ pc' = "idle" /\ Installs(Program(mem, 0, FALSE))
      BY <1>3 DEF DeactivateInstalls, Return
    <2>2. Steers(rules') <=> HasSteering(mem)
      BY <2>1, NicProgram
    <2> QED BY <2>1, <2>2 DEF Nic, Lowered, AskingPcs
  <1>4. CASE DeactivateInstallFails
    <2>1. /\ UNCHANGED <<nicDown, op>> /\ pc = "deact_program" /\ pc' = "comp_program" /\ mem' = Restored
          /\ InstallFails(Program(mem, 0, FALSE))
      BY <1>4 DEF DeactivateInstallFails, GoTo
    <2>2. Steers(rules') => Steers(rules) \/ HasSteering(mem)
      BY <2>1, NicProgram
    <2>3. /\ Lowered(op.saved) /\ Lowered(mem) /\ (op.restoreNic => ~ HasSteering(op.saved))
          /\ Steers(rules) => nicDown
      BY <2>1 DEF Nic, AskingPcs, Doubt
    <2>4. HasSteering(mem') <=> HasSteering(op.saved)
      BY <2>1, SteeringRestored
    <2> QED BY <2>1, <2>2, <2>3, <2>4 DEF Nic, Lowered
  <1> QED BY <1>1, <1>2, <1>3, <1>4 DEF DeactivateStep

LEMMA NicCollectStep ==
    ASSUME TypeOK, Nic, CollectStep
    PROVE  fatal' \/ Nic'
  <1> USE DEF Restoring, Activating, Deactivating, ActingPcs, ClaimPcs, DeactivationPcs, LoweredPcs, Underway
  <1>1. CASE DrainPersists
    <2>1. UNCHANGED <<rules, nicDown, mem>> /\ pc \in {"drain_persist", "gc_persist"} /\ pc' = "idle"
      BY <1>1 DEF DrainPersists, Return, kernelVars
    <2> QED BY <2>1, NicKept DEF AskingPcs, Doubt
  <1>2. CASE DrainPersistFails
    BY <1>2 DEF DrainPersistFails, PersistFails
  <1>3. CASE GcInstalls
    <2>1. /\ UNCHANGED <<nicDown, mem, op>> /\ pc = "gc_program"
          /\ pc' = IF HasSteering(mem) THEN "gc_persist" ELSE "restore"
          /\ Installs(Program(mem, mem.active, FALSE))
      BY <1>3 DEF GcInstalls, GoTo, AfterCollection
    <2>2. Steers(rules') <=> HasSteering(mem)
      BY <2>1, NicProgram
    <2> QED BY <2>1, <2>2 DEF Nic, Lowered, AskingPcs
  <1>4. CASE GcInstallFails
    <2>1. /\ UNCHANGED <<nicDown, op>> /\ pc = "gc_program" /\ pc' = "comp_program" /\ mem' = Restored
          /\ InstallFails(Program(mem, mem.active, FALSE))
      BY <1>4 DEF GcInstallFails, GoTo
    <2>2. Steers(rules') => Steers(rules) \/ HasSteering(mem)
      BY <2>1, NicProgram
    <2>3. /\ Lowered(op.saved) /\ Lowered(mem) /\ (op.restoreNic => ~ HasSteering(op.saved))
          /\ Steers(rules) => nicDown
      BY <2>1 DEF Nic, AskingPcs, Doubt
    <2>4. HasSteering(mem') <=> HasSteering(op.saved)
      BY <2>1, SteeringRestored
    <2> QED BY <2>1, <2>2, <2>3, <2>4 DEF Nic, Lowered
  <1> QED BY <1>1, <1>2, <1>3, <1>4 DEF CollectStep

LEMMA NicReconcileStep ==
    ASSUME TypeOK, LoadInv, Nic, ~ Ending, ReconcileStep \/ ReconcileBegin
    PROVE  NicInv'
  <1> USE DEF Restoring, Activating, Deactivating, ActingPcs, ClaimPcs, DeactivationPcs, LoweredPcs, Underway
  <1>0. mem \in States /\ Sound(mem)
    BY StateTypes, LoadParts
  <1>1. CASE ReconcileBegin
    <2>1. pc = "idle" /\ pc' = "rec_program" /\ UNCHANGED nicDown /\ mem' = Quarantined(mem)
      BY <1>1 DEF ReconcileBegin, Ending
    <2>2. HasSteering(mem') => HasSteering(mem)
      BY <1>0, <2>1, SteeringUnassigned
    <2>3. Lowered(mem)
      BY <2>1 DEF Nic, AskingPcs
    <2> QED BY <2>1, <2>2, <2>3 DEF NicInv, Nic, Lowered, Doubt
  <1>2. CASE ReconcileInstalls
    <2>1. /\ pc \in {"rec_program", "rec_remove"} /\ pc' = "rec_persist" /\ UNCHANGED <<nicDown, mem>>
          /\ Installs(Program(mem, 0, FALSE)) \/ Installs(NoRules)
      BY <1>2 DEF ReconcileInstalls, GoTo
    <2>2. Steers(rules') => HasSteering(mem)
      <3>1. Installs(NoRules) => ~ Steers(rules')
        BY NoRulesSteer DEF Installs
      <3> QED BY <2>1, <3>1, NicProgram
    <2> QED BY <2>1, <2>2 DEF NicInv, Nic, Lowered, AskingPcs
  <1>3. CASE ReconcileInstallFails
    <2>1. /\ UNCHANGED <<nicDown, mem>> /\ pc \in {"rec_program", "rec_remove"}
          /\ fatal' = TRUE \/ pc' = "rec_remove"
      BY <1>3 DEF ReconcileInstallFails, GoTo
    <2> QED BY <2>1 DEF NicInv, Nic, Lowered, Doubt, AskingPcs
  <1>4. CASE ReconcilePersists
    <2>1. /\ UNCHANGED <<rules, nicDown, mem>> /\ pc = "rec_persist" /\ pc' = op.back
      BY <1>4 DEF ReconcilePersists, ReconcileReturn, kernelVars
    <2>2. pc' = "idle"
      BY <2>1 DEF Ending
    <2> QED BY <2>1, <2>2, NicKept DEF NicInv, AskingPcs, Doubt
  <1>5. CASE ReconcilePersistFails
    BY <1>5 DEF ReconcilePersistFails, PersistFails, NicInv
  <1> QED BY <1>1, <1>2, <1>3, <1>4, <1>5 DEF ReconcileStep

LEMMA NicStartStep ==
    ASSUME TypeOK, DurableInv, Nic, StartStep
    PROVE  NicInv'
  <1> USE DEF Restoring, Activating, Deactivating, ActingPcs, ClaimPcs, DeactivationPcs, LoweredPcs, Underway
  <1>0. pc \in {"start_remove", "start_load", "start_audit", "start_persist"} => op.kind = "start"
    BY DEF DurableInv, StepOfOperation
  <1>1. CASE StartRemoves
    <2>1. UNCHANGED <<nicDown, mem>> /\ pc' = "start_load" /\ Installs(NoRules)
      BY <1>1 DEF StartRemoves, GoTo
    <2>2. ~ Steers(rules')
      BY <2>1, NoRulesSteer DEF Installs
    <2> QED BY <2>1, <2>2 DEF NicInv, Nic, AskingPcs
  <1>2. CASE StartLoads \/ StartQuarantines \/ StartAudits \/ StartAuditFails
    <2>1. /\ UNCHANGED <<rules, nicDown>> /\ pc \in {"start_load", "start_audit"}
          /\ pc' \in {"start_audit", "start_persist"}
      BY <1>2 DEF StartLoads, StartQuarantines, StartAudits, StartAuditFails, GoTo, kernelVars
    <2> QED BY <2>1 DEF NicInv, Nic, AskingPcs, Doubt
  <1>3. CASE StartQuarantineFails \/ StartFails
    BY <1>3 DEF StartQuarantineFails, StartFails, Abandon, NicInv, Ending
  <1>4. CASE StartPersists
    <2>1. /\ UNCHANGED <<rules, nicDown, mem, op>> /\ pc = "start_persist"
          /\ pc' = IF HasSteering(mem) THEN "offload" ELSE StartPath(mem)
      BY <1>4 DEF StartPersists, GoTo, kernelVars
    <2>2. pc' = "offload" \/ (pc' \in {"start_boundary", "start_program"} /\ ~ HasSteering(mem))
      BY <2>1 DEF StartPath
    <2> QED BY <1>0, <2>1, <2>2 DEF NicInv, Nic, Lowered, AskingPcs, Doubt
  <1>5. CASE StartPersistFails
    BY <1>5 DEF StartPersistFails, PersistFails, NicInv
  <1>6. CASE StartInstallsBoundary \/ StartFlips \/ StartPrograms \/ StartProgramsUngated
    <2>1. /\ UNCHANGED <<nicDown, mem>> /\ pc \in {"start_boundary", "start_flip", "start_program"}
          /\ \E a, b : rules' = Program(mem, a, b)
          /\ \/ pc' \in {"start_sweep", "idle"}
             \/ pc' = "restore" /\ ~ HasSteering(mem)
      BY <1>6 DEF StartInstallsBoundary, StartFlips, StartPrograms, StartProgramsUngated, Installs, GoTo, Return
    <2>2. Steers(rules') <=> HasSteering(mem)
      BY <2>1, ProgramSteers
    <2>3. Lowered(mem)
      BY <2>1 DEF Nic, AskingPcs
    <2> QED BY <2>1, <2>2, <2>3 DEF NicInv, Nic, Lowered
  <1> QED BY <1>1, <1>2, <1>3, <1>4, <1>5, <1>6 DEF StartStep

-----------------------------------------------------------------------------
\* A process that ends

\* Config.Fatal is not taken back.
LEMMA FatalStays ==
    ASSUME [Next]_vars, fatal, ~ ProcessGone
    PROVE  fatal'
  <1> USE DEF exitVars
  <1>0. Persists \/ PersistFails => fatal' = fatal \/ fatal' = TRUE
    BY PersistsFatal
  <1>1. CASE \/ Kernel \/ UNCHANGED vars \/ IntegrityFailure \/ ReconcileStart \/ ReconcileEnd
             \/ Request \/ Pending \/ PrepareStep
    <2>1. fatal' = fatal \/ Persists \/ PersistFails
      BY <1>1
       DEF Kernel, controllerVars, vars, IntegrityFailure, ReconcileStart, ReconcileEnd,
           Request, Prepare, PrepareGateFails, ActivateForNewConnections, Rollback,
           ActivateFrame, DeactivateForNewConnections, DrainBegin, GcList, RollbackBegin,
           RequestFrame,
           Pending, GcBegin, CountBegin, CountSucceeds, CountFails, RollbackCountFails,
           DrainFinish, GcFinish, RollbackFinish,
           PrepareStep, PrepareInterrupted, PreparePersists, PreparePersistFails
    <2> QED BY <1>0, <2>1
  <1>2. CASE ActivateStep \/ OffloadStep
    <2>1. fatal' = fatal \/ Persists \/ PersistFails
      BY <1>2
       DEF ActivateStep, RollbackActivate, ActivateFrame, ActivatePersists, ActivatePersistFails,
           StageInstalls, SweepSucceeds, FlipInstalls, TransactionFails, SweepFails, ActivateDone,
           OffloadStep, OffloadsDown, OffloadsCapture, OffloadsCallFails, ClaimPersists,
           ClaimPersistFails, DisableSucceeds, DisableFails, UnclaimPersists, UnclaimPersistFails,
           RestoreNothing, RestoreCall, RestorePersists, RestorePersistFails
    <2> QED BY <1>0, <2>1
  <1>3. CASE CompensationStep \/ DeactivateStep \/ CollectStep \/ ReconcileStep
    <2>1. fatal' = fatal \/ fatal' = TRUE \/ Persists \/ PersistFails
      BY <1>3
       DEF CompensationStep, UnwindPersists, CompensationInstalls, CompensationInstallFails,
           CompensationPersists, CompensationPersistFails, CompensationDone, IntegrityFailureLocked,
           DeactivateStep, DeactivatePersists, DeactivatePersistFails, DeactivateInstalls,
           DeactivateInstallFails, CollectStep, DrainPersists, DrainPersistFails, GcInstalls,
           GcInstallFails, ReconcileStep, ReconcileInstalls, ReconcileInstallFails,
           ReconcilePersists, ReconcilePersistFails
    <2> QED BY <1>0, <2>1
  <1>4. CASE StartStep \/ CloseStep \/ Crash \/ ReconcileBegin \/ Boot \/ Shutdown
    <2>1. fatal' = fatal \/ Persists \/ PersistFails
      BY <1>4
       DEF StartStep, StartRemoves, StartLoads, StartQuarantines, StartQuarantineFails,
           StartAudits, StartAuditFails, StartPersists, StartPersistFails, StartInstallsBoundary,
           StartFlips, StartPrograms, StartProgramsUngated, StartFails, CloseStep, CloseRemoves,
           CloseFails, Exit, Crash, ReconcileBegin, Boot, Shutdown
    <2> QED BY <1>0, <2>1
  <1> QED BY <1>1, <1>2, <1>3, <1>4 DEF Next, LockedStep

\* It is started again with nothing to serve, or it goes on ending.
LEMMA EndingGoesOn ==
    ASSUME TypeOK, DurableInv, EngineInv, Ending, [Next]_vars
    PROVE  NicInv'
  <1>0. /\ op \in Ops /\ op.back \in {"idle", "close_rules", "exit"}
        /\ pc = "close_rules" => op.kind = "close"
        /\ pc \notin {"idle", "act_persist"}
        /\ pc \in ClaimPcs \cup DeactivationPcs => FALSE
    BY OpParts DEF TypeOK, ControlTypeOK, EngineInv, Ending, ClaimPcs, DeactivationPcs
  <1>1. CASE Kernel \/ UNCHANGED vars \/ IntegrityFailure \/ ReconcileStart \/ ReconcileEnd
    BY <1>1, LooksStep DEF NicInv, Ending
  <1>2. CASE Request
    BY <1>0, <1>2 DEF Request, Prepare, PrepareGateFails, ActivateForNewConnections, Rollback,
           DeactivateForNewConnections, DrainBegin, GcList, RollbackBegin, MayRequest, Idle
  <1>3. CASE Pending
    <2>1. \E c \in Clients : CountSucceeds(c) \/ CountFails(c)
      BY <1>0, <1>3 DEF Pending, GcBegin, CountBegin, RollbackCountFails, DrainFinish, GcFinish, RollbackFinish, Idle
    <2> QED BY <2>1, LooksStep DEF NicInv, Ending
  <1>4. ~ (PrepareStep \/ ActivateStep \/ CompensationStep \/ DeactivateStep \/ CollectStep \/ StartStep)
    BY DEF Ending, PrepareStep, PrepareInterrupted, PreparePersists, PreparePersistFails,
           ActivateStep, RollbackActivate, ActivatePersists, ActivatePersistFails,
           StageInstalls, SweepSucceeds, FlipInstalls, TransactionFails, SweepFails, ActivateDone,
           CompensationStep, UnwindPersists, CompensationInstalls, CompensationInstallFails,
           CompensationPersists, CompensationPersistFails, CompensationDone, IntegrityFailureLocked,
           DeactivateStep, DeactivatePersists, DeactivatePersistFails, DeactivateInstalls,
           DeactivateInstallFails, CollectStep, DrainPersists, DrainPersistFails, GcInstalls,
           GcInstallFails, StartStep, StartRemoves, StartLoads, StartQuarantines, StartQuarantineFails,
           StartAudits, StartAuditFails, StartPersists, StartPersistFails, StartInstallsBoundary,
           StartFlips, StartPrograms, StartProgramsUngated, StartFails
  <1>5. CASE OffloadStep
    <2>1. pc \in {"restore", "restore_persist"} /\ op.kind = "close"
      BY <1>5
         DEF Ending, OffloadStep, OffloadsDown, OffloadsCapture, OffloadsCallFails, ClaimPersists,
             ClaimPersistFails, DisableSucceeds, DisableFails, UnclaimPersists, UnclaimPersistFails,
             RestoreNothing, RestoreCall, RestorePersists, RestorePersistFails
    <2>2. ASSUME NEW failed, RestoreReturns(failed)
          PROVE  pc' \in {"close_rules", "exit"}
      BY <2>1, <2>2 DEF RestoreReturns, AfterRestore
    <2>3. ASSUME RestoreCall
          PROVE  pc' = "restore_persist" /\ op'.kind = "close"
      BY <2>1, <2>3, OpFields DEF RestoreCall
    <2> QED BY <1>5, <2>1, <2>2, <2>3
       DEF OffloadStep, OffloadsDown, OffloadsCapture, OffloadsCallFails, ClaimPersists,
           ClaimPersistFails, DisableSucceeds, DisableFails, UnclaimPersists, UnclaimPersistFails,
           RestoreNothing, RestorePersists, RestorePersistFails, NicInv, Ending
  <1>6. CASE ReconcileStep
    <2>1. op.back # "idle" /\ pc \in {"rec_program", "rec_remove", "rec_persist"}
      BY <1>6 DEF Ending, ReconcileStep, ReconcileInstalls, ReconcileInstallFails, ReconcilePersists,
                  ReconcilePersistFails
    <2>2. CASE ReconcileInstalls \/ ReconcileInstallFails
      BY <2>1, <2>2 DEF ReconcileInstalls, ReconcileInstallFails, GoTo, NicInv, Ending
    <2>3. CASE ReconcilePersists \/ ReconcilePersistFails
      BY <1>0, <2>1, <2>3 DEF ReconcilePersists, ReconcilePersistFails, ReconcileReturn, NicInv, Ending
    <2> QED BY <1>6, <2>2, <2>3 DEF ReconcileStep
  <1>7. CASE CloseStep \/ Crash \/ Shutdown
    BY <1>0, <1>7 DEF CloseStep, CloseRemoves, CloseFails, Exit, Crash, ProcessGone, Shutdown, Idle, GoTo, NicInv, Ending
  <1>8. CASE ReconcileBegin
    <2>1. pc \in {"close_rules", "exit"} /\ pc' = "rec_program" /\ op' = [op EXCEPT !.kind = "reconcile", !.back = pc]
      BY <1>0, <1>8 DEF ReconcileBegin
    <2>2. op'.back = pc
      BY <1>0, <2>1 DEF Ops
    <2> QED BY <2>1, <2>2 DEF NicInv, Ending
  <1>9. CASE Boot
    BY <1>9 DEF Boot, NicInv, Nic, Doubt, Restoring, Activating, Deactivating, ActingPcs, ClaimPcs,
                DeactivationPcs, LoweredPcs, AskingPcs
  <1> QED BY <1>1, <1>2, <1>3, <1>4, <1>5, <1>6, <1>7, <1>8, <1>9 DEF Next, LockedStep

LEMMA NicNext ==
    ASSUME TypeOK, DurableInv, LoadInv, EngineInv, Agreement, NicInv, [Next]_vars, [DrainsServed]_vars
    PROVE  NicInv'
  <1>1. CASE Ending
    BY <1>1, EndingGoesOn
  <1>2. CASE ProcessGone \/ (fatal /\ ~ ProcessGone)
    BY <1>2, FatalStays DEF ProcessGone, NicInv, Ending
  <1>3. CASE ~ Ending /\ ~ fatal
    <2>0. Nic
      BY <1>3 DEF NicInv
    <2>1. CASE Kernel \/ UNCHANGED vars \/ IntegrityFailure \/ ReconcileStart \/ ReconcileEnd
      <3>1. UNCHANGED <<rules, nicDown>>
        BY <2>1 DEF Kernel, KernelNext, Syn, FlowEnd, FlowIdle, controllerVars, vars, IntegrityFailure,
                    ReconcileStart, ReconcileEnd, kernelVars
      <3> QED BY <2>0, <2>1, <3>1, LooksStep, NicSame DEF NicInv
    <2>2. CASE CloseStep \/ Crash \/ Boot \/ Shutdown
      BY <1>3, <2>2 DEF CloseStep, CloseRemoves, CloseFails, Exit, Crash, ProcessGone, Boot, Shutdown,
                        Abandon, NicInv, Ending
    <2>3. CASE Pending /\ ~ UNCHANGED vars
      BY <2>0, <2>3, NicPending DEF NicInv
    <2> QED BY <1>3, <2>0, <2>1, <2>2, <2>3, NicRequest, NicPrepareStep, NicActivateStep, NicOffloadStep,
               NicCompensationStep, NicDeactivateStep, NicCollectStep, NicReconcileStep, NicStartStep
            DEF Next, LockedStep, NicInv
  <1> QED BY <1>1, <1>2, <1>3

LEMMA NicInit == Init => NicInv
  BY DEF Init, NicInv, Ending

\* Whatever fails, and whichever operations, signals and restarts overlap: while
\* the table queues packets the NIC's offloads are down, whenever the mutex is
\* free and the process is not on its way out (ensureOffloadsDown,
\* restoreOffloads, Close).  The proviso: a drain that still finds connections
\* of its generation finds it among those the table has rules for; drained by
\* an earlier request or never activated, it would come back to the table with
\* the next transaction and without the offloads (drainGenerationNumber).
THEOREM OffloadsStayDown == Spec /\ [][DrainsServed]_vars => []OffloadsDownWhileSteering
  <1>1. TypeOK /\ DurableInv /\ [Next]_vars => DurableInv'
    BY DurableNext
  <1>2. TypeOK /\ LoadInv /\ [Next]_vars => LoadInv'
    BY LoadNext
  <1>3. TypeOK /\ DurableInv /\ LoadInv /\ EngineInv /\ [Next]_vars => EngineInv'
    BY EngineNext
  <1>4. TypeOK /\ DurableInv /\ EngineInv /\ Agreement /\ [Next]_vars => Agreement'
    BY AgreementNext
  <1>5. TypeOK /\ DurableInv /\ LoadInv /\ EngineInv /\ Agreement /\ NicInv /\ [Next]_vars
           /\ [DrainsServed]_vars => NicInv'
    BY NicNext
  <1>6. NicInv => OffloadsDownWhileSteering
    BY DEF NicInv, Nic, Ending, Doubt, OffloadsDownWhileSteering, Idle
  <1> QED BY <1>1, <1>2, <1>3, <1>4, <1>5, <1>6, DurableInit, LoadInit, EngineInit, AgreementInit,
             NicInit, TypeCorrect, PTL DEF Spec

-----------------------------------------------------------------------------
\* One request at a time: what a drain has counted is served

\* A drain has noted whose generation it counts, and the connections that it
\* found are served.
Served(c) ==
    /\ pend[c].art # None
    /\ pend[c].stage = "counted" /\ pend[c].live => pend[c].id \notin Spare(mem)

DrainInv == \A c \in Clients : Counting(c) /\ pend[c].kind = "drain" => Served(c)

LEMMA ServedStep ==
    ASSUME TypeOK, DurableInv, LoadInv, EngineInv, Agreement, Serial, SerialInv, PhaseInv, DrainInv,
           [Next]_vars, NEW c \in Clients, Counting(c)', (pend[c].kind = "drain")'
    PROVE  Served(c)'
  <1>0. /\ pend'[c].kind = "drain" /\ pend'[c].stage \in {"begun", "counted"}
        /\ pend \in [Clients -> Requests] /\ NoRequest.stage = "none" /\ NoRequest.kind = "none"
    BY DEF Counting, TypeOK, ControlTypeOK, NoRequest
  <1>1. CASE pend'[c] = pend[c]
    <2>1. Counting(c) /\ Served(c) /\ pend[c] # NoRequest
      BY <1>0, <1>1 DEF Counting, DrainInv
    <2>2. Standing /\ Standing'
      BY <2>1, CountingStep DEF SerialInv
    <2>3. Spare(mem') \subseteq Spare(mem)
      <3>1. ~ Restoring /\ pc # "start_load"
        BY <2>2 DEF Standing, Restoring, Activating, Deactivating, ActingPcs, ClaimPcs, DeactivationPcs
      <3>2. ~ MakesOne
        BY <2>2 DEF Standing, MakesOne
      <3>3. ASSUME NEW d \in Clients, DrainsOne(d)
            PROVE  FALSE
        <4>1. pend[d].kind = "drain" /\ Answer(d)
          BY <3>3 DEF DrainsOne, DrainFinish
        <4>2. d = c
          BY <1>0, <2>1, <4>1 DEF SerialInv, Lone
        <4> QED BY <1>0, <4>1, <4>2 DEF Answer
      <3> QED BY <3>1, <3>2, <3>3, PhaseStep DEF PhaseMoves, MemoryBack, MemoryLoads, Activates, Retains
    <2>4. pend'[c].art # None
      BY <1>1, <2>1 DEF Served
    <2>5. pend'[c].stage = "counted" /\ pend'[c].live => pend'[c].id \notin Spare(mem')
      BY <1>1, <2>1, <2>3 DEF Served
    <2> QED BY <2>4, <2>5 DEF Served, Spare, Live, Retained, Has
  <1>2. CASE BeginsCount(c)
    <2>1. pend'[c].art # None
      <3>1. /\ pend[c].id \in Retained(mem)
            /\ pend' = [pend EXCEPT ![c].stage = "begun", ![c].art = mem.art[pend[c].id]]
        <4>1. ~ Answer(c)
          BY <1>0 DEF Answer
        <4> QED BY <1>2, <4>1 DEF BeginsCount, CountBegin
      <3>2. \A x : [[pend[c] EXCEPT !.stage = "begun"] EXCEPT !.art = x].art = x
        BY <1>0 DEF Requests
      <3>3. pend'[c].art = mem.art[pend[c].id]
        BY <1>0, <3>1, <3>2
      <3> QED BY <3>1, <3>3 DEF Retained, Has
    <2>2. pend'[c].stage = "begun"
      BY <1>2 DEF BeginsCount
    <2> QED BY <2>1, <2>2 DEF Served
  <1>3. CASE EndsCount(c)
    <2>1. /\ pend[c].kind = "drain" /\ pend[c].stage = "begun" /\ pend'[c].id = pend[c].id
          /\ pend'[c].live = Count(pend[c].id) /\ UNCHANGED <<mem, mark>>
      BY <1>0, <1>3 DEF EndsCount
    <2>2. pend[c].art # None
      BY <2>1 DEF DrainInv, Counting, Served
    <2>3. pend'[c].art = pend[c].art
      <3>1. pend' = [pend EXCEPT ![c] = [pend[c] EXCEPT !.stage = "counted", !.live = Count(pend[c].id)]]
        BY <1>0, <1>3, <2>1 DEF EndsCount, CountSucceeds
      <3>2. \A b : [pend[c] EXCEPT !.stage = "counted", !.live = b].art = pend[c].art
        BY <1>0 DEF Requests
      <3> QED BY <1>0, <3>1, <3>2
    <2>4. Count(pend[c].id) => pend[c].id \notin Spare(mem)
      BY DEF PhaseInv, AllVacated, Vacated, Vacant, Free, Count
    <2>5. pend'[c].live => pend'[c].id \notin Spare(mem')
      BY <2>1, <2>4
    <2> QED BY <2>2, <2>3, <2>5 DEF Served, Spare, Live, Retained, Has
  <1> QED BY <1>0, <1>1, <1>2, <1>3, RequestStep

LEMMA DrainNext ==
    ASSUME TypeOK, DurableInv, LoadInv, EngineInv, Agreement, Serial, SerialInv, PhaseInv, DrainInv, [Next]_vars
    PROVE  DrainInv'
  BY ServedStep DEF DrainInv

LEMMA DrainInit == Init => DrainInv
  BY DEF Init, DrainInv, Counting, NoRequest

LEMMA DrainServes ==
    ASSUME LoadInv, DrainInv
    PROVE  DrainsServed
  <1> SUFFICES ASSUME NEW c \in Clients, DrainFinish(c), Unchanged(pend[c]), pend[c].live
               PROVE  pend[c].id \in Live(mem)
    BY DEF DrainsServed
  <1>1. pend[c].kind = "drain" /\ pend[c].stage = "counted"
    BY DEF DrainFinish
  <1>2. pend[c].id \in Ids /\ mem.art[pend[c].id] # None
    BY <1>1, LoadParts DEF Asked, DrainInv, Counting, Served, Unchanged
  <1>3. pend[c].id \notin Spare(mem)
    BY <1>1 DEF DrainInv, Counting, Served
  <1> QED BY <1>2, <1>3 DEF Spare, Retained, Has

\* So with one request at a time and without idle timeout the offloads are down
\* while the table queues packets, through signals, failing calls, crashes and
\* restarts, with the provisos of the contract: no batch and no file operation
\* takes effect and reports an error, a failed startup audit had no orphans to
\* find, and nothing is collected and no drain completed after Config.Fatal.
THEOREM SerialOffloadsStayDown ==
    ASSUME Serial, ~ IdleDrain, ~ CommitOnError
    PROVE  Spec /\ [][AuditComplete /\ FatalCollectsNothing /\ FatalDrainsNothing]_vars
              => []OffloadsDownWhileSteering
  <1>1. TypeOK /\ DurableInv /\ [Next]_vars => DurableInv'
    BY DurableNext
  <1>2. TypeOK /\ LoadInv /\ [Next]_vars => LoadInv'
    BY LoadNext
  <1>3. TypeOK /\ DurableInv /\ LoadInv /\ EngineInv /\ [Next]_vars => EngineInv'
    BY EngineNext
  <1>4. TypeOK /\ DurableInv /\ EngineInv /\ Agreement /\ [Next]_vars => Agreement'
    BY AgreementNext
  <1>5. Spec /\ [][AuditComplete /\ FatalCollectsNothing /\ FatalDrainsNothing]_vars => []PhaseInv
    BY SerialPhaseHolds
  <1>6. TypeOK /\ DurableInv /\ LoadInv /\ EngineInv /\ Agreement /\ SerialInv /\ PhaseInv /\ DrainInv
           /\ [Next]_vars => DrainInv'
    BY DrainNext
  <1>7. LoadInv /\ DrainInv => [DrainsServed]_vars
    BY DrainServes
  <1>8. Spec /\ [][AuditComplete /\ FatalCollectsNothing /\ FatalDrainsNothing]_vars => [][DrainsServed]_vars
    BY <1>1, <1>2, <1>3, <1>4, <1>5, <1>6, <1>7, DurableInit, LoadInit, EngineInit, AgreementInit,
       DrainInit, SerialHolds, TypeCorrect, PTL DEF Spec
  <1> QED BY <1>8, OffloadsStayDown, PTL
==============================================================================
