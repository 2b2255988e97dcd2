----------------------------- MODULE Lifecycle -----------------------------
(***************************************************************************)
(* The operations of the steering controller                               *)
(* (internal/steering/controller.go) over the state of module Controller   *)
(* and the kernel of module Steering: the adapter protocol, integrity      *)
(* failures, startup, shutdown and crashes.                                *)
(*                                                                         *)
(* An operation that holds Controller.mu runs as a sequence of steps, one  *)
(* per call that leaves the process (state file, nft, ethtool, conntrack); *)
(* pc names the next one and op holds the operation's locals.  Between two *)
(* steps packets arrive, an integrity signal may be raised and the process *)
(* may crash.  The operations that drop the mutex around a conntrack dump  *)
(* (drain, garbage collection, rollback to an absent artifact) are in pend *)
(* while they do not hold it.  Requests that change nothing (Verify,       *)
(* Status, refused requests) are no steps.                                 *)
(***************************************************************************)
EXTENDS Controller

\* The mutex is free and the control plane sends a request.
Idle == pc = "idle"
MayRequest == Idle /\ (Serial => \A c \in Clients : pend[c] = NoRequest)

-----------------------------------------------------------------------------
\* Prepare

\* recoveryGateIntactLocked
GateIntact(e) == gate = e /\ epoch = e /\ guard /\ reconciling = "no"

\* The conditions establishRemediationGateLocked tests before it arms the guard.
GatePossible ==
    /\ mem.active = 0 /\ mem.unsafe /\ ~ persistFatal
    /\ disk # NoFile
    /\ reconciling = "no"

\* verifyCurrentProgramLocked: the table read back is the one mem asks for.
ReadsBack == rules = Program(mem, mem.active, FALSE)

\* Prepare of artifact a.  While the fault is latched the remediation gate is
\* established first, whatever becomes of the artifact.
Prepare(a) ==
    LET res == IF latched THEN Reserve(mem, Counts) ELSE reserved
        id == NextGeneration(mem, res)
        m == Prepared(mem, id, a)
        rebuilt == IF latched THEN Reconstructed(mem) ELSE engines
        new == /\ IdOf(mem, a) = 0
               /\ Cardinality(Retained(mem)) < MaxGenerations
               /\ id # 0
               /\ WithinBudgets(m)
    IN  /\ MayRequest
        /\ latched => GatePossible /\ ReadsBack
        /\ new \/ latched
        /\ reserved' = res
        /\ IF latched THEN gate' = epoch /\ guard' = TRUE ELSE UNCHANGED <<gate, guard>>
        /\ IF new
           THEN /\ mem' = m
                /\ engines' = [rebuilt EXCEPT ![id] = a]
                /\ pc' = "prep_persist"
                /\ op' = [NoOp EXCEPT !.kind = "prepare", !.id = id,
                                      !.repair = latched, !.epoch = epoch]
           ELSE /\ engines' = rebuilt
                /\ UNCHANGED <<mem, pc, op>>
        /\ UNCHANGED <<kernelVars, pend, disk, engActive, installed, nicDown, latched,
                       epoch, signalVars, exitVars, faults, restarts>>

\* establishRemediationGateLocked fails: readback mismatch, or a call fails.
PrepareGateFails ==
    /\ MayRequest /\ latched /\ GatePossible
    /\ \/ ~ ReadsBack /\ UNCHANGED faults
       \/ Fails
    /\ gate' = NoGate /\ guard' = FALSE
    /\ UNCHANGED <<kernelVars, pc, op, pend, mem, disk, engineVars, reserved, installed,
                   nicDown, latched, epoch, signalVars, exitVars, restarts>>

Unprepare(m) ==
    /\ mem' = Without(m, op.id)
    /\ engines' = [engines EXCEPT ![op.id] = None]

\* A signal broke the recovery gate: the new generation is forgotten.
PrepareInterrupted ==
    /\ pc = "prep_persist" /\ op.repair /\ ~ GateIntact(op.epoch)
    /\ Unprepare(mem)
    /\ Return
    /\ UNCHANGED <<kernelVars, pend, disk, engActive, reserved, installed, nicDown,
                   latchVars, epoch, signalVars, exitVars, faults, restarts>>

\* The durable end of Prepare, and of the preparation inside Rollback.
PreparePersists ==
    /\ \/ pc = "prep_persist" /\ (op.repair => GateIntact(op.epoch)) /\ Return
       \/ pc = "rollback_persist" /\ GoTo("rollback_activate")
    /\ Persists
    /\ UNCHANGED <<kernelVars, pend, mem, engineVars, reserved, installed, nicDown,
                   latchVars, epoch, signalVars, restarts>>

PreparePersistFails ==
    /\ \/ pc = "prep_persist" /\ (op.repair => GateIntact(op.epoch))
       \/ pc = "rollback_persist"
    /\ PersistFails /\ DurabilityLatch
    /\ Unprepare(MarkUnsafe(mem))
    /\ Return
    /\ UNCHANGED <<kernelVars, pend, engActive, reserved, installed, nicDown,
                   epoch, signalVars, restarts>>

-----------------------------------------------------------------------------
\* Activation

\* activateLocked up to its first external call.
ActivateLocked(id, repair) ==
    LET m == Activated(mem, id) IN
    IF repair /\ ~ ((guard \/ gate = NoGate) /\ reconciling = "no")
    THEN \* an integrity failure interrupted the repair
         /\ latched' = TRUE /\ guard' = FALSE /\ gate' = NoGate
         /\ Return
         /\ UNCHANGED <<mem, engines>>
    ELSE /\ mem' = IF repair THEN [m EXCEPT !.unsafe = FALSE] ELSE m
         /\ engines' = IF repair THEN Reconstructed(m) ELSE engines
         /\ guard' = (guard \/ repair)
         /\ gate' = IF repair THEN NoGate ELSE gate
         /\ UNCHANGED latched
         /\ pc' = "act_persist"
         /\ op' = [NoOp EXCEPT !.kind = "activate", !.id = id, !.repair = repair,
                       !.saved = mem, !.gate = gate, !.guard = guard, !.epoch = epoch,
                       !.restoreNic = ~ HasSteering(mem)]

\* What activateLocked leaves alone before its first external call.
ActivateFrame == UNCHANGED <<kernelVars, disk, engActive, reserved, installed, nicDown,
                             epoch, signalVars, exitVars, faults, restarts>>

ActivateForNewConnections(a) ==
    LET id == IdOf(mem, a) IN
    /\ MayRequest
    /\ latched => mem.active = 0 /\ ~ persistFatal /\ GateIntact(gate) /\ ReadsBack
    /\ id # 0 /\ id # mem.active /\ a \notin Inert
    /\ ActivateLocked(id, latched)
    /\ ActivateFrame /\ UNCHANGED pend

\* Rollback reads persistFatal before it takes the mutex: another request, or
\* the reconciler of a signal, may have set it since.
RollbackAdmitted == persistFatal => ~ Serial \/ signals > 0

\* Rollback to an artifact that is still retained.
Rollback(a) ==
    LET id == IdOf(mem, a) IN
    /\ MayRequest /\ RollbackAdmitted
    /\ id # 0 /\ a \notin Inert
    /\ ActivateLocked(id, TRUE)
    /\ ActivateFrame /\ UNCHANGED pend

\* Rollback, having prepared an absent artifact, activates it.
RollbackActivate ==
    /\ pc = "rollback_activate"
    /\ IF mem.art[op.id] \in Inert
       THEN Return /\ UNCHANGED <<mem, engines, latchVars>>
       ELSE ActivateLocked(op.id, TRUE)
    /\ ActivateFrame /\ UNCHANGED pend

\* "Durable intent comes first."
ActivatePersists ==
    /\ pc = "act_persist"
    /\ Persists /\ GoTo("offload")
    /\ UNCHANGED <<kernelVars, pend, mem, engineVars, reserved, installed, nicDown,
                   latchVars, epoch, signalVars, restarts>>

ActivatePersistFails ==
    /\ pc = "act_persist"
    /\ PersistFails /\ RestoreState(FALSE) /\ Return
    /\ UNCHANGED <<kernelVars, pend, engineVars, reserved, installed, nicDown,
                   epoch, signalVars, restarts>>

\* Transaction one: the candidate's rules, the assignment unchanged, or the
\* neutral assignment when nothing is assigned.  (Mutant: without it.)
StageTableUnguarded == Program(mem, op.saved.active, FALSE)
StageTable == Program(mem, op.saved.active, op.saved.active = 0)

StageInstalls ==
    /\ pc = "act_stage"
    /\ Installs(StageTable)
    /\ GoTo(IF op.saved.active = 0 THEN "act_sweep" ELSE "act_flip")
    /\ UNCHANGED <<flowVars, pend, mem, disk, engineVars, reserved, nicDown, latchVars,
                   epoch, signalVars, exitVars, restarts>>

\* Neutralize every unowned connection before the first assignment.
SweepSucceeds ==
    /\ pc \in {"act_sweep", "start_sweep"}
    /\ mark' = Neutralized(Flows)
    /\ GoTo(IF pc = "act_sweep" THEN "act_flip" ELSE "start_flip")
    /\ UNCHANGED <<rules, born, idle, pend, mem, disk, engineVars, reserved, installed,
                   nicDown, latchVars, epoch, signalVars, exitVars, faults, restarts>>

\* Transaction two: the new assignment.
FlipTable == Program(mem, mem.active, FALSE)

FlipInstalls ==
    /\ pc = "act_flip"
    /\ Installs(FlipTable) /\ GoTo("act_engine")
    /\ UNCHANGED <<flowVars, pend, mem, disk, engineVars, reserved, nicDown, latchVars,
                   epoch, signalVars, exitVars, restarts>>

\* A transaction fails: back to the old state, and compensate.
TransactionFails ==
    /\ \/ pc = "act_stage" /\ InstallFails(StageTable)
       \/ pc = "act_flip" /\ InstallFails(FlipTable)
    /\ RestoreState(~ persistFatal) /\ GoTo("comp_program")
    /\ UNCHANGED <<flowVars, pend, disk, engineVars, reserved, nicDown,
                   epoch, signalVars, exitVars, restarts>>

\* The sweep fails after any part of it; this branch leaves the NIC alone.
SweepFails ==
    /\ pc = "act_sweep" /\ Fails
    /\ \E fs \in SUBSET Flows : mark' = Neutralized(fs)
    /\ RestoreState(~ persistFatal)
    /\ pc' = "comp_program" /\ op' = [op EXCEPT !.restoreNic = FALSE]
    /\ UNCHANGED <<rules, born, idle, pend, disk, engineVars, reserved, installed,
                   nicDown, epoch, signalVars, exitVars, restarts>>

\* Registry.Activate, and a repair's end: the latch is cleared unless a signal
\* came after the repair sampled the epoch.
ActivateDone ==
    /\ pc = "act_engine"
    /\ engActive' = op.id
    /\ IF op.repair
       THEN latched' = ~ (guard /\ epoch = op.epoch) /\ guard' = FALSE
       ELSE UNCHANGED <<latched, guard>>
    /\ Return
    /\ UNCHANGED <<kernelVars, pend, mem, disk, engines, reserved, installed, nicDown,
                   gate, epoch, signalVars, exitVars, faults, restarts>>

-----------------------------------------------------------------------------
\* NIC offloads: ensureOffloadsDown and restoreOffloads

\* Where startup goes once offloads are down: Start's choice of path.
StartPath(m) == IF op.loaded /\ m.active # 0 /\ ~ m.unsafe THEN "start_boundary" ELSE "start_program"

OffloadsDone == GoTo(IF op.kind = "start" THEN StartPath(mem) ELSE "act_stage")

\* ensureOffloadsDown returned an error.
OffloadsFailed(m, durable) ==
    IF op.kind = "start"
    THEN /\ mem' = m
         /\ pc' = "close_rules" /\ op' = [NoOp EXCEPT !.kind = "close"]
         /\ IF durable THEN UNCHANGED latchVars ELSE DurabilityLatch
    ELSE /\ mem' = [op.saved EXCEPT !.offloads = m.offloads, !.unsafe = @ \/ ~ durable]
         /\ gate' = IF durable THEN op.gate ELSE NoGate
         /\ guard' = (guard /\ op.guard /\ durable)
         /\ latched' = (latched \/ ~ durable)
         /\ GoTo("act_unwind")

\* Ownership is held already, or nothing is enabled and none is claimed.
OffloadsDown ==
    /\ pc = "offload" /\ (mem.offloads \/ nicDown)
    /\ nicDown' = TRUE
    /\ OffloadsDone
    /\ UNCHANGED <<kernelVars, pend, mem, disk, engineVars, reserved, installed,
                   latchVars, epoch, signalVars, exitVars, faults, restarts>>

\* Capture finds enabled features: claim them in memory first.
OffloadsCapture ==
    /\ pc = "offload" /\ ~ mem.offloads /\ ~ nicDown
    /\ mem' = [mem EXCEPT !.offloads = TRUE]
    /\ GoTo("claim")
    /\ UNCHANGED <<kernelVars, pend, disk, engineVars, reserved, installed, nicDown,
                   latchVars, epoch, signalVars, exitVars, faults, restarts>>

\* Capture, or Disable of features already owned, fails.
OffloadsCallFails ==
    /\ pc = "offload" /\ Fails
    /\ nicDown' \in {nicDown, nicDown \/ mem.offloads}
    /\ OffloadsFailed(mem, ~ persistFatal)
    /\ UNCHANGED <<kernelVars, pend, disk, engineVars, reserved, installed,
                   epoch, signalVars, exitVars, restarts>>

\* "Ownership must be durable before the first feature is mutated."
ClaimPersists ==
    /\ pc = "claim"
    /\ Persists /\ GoTo("disable")
    /\ UNCHANGED <<kernelVars, pend, mem, engineVars, reserved, installed, nicDown,
                   latchVars, epoch, signalVars, restarts>>

ClaimPersistFails ==
    /\ pc = "claim"
    /\ PersistFails
    /\ OffloadsFailed([MarkUnsafe(mem) EXCEPT !.offloads = FALSE], FALSE)
    /\ UNCHANGED <<kernelVars, pend, engineVars, reserved, installed, nicDown,
                   epoch, signalVars, restarts>>

DisableSucceeds ==
    /\ pc = "disable"
    /\ nicDown' = TRUE
    /\ OffloadsDone
    /\ UNCHANGED <<kernelVars, pend, mem, disk, engineVars, reserved, installed,
                   latchVars, epoch, signalVars, exitVars, faults, restarts>>

\* Disable fails before it changed anything or part way; the undo succeeds, or
\* fails and keeps ownership.
DisableFails ==
    /\ pc = "disable" /\ Fails
    /\ \E undone \in BOOLEAN :
          /\ nicDown' \in IF undone THEN {nicDown} ELSE {nicDown, TRUE}
          /\ mem' = [mem EXCEPT !.offloads = ~ undone]
    /\ GoTo("unclaim")
    /\ UNCHANGED <<kernelVars, pend, disk, engineVars, reserved, installed,
                   latchVars, epoch, signalVars, exitVars, restarts>>

UnclaimPersists ==
    /\ pc = "unclaim"
    /\ Persists
    /\ OffloadsFailed(mem, ~ persistFatal)
    /\ UNCHANGED <<kernelVars, pend, engineVars, reserved, installed, nicDown,
                   epoch, signalVars, restarts>>

UnclaimPersistFails ==
    /\ pc = "unclaim"
    /\ PersistFails
    /\ OffloadsFailed(MarkUnsafe(mem), FALSE)
    /\ UNCHANGED <<kernelVars, pend, engineVars, reserved, installed, nicDown,
                   epoch, signalVars, restarts>>

\* Where an operation goes after restoreOffloads.  (Mutant: main retries Close
\* until it fails.)
AfterRestoreRetrying(failed) ==
    CASE op.kind = "gc" -> {IF failed THEN "idle" ELSE "gc_persist"}
      [] op.kind = "start" -> {IF failed THEN "close_rules" ELSE "idle"}
      [] op.kind = "close" -> {"close_rules"}
      [] OTHER -> {"comp_done"}
AfterRestore(failed) ==
    CASE op.kind = "gc" -> {IF failed THEN "idle" ELSE "gc_persist"}
      [] op.kind = "start" -> {IF failed THEN "close_rules" ELSE "idle"}
      [] op.kind = "close" -> IF failed THEN {"close_rules", "exit"} ELSE {"exit"}
      [] OTHER -> {"comp_done"}

RestoreReturns(failed) ==
    \E label \in AfterRestore(failed) :
        /\ pc' = label
        /\ op' = CASE label = "idle" -> NoOp
                   [] label = "close_rules" -> [NoOp EXCEPT !.kind = "close"]
                   [] OTHER -> [op EXCEPT !.failed = failed]

RestoreNothing ==
    /\ pc = "restore" /\ ~ mem.offloads
    /\ RestoreReturns(op.failed)
    /\ UNCHANGED <<kernelVars, pend, mem, disk, engineVars, reserved, installed, nicDown,
                   latchVars, epoch, signalVars, exitVars, faults, restarts>>

\* netdev.Restore succeeds and ownership ends, or fails and it is kept.
RestoreCall ==
    /\ pc = "restore" /\ mem.offloads
    /\ pc' = "restore_persist"
    /\ \/ /\ Succeeds
          /\ nicDown' = FALSE /\ mem' = [mem EXCEPT !.offloads = FALSE]
          /\ UNCHANGED op
       \/ /\ Fails
          /\ op' = [op EXCEPT !.failed = TRUE]
          /\ UNCHANGED <<nicDown, mem>>
    /\ UNCHANGED <<kernelVars, pend, disk, engineVars, reserved, installed,
                   latchVars, epoch, signalVars, exitVars, restarts>>

RestorePersists ==
    /\ pc = "restore_persist"
    /\ Persists
    /\ RestoreReturns(op.failed)
    /\ UNCHANGED <<kernelVars, pend, mem, engineVars, reserved, installed, nicDown,
                   latchVars, epoch, signalVars, restarts>>

RestorePersistFails ==
    /\ pc = "restore_persist"
    /\ PersistFails /\ DurabilityLatch
    /\ mem' = MarkUnsafe(mem)
    /\ RestoreReturns(TRUE)
    /\ UNCHANGED <<kernelVars, pend, engineVars, reserved, installed, nicDown,
                   epoch, signalVars, restarts>>

-----------------------------------------------------------------------------
\* Compensation

\* Activation persists the restored state after an offload failure.
UnwindPersists ==
    /\ pc = "act_unwind"
    /\ Persists /\ GoTo("comp_done")
    /\ UNCHANGED <<kernelVars, pend, mem, engineVars, reserved, installed, nicDown,
                   latchVars, epoch, signalVars, restarts>>

\* The old table again.  Errors are joined, so a failure does not stop the
\* compensation; garbage collection has nothing to persist.
OldTable == Program(mem, mem.active, FALSE)

AfterOldTable == IF op.kind = "gc" THEN "comp_done" ELSE "comp_persist"

CompensationInstalls ==
    /\ pc = "comp_program"
    /\ Installs(OldTable)
    /\ GoTo(AfterOldTable)
    /\ UNCHANGED <<flowVars, pend, mem, disk, engineVars, reserved, nicDown, latchVars,
                   epoch, signalVars, exitVars, restarts>>

CompensationInstallFails ==
    /\ pc = "comp_program"
    /\ InstallFails(OldTable)
    /\ pc' = AfterOldTable /\ op' = [op EXCEPT !.failed = TRUE]
    /\ UNCHANGED <<flowVars, pend, mem, disk, engineVars, reserved, nicDown, latchVars,
                   epoch, signalVars, exitVars, restarts>>

AfterCompensation == IF op.restoreNic THEN "restore" ELSE "comp_done"

CompensationPersists ==
    /\ pc = "comp_persist"
    /\ Persists /\ GoTo(AfterCompensation)
    /\ UNCHANGED <<kernelVars, pend, mem, engineVars, reserved, installed, nicDown,
                   latchVars, epoch, signalVars, restarts>>

CompensationPersistFails ==
    /\ pc \in {"comp_persist", "act_unwind"}
    /\ PersistFails /\ DurabilityLatch
    /\ mem' = MarkUnsafe(mem)
    /\ pc' = IF pc = "comp_persist" THEN AfterCompensation ELSE "comp_done"
    /\ op' = [op EXCEPT !.failed = TRUE]
    /\ UNCHANGED <<kernelVars, pend, engineVars, reserved, installed, nicDown,
                   epoch, signalVars, restarts>>

CompensationDone ==
    /\ pc = "comp_done" /\ ~ op.failed
    /\ Return
    /\ UNCHANGED <<kernelVars, pend, mem, disk, engineVars, reserved, installed, nicDown,
                   latchVars, epoch, signalVars, exitVars, faults, restarts>>

\* integrityFailureLocked: record the failure, then reconcile with the lock held.
IntegrityFailureLocked ==
    /\ pc = "comp_done" /\ op.failed
    /\ epoch' = epoch + 1 /\ latched' = TRUE /\ guard' = FALSE /\ gate' = NoGate
    /\ mem' = Quarantined(mem) /\ engActive' = 0
    /\ pc' = "rec_program" /\ op' = [NoOp EXCEPT !.kind = "reconcile"]
    /\ UNCHANGED <<kernelVars, pend, disk, engines, reserved, installed, nicDown,
                   signalVars, exitVars, faults, restarts>>

-----------------------------------------------------------------------------
\* Deactivation

\* DeactivateForNewConnections(a).  The latch is read before the mutex is
\* taken: another request or a signal may have set it since.
DeactivateForNewConnections(a) ==
    /\ MayRequest
    /\ latched => ~ Serial \/ raising \/ reconciling = "queued"
    /\ mem.active # 0 /\ mem.art[mem.active] = a
    /\ mem' = Deactivated(mem)
    /\ pc' = "deact_persist"
    /\ op' = [NoOp EXCEPT !.kind = "deactivate", !.saved = mem]
    /\ UNCHANGED <<kernelVars, pend, disk, engineVars, reserved, installed, nicDown,
                   latchVars, epoch, signalVars, exitVars, faults, restarts>>

DeactivatePersists ==
    /\ pc = "deact_persist"
    /\ Persists /\ GoTo("deact_program")
    /\ UNCHANGED <<kernelVars, pend, mem, engineVars, reserved, installed, nicDown,
                   latchVars, epoch, signalVars, restarts>>

DeactivatePersistFails ==
    /\ pc = "deact_persist"
    /\ PersistFails /\ DurabilityLatch
    /\ mem' = [Restored EXCEPT !.unsafe = MarkUnsafe(mem).unsafe]
    /\ Return
    /\ UNCHANGED <<kernelVars, pend, engineVars, reserved, installed, nicDown,
                   epoch, signalVars, restarts>>

DeactivateInstalls ==
    /\ pc = "deact_program"
    /\ Installs(Program(mem, 0, FALSE))
    /\ engActive' = 0
    /\ Return
    /\ UNCHANGED <<flowVars, pend, mem, disk, engines, reserved, nicDown, latchVars,
                   epoch, signalVars, exitVars, restarts>>

\* The old state again, then its table.  (Mutant: only the table.)
DeactivateInstallFailsKept ==
    /\ pc = "deact_program"
    /\ InstallFails(Program(mem, 0, FALSE))
    /\ GoTo("comp_program")
    /\ UNCHANGED <<flowVars, pend, mem, disk, engineVars, reserved, nicDown, latchVars,
                   epoch, signalVars, exitVars, restarts>>

DeactivateInstallFails ==
    /\ pc = "deact_program"
    /\ InstallFails(Program(mem, 0, FALSE))
    /\ mem' = Restored
    /\ GoTo("comp_program")
    /\ UNCHANGED <<flowVars, pend, disk, engineVars, reserved, nicDown, latchVars,
                   epoch, signalVars, exitVars, restarts>>

-----------------------------------------------------------------------------
\* Drain, garbage collection and rollback to an absent artifact: the mutex is
\* dropped around the conntrack dump

Answer(c) == pend' = [pend EXCEPT ![c] = NoRequest]

Ask(c, kind, stage, a, id) ==
    /\ pend[c] = NoRequest
    /\ pend' = [pend EXCEPT ![c] = [NoRequest EXCEPT !.kind = kind, !.stage = stage,
                                                     !.art = a, !.id = id]]

\* What a request changes while it does not hold the mutex.
RequestFrame == UNCHANGED <<kernelVars, mem, disk, engineVars, reserved, installed,
                            nicDown, epoch, signalVars, exitVars, restarts>>

\* Drain maps the identity to a generation.
DrainBegin(c, a) ==
    LET id == IdOf(mem, a) IN
    /\ MayRequest
    /\ id # 0
    /\ Ask(c, "drain", "matched", a, id)
    /\ RequestFrame /\ UNCHANGED <<pc, op, latchVars, faults>>

\* GarbageCollect lists its candidates: neither kept, assigned nor draining.
GcList(c, id) ==
    /\ MayRequest
    /\ Has(mem, id) /\ id # mem.active /\ mem.phase[id] # "draining"
    /\ Ask(c, "gc", "listed", mem.art[id], id)
    /\ RequestFrame /\ UNCHANGED <<pc, op, latchVars, faults>>

\* One candidate after the other: is it still the deployment that was listed?
GcBegin(c) ==
    LET r == pend[c] IN
    /\ Idle /\ r.stage = "listed"
    /\ IF mem.art[r.id] = r.art
       THEN pend' = [pend EXCEPT ![c].stage = "matched"]
       ELSE Answer(c)
    /\ RequestFrame /\ UNCHANGED <<pc, op, latchVars, faults>>

\* DrainGeneration and GarbageCollectGeneration take the mutex, and note whose
\* generation they count, which need not be the one that was looked up.
CountBegin(c) ==
    LET r == pend[c] IN
    /\ Idle /\ r.stage = "matched"
    /\ IF r.id \in Retained(mem) \ {mem.active} /\ (r.kind = "gc" => ~ latched)
       THEN pend' = [pend EXCEPT ![c].stage = "begun", ![c].art = mem.art[r.id]]
       ELSE Answer(c)
    /\ RequestFrame /\ UNCHANGED <<pc, op, latchVars, faults>>

\* Rollback to an artifact that is not retained.
RollbackBegin(c, a) ==
    /\ MayRequest /\ RollbackAdmitted
    /\ IdOf(mem, a) = 0 /\ Cardinality(Retained(mem)) < MaxGenerations
    /\ Ask(c, "rollback", "begun", a, 0)
    /\ RequestFrame /\ UNCHANGED <<pc, op, latchVars, faults>>

\* The conntrack dump, without the mutex.
CountSucceeds(c) ==
    /\ pend[c].stage = "begun"
    /\ pend' = [pend EXCEPT ![c] =
                    IF @.kind = "rollback"
                    THEN [@ EXCEPT !.stage = "counted", !.ids = Counts]
                    ELSE [@ EXCEPT !.stage = "counted", !.live = Count(pend[c].id)]]
    /\ RequestFrame /\ UNCHANGED <<pc, op, latchVars, faults>>

\* The dump of a drain or a collection fails: an error and no effect.
CountFails(c) ==
    /\ pend[c].stage = "begun" /\ pend[c].kind # "rollback"
    /\ Fails
    /\ Answer(c)
    /\ RequestFrame /\ UNCHANGED <<pc, op, latchVars>>

\* The dump of a rollback fails: the adapter is latched, and an assignment in
\* force is withdrawn.  (Mutant: it is not.)
RollbackCountFailsAssigned(c) ==
    /\ Idle /\ pend[c].stage = "begun" /\ pend[c].kind = "rollback"
    /\ Fails
    /\ latched' = TRUE /\ guard' = FALSE /\ gate' = NoGate
    /\ mem' = [mem EXCEPT !.unsafe = TRUE]
    /\ Answer(c)
    /\ UNCHANGED <<kernelVars, pc, op, disk, engineVars, reserved, installed, nicDown, epoch,
                   signalVars, exitVars, restarts>>

RollbackCountFails(c) ==
    /\ Idle /\ pend[c].stage = "begun" /\ pend[c].kind = "rollback"
    /\ Fails
    /\ latched' = TRUE /\ guard' = FALSE /\ gate' = NoGate
    /\ mem' = [mem EXCEPT !.unsafe = TRUE]
    /\ IF mem.active = 0
       THEN UNCHANGED <<pc, op>>
       ELSE pc' = "comp_done" /\ op' = [NoOp EXCEPT !.kind = "rollback", !.failed = TRUE]
    /\ Answer(c)
    /\ UNCHANGED <<kernelVars, disk, engineVars, reserved, installed, nicDown, epoch,
                   signalVars, exitVars, restarts>>

\* The request's target is still what it was when the dump began.
Unchanged(r) == mem.art[r.id] = r.art /\ r.id # mem.active

\* What a completed drain makes of the phase.  (Mutant: whatever the count.)
DrainedAnyway(r) == "drained"
DrainPhase(r) == IF r.live THEN "draining" ELSE "drained"

\* DrainGeneration takes the mutex again.
DrainFinish(c) ==
    LET r == pend[c]
        ok == Unchanged(r)
    IN  /\ Idle /\ r.kind = "drain" /\ r.stage = "counted"
        /\ mem' = IF ok THEN [mem EXCEPT !.phase[r.id] = DrainPhase(r)]
                  ELSE mem
        /\ IF ok /\ ~ r.live
           THEN pc' = "drain_persist" /\ op' = [NoOp EXCEPT !.kind = "drain"]
           ELSE UNCHANGED <<pc, op>>
        /\ Answer(c)
        /\ UNCHANGED <<kernelVars, disk, engineVars, reserved, installed, nicDown, latchVars,
                       epoch, signalVars, exitVars, faults, restarts>>

\* The checks of GarbageCollectGeneration.
MayCollect(r) == ~ r.live /\ ~ latched /\ Unchanged(r)

\* GarbageCollectGeneration takes the mutex again and forgets the generation.
GcFinish(c) ==
    LET r == pend[c]
        ok == MayCollect(r)
    IN  /\ Idle /\ r.kind = "gc" /\ r.stage = "counted"
        /\ mem' = IF ok THEN [Without(mem, r.id) EXCEPT !.previous = IF @ = r.id THEN 0 ELSE @]
                  ELSE mem
        /\ IF ok
           THEN /\ pc' = "gc_program"
                /\ op' = [NoOp EXCEPT !.kind = "gc", !.id = r.id, !.saved = mem]
           ELSE UNCHANGED <<pc, op>>
        /\ Answer(c)
        /\ UNCHANGED <<kernelVars, disk, engineVars, reserved, installed, nicDown, latchVars,
                       epoch, signalVars, exitVars, faults, restarts>>

\* The budget of generations, checked again after the dump.  (Mutant: the check
\* before the dump is relied on.)
RoomAssumed == TRUE
Room == Cardinality(Retained(mem)) < MaxGenerations

\* Rollback takes the mutex again: another request may have prepared the
\* artifact meanwhile; otherwise it is prepared under a proven-free identifier.
RollbackFinish(c) ==
    LET r == pend[c]
        known == IdOf(mem, r.art)
        res == Reserve(mem, r.ids)
        id == NextGeneration(mem, res)
        m == Prepared(mem, id, r.art)
    IN  /\ Idle /\ r.kind = "rollback" /\ r.stage = "counted"
        /\ Answer(c)
        /\ IF known # 0
           THEN /\ IF r.art \in Inert THEN UNCHANGED <<mem, engines, latchVars, pc, op>>
                   ELSE ActivateLocked(known, TRUE)
                /\ UNCHANGED reserved
           ELSE /\ reserved' = IF Room THEN res ELSE reserved
                /\ IF Room /\ id # 0 /\ WithinBudgets(m)
                   THEN /\ mem' = m
                        /\ engines' = [engines EXCEPT ![id] = r.art]
                        /\ pc' = "rollback_persist"
                        /\ op' = [NoOp EXCEPT !.kind = "rollback", !.id = id]
                   ELSE UNCHANGED <<mem, engines, pc, op>>
                /\ UNCHANGED latchVars
        /\ UNCHANGED <<kernelVars, disk, engActive, installed, nicDown, epoch, signalVars,
                       exitVars, faults, restarts>>

DrainPersists ==
    /\ pc \in {"drain_persist", "gc_persist"}
    /\ Persists /\ Return
    /\ UNCHANGED <<kernelVars, pend, mem, engineVars, reserved, installed, nicDown,
                   latchVars, epoch, signalVars, restarts>>

DrainPersistFails ==
    /\ pc \in {"drain_persist", "gc_persist"}
    /\ PersistFails /\ DurabilityLatch
    /\ mem' = MarkUnsafe(mem)
    /\ Return
    /\ UNCHANGED <<kernelVars, pend, engineVars, reserved, installed, nicDown,
                   epoch, signalVars, restarts>>

\* The offloads come back with the last steering.  (Mutant: with any.)
AfterCollectionRestoring == "restore"
AfterCollection == IF HasSteering(mem) THEN "gc_persist" ELSE "restore"

\* "Removes kernel rules before the engine": then Registry.Remove.
GcInstalls ==
    /\ pc = "gc_program"
    /\ Installs(Program(mem, mem.active, FALSE))
    /\ engines' = [engines EXCEPT ![op.id] = None]
    /\ GoTo(AfterCollection)
    /\ UNCHANGED <<flowVars, pend, mem, disk, engActive, reserved, nicDown, latchVars,
                   epoch, signalVars, exitVars, restarts>>

\* The generation is retained again.  (Mutant: its engine was removed first.)
GcInstallFailsRemoved ==
    /\ pc = "gc_program"
    /\ InstallFails(Program(mem, mem.active, FALSE))
    /\ mem' = Restored /\ engines' = [engines EXCEPT ![op.id] = None]
    /\ GoTo("comp_program")
    /\ UNCHANGED <<flowVars, pend, disk, engActive, reserved, nicDown, latchVars,
                   epoch, signalVars, exitVars, restarts>>

GcInstallFails ==
    /\ pc = "gc_program"
    /\ InstallFails(Program(mem, mem.active, FALSE))
    /\ mem' = Restored
    /\ GoTo("comp_program")
    /\ UNCHANGED <<flowVars, pend, disk, engineVars, reserved, nicDown, latchVars,
                   epoch, signalVars, exitVars, restarts>>

-----------------------------------------------------------------------------
\* Integrity failures

\* The queue pump runs from the end of Start until shutdown begins.
Running ==
    /\ pc \notin StartPcs \cup {"down", "exit", "close_rules"}
    /\ op.kind \notin {"start", "close"} /\ op.back = "idle"

\* IntegrityFailure, the hot path's non-blocking callback: recordIntegrityFailure,
IntegrityFailure ==
    /\ Running /\ ~ raising
    /\ signals < MaxSignals /\ signals' = signals + 1
    /\ epoch' = epoch + 1 /\ latched' = TRUE /\ guard' = FALSE
    /\ raising' = TRUE
    /\ UNCHANGED <<kernelVars, pc, op, pend, mem, disk, engineVars, reserved, installed,
                   nicDown, gate, reconciling, exitVars, faults, restarts>>

\* then the reconciler's goroutine, unless one is under way.
ReconcileStart ==
    /\ raising /\ raising' = FALSE
    /\ reconciling' = IF reconciling = "no" THEN "queued" ELSE reconciling
    /\ UNCHANGED <<kernelVars, pc, op, pend, mem, disk, engineVars, reserved, installed,
                   nicDown, latchVars, epoch, signals, exitVars, faults, restarts>>

\* The reconciler takes the mutex.  Nothing waits for its goroutine, so it may
\* also come before, between or after the attempts of Close.
ReconcileBegin ==
    /\ pc \in {"idle", "close_rules", "exit"} /\ reconciling = "queued"
    /\ reconciling' = "running"
    /\ mem' = Quarantined(mem) /\ gate' = NoGate /\ engActive' = 0
    /\ pc' = "rec_program" /\ op' = [op EXCEPT !.kind = "reconcile", !.back = pc]
    /\ UNCHANGED <<kernelVars, pend, disk, engines, reserved, installed, nicDown, latched,
                   guard, epoch, signals, raising, exitVars, faults, restarts>>

\* Disable new assignment, or failing that remove the table.
ReconcileInstalls ==
    /\ \/ pc = "rec_program" /\ Installs(Program(mem, 0, FALSE))
       \/ pc = "rec_remove" /\ Installs(NoRules)
    /\ GoTo("rec_persist")
    /\ UNCHANGED <<flowVars, pend, mem, disk, engineVars, reserved, nicDown, latchVars,
                   epoch, signalVars, exitVars, restarts>>

\* Neither works: Config.Fatal.  (Mutant: the failure is only logged.)
ReconcileInstallFailsLogged ==
    /\ \/ /\ pc = "rec_program" /\ InstallFails(Program(mem, 0, FALSE))
          /\ GoTo("rec_remove")
       \/ /\ pc = "rec_remove" /\ InstallFails(NoRules)
          /\ GoTo("rec_persist")
    /\ UNCHANGED <<flowVars, pend, mem, disk, engineVars, reserved, nicDown, latchVars,
                   epoch, signalVars, exitVars, restarts>>

ReconcileInstallFails ==
    /\ \/ /\ pc = "rec_program" /\ InstallFails(Program(mem, 0, FALSE))
          /\ GoTo("rec_remove") /\ UNCHANGED fatal
       \/ /\ pc = "rec_remove" /\ InstallFails(NoRules)
          /\ GoTo("rec_persist") /\ fatal' = TRUE
    /\ UNCHANGED <<flowVars, pend, mem, disk, engineVars, reserved, nicDown, latchVars,
                   epoch, signalVars, persistFatal, restarts>>

\* The mutex is released to whoever held the floor before the reconciler.
ReconcileReturn ==
    /\ pc' = op.back
    /\ op' = IF op.back = "idle" THEN NoOp ELSE [op EXCEPT !.kind = "close", !.back = "idle"]

\* The goroutine unlocks before it clears integrityReconciling.
Released == IF reconciling = "running" THEN "released" ELSE reconciling

ReconcilePersists ==
    /\ pc = "rec_persist"
    /\ Persists /\ ReconcileReturn
    /\ reconciling' = Released
    /\ UNCHANGED <<kernelVars, pend, mem, engineVars, reserved, installed, nicDown,
                   latchVars, epoch, signals, raising, restarts>>

ReconcilePersistFails ==
    /\ pc = "rec_persist"
    /\ PersistFails /\ DurabilityLatch
    /\ mem' = MarkUnsafe(mem)
    /\ ReconcileReturn
    /\ reconciling' = Released
    /\ UNCHANGED <<kernelVars, pend, engineVars, reserved, installed, nicDown, epoch, signals, raising,
                   restarts>>

ReconcileEnd ==
    /\ reconciling = "released"
    /\ reconciling' = "no"
    /\ UNCHANGED <<kernelVars, pc, op, pend, mem, disk, engineVars, reserved, installed,
                   nicDown, latchVars, epoch, signals, raising, exitVars, faults, restarts>>

-----------------------------------------------------------------------------
\* Startup, shutdown and crash

\* The process is gone: kernel, NIC and state file are what it left.
ProcessGone ==
    /\ pc' = "down" /\ op' = NoOp /\ pend' = [c \in Clients |-> NoRequest]
    /\ mem' = EmptyState /\ engines' = [i \in Ids |-> None] /\ engActive' = 0
    /\ reserved' = {} /\ installed' = FALSE
    /\ latched' = FALSE /\ guard' = FALSE /\ gate' = NoGate /\ epoch' = 0
    /\ signals' = 0 /\ raising' = FALSE /\ reconciling' = "no"
    /\ persistFatal' = FALSE /\ fatal' = FALSE
    /\ UNCHANGED <<kernelVars, disk, nicDown, faults>>

Crash ==
    /\ pc # "down" /\ restarts < MaxRestarts
    /\ restarts' = restarts + 1
    /\ ProcessGone

\* main returns once Close is done with, whatever the reconciler is doing.
Exit == (pc = "exit" \/ op.back = "exit") /\ ProcessGone /\ UNCHANGED restarts

\* The service manager starts the process; it opens its queues, then Start.
Boot ==
    /\ pc = "down"
    /\ pc' = "start_remove" /\ op' = [NoOp EXCEPT !.kind = "start"]
    /\ UNCHANGED <<kernelVars, pend, mem, disk, engineVars, reserved, installed, nicDown,
                   latchVars, epoch, signalVars, exitVars, faults, restarts>>

Abandon == pc' = "close_rules" /\ op' = [NoOp EXCEPT !.kind = "close"]

\* A table left by a predecessor is removed before anything else is read.
StartRemoves ==
    /\ pc = "start_remove"
    /\ Installs(NoRules) /\ GoTo("start_load")
    /\ UNCHANGED <<flowVars, pend, mem, disk, engineVars, reserved, nicDown, latchVars,
                   epoch, signalVars, exitVars, restarts>>

\* loadLocked
StartLoads ==
    /\ pc = "start_load"
    /\ pc' = "start_audit" /\ op' = [op EXCEPT !.loaded = disk # NoFile]
    /\ mem' = IF disk = NoFile THEN mem ELSE disk
    /\ engines' = IF disk = NoFile THEN engines ELSE disk.art
    /\ UNCHANGED <<kernelVars, pend, disk, engActive, reserved, installed, nicDown,
                   latchVars, epoch, signalVars, exitVars, faults, restarts>>

\* The file is corrupt or incompatible: quarantineStateLocked renames it.  Its
\* offload ownership is kept when the file could be decoded.
StartQuarantines ==
    /\ pc = "start_load" /\ disk # NoFile /\ Fails
    /\ \E kept \in {disk.offloads, FALSE} :
          mem' = [EmptyState EXCEPT !.unsafe = TRUE, !.offloads = kept]
    /\ disk' = NoFile /\ latched' = TRUE
    /\ GoTo("start_audit")
    /\ UNCHANGED <<kernelVars, pend, engineVars, reserved, installed, nicDown, guard, gate,
                   epoch, signalVars, exitVars, restarts>>

\* The quarantine itself fails: Start returns its error, and Close follows.
StartQuarantineFails ==
    /\ pc = "start_load" /\ disk # NoFile /\ Fails
    /\ \E kept \in {disk.offloads, FALSE} : mem' = [mem EXCEPT !.offloads = kept]
    /\ disk' \in {disk, NoFile}
    /\ Abandon
    /\ UNCHANGED <<kernelVars, pend, engineVars, reserved, installed, nicDown, latchVars,
                   epoch, signalVars, exitVars, restarts>>

\* The conntrack audit: marks without a generation are orphans.
StartAudits ==
    LET orphans == {i \in Counts : ~ Has(mem, i)}
        m == IF orphans # {} THEN [mem EXCEPT !.unsafe = TRUE, !.active = 0] ELSE mem
    IN  /\ pc = "start_audit"
        /\ reserved' = Reserve(mem, Counts)
        /\ mem' = IF m.unsafe THEN Quarantined(m) ELSE m
        /\ latched' = (latched \/ m.unsafe)
        /\ pc' = "start_persist" /\ op' = [op EXCEPT !.audited = TRUE]
        /\ UNCHANGED <<kernelVars, pend, disk, engineVars, installed, nicDown, guard, gate,
                       epoch, signalVars, exitVars, faults, restarts>>

StartAuditFails ==
    /\ pc = "start_audit" /\ Fails
    /\ mem' = [mem EXCEPT !.unsafe = TRUE, !.active = 0,
                   !.phase = [i \in Ids |-> IF mem.phase[i] = "active" THEN "draining" ELSE mem.phase[i]]]
    /\ latched' = TRUE
    /\ GoTo("start_persist")
    /\ UNCHANGED <<kernelVars, pend, disk, engineVars, reserved, installed, nicDown, guard,
                   gate, epoch, signalVars, exitVars, restarts>>

StartPersists ==
    /\ pc = "start_persist"
    /\ Persists
    /\ GoTo(IF HasSteering(mem) THEN "offload" ELSE StartPath(mem))
    /\ UNCHANGED <<kernelVars, pend, mem, engineVars, reserved, installed, nicDown,
                   latchVars, epoch, signalVars, restarts>>

StartPersistFails ==
    /\ pc = "start_persist"
    /\ PersistFails /\ DurabilityLatch
    /\ mem' = MarkUnsafe(mem)
    /\ Abandon
    /\ UNCHANGED <<kernelVars, pend, engineVars, reserved, installed, nicDown,
                   epoch, signalVars, restarts>>

\* restoreActiveAfterRestartLocked: neutral assignment, sweep, assignment.
StartInstallsBoundary ==
    /\ pc = "start_boundary"
    /\ Installs(Program(mem, 0, TRUE)) /\ GoTo("start_sweep")
    /\ UNCHANGED <<flowVars, pend, mem, disk, engineVars, reserved, nicDown, latchVars,
                   epoch, signalVars, exitVars, restarts>>

StartFlips ==
    /\ pc = "start_flip"
    /\ Installs(Program(mem, mem.active, FALSE))
    /\ engActive' = mem.active
    /\ Return
    /\ UNCHANGED <<flowVars, pend, mem, disk, engines, reserved, nicDown, latchVars,
                   epoch, signalVars, exitVars, restarts>>

\* Start without an assignment to restore: keep serving the connections that
\* carry a mark and, when quarantined, try to open the remediation gate.
StartPrograms ==
    /\ pc = "start_program"
    /\ Installs(Program(mem, mem.active, FALSE))
    /\ engActive' = 0
    /\ IF mem.unsafe /\ op.audited
       THEN gate' = epoch /\ guard' = TRUE
       ELSE UNCHANGED <<gate, guard>>
    /\ IF HasSteering(mem) \/ ~ mem.offloads THEN Return ELSE GoTo("restore")
    /\ UNCHANGED <<flowVars, pend, mem, disk, engines, reserved, nicDown, latched,
                   epoch, signalVars, exitVars, restarts>>

\* The same, with a gate proof that fails.
StartProgramsUngated ==
    /\ pc = "start_program" /\ mem.unsafe /\ op.audited
    /\ Fails
    /\ rules' = Program(mem, mem.active, FALSE) /\ installed' = Steers(rules')
    /\ engActive' = 0
    /\ IF HasSteering(mem) \/ ~ mem.offloads THEN Return ELSE GoTo("restore")
    /\ UNCHANGED <<flowVars, pend, mem, disk, engines, reserved, nicDown, latchVars,
                   epoch, signalVars, exitVars, restarts>>

\* Any other failing nft call or sweep of Start: Start returns its error.
StartFails ==
    /\ \/ pc = "start_remove" /\ InstallFails(NoRules) /\ UNCHANGED mark
       \/ pc = "start_boundary" /\ InstallFails(Program(mem, 0, TRUE)) /\ UNCHANGED mark
       \/ /\ pc \in {"start_program", "start_flip"}
          /\ InstallFails(Program(mem, mem.active, FALSE)) /\ UNCHANGED mark
       \/ /\ pc = "start_sweep" /\ Fails
          /\ \E fs \in SUBSET Flows : mark' = Neutralized(fs)
          /\ UNCHANGED <<rules, installed>>
    /\ Abandon
    /\ UNCHANGED <<born, idle, pend, mem, disk, engineVars, reserved, nicDown, latchVars,
                   epoch, signalVars, exitVars, restarts>>

\* The operator stops the process, or Config.Fatal did.
Shutdown ==
    /\ Idle
    /\ \/ fatal /\ UNCHANGED restarts
       \/ restarts < MaxRestarts /\ restarts' = restarts + 1
    /\ Abandon
    /\ UNCHANGED <<kernelVars, pend, mem, disk, engineVars, reserved, installed, nicDown,
                   latchVars, epoch, signalVars, exitVars, faults>>

\* Controller.Close: the offloads stay down until the table is gone.  The
\* caller retries a few times, then leaves the rest to process exit.
CloseRemoves ==
    /\ pc = "close_rules"
    /\ Installs(NoRules) /\ GoTo("restore")
    /\ UNCHANGED <<flowVars, pend, mem, disk, engineVars, reserved, nicDown, latchVars,
                   epoch, signalVars, exitVars, restarts>>

CloseFails ==
    /\ pc = "close_rules"
    /\ InstallFails(NoRules)
    /\ \/ GoTo("close_rules")
       \/ pc' = "exit" /\ op' = [op EXCEPT !.failed = TRUE]
    /\ UNCHANGED <<flowVars, pend, mem, disk, engineVars, reserved, nicDown, latchVars,
                   epoch, signalVars, exitVars, restarts>>

-----------------------------------------------------------------------------
\* Specification

Init ==
    /\ KernelInit
    /\ pc = "down" /\ op = NoOp /\ pend = [c \in Clients |-> NoRequest]
    /\ mem = EmptyState /\ disk = NoFile
    /\ engines = [i \in Ids |-> None] /\ engActive = 0
    /\ reserved = {} /\ installed = FALSE /\ nicDown = FALSE
    /\ latched = FALSE /\ guard = FALSE /\ gate = NoGate /\ epoch = 0
    /\ signals = 0 /\ raising = FALSE /\ reconciling = "no"
    /\ persistFatal = FALSE /\ fatal = FALSE
    /\ faults = MaxFaults /\ restarts = 0

controllerVars == <<pc, op, pend, mem, disk, engineVars, reserved, installed, nicDown,
                    latchVars, epoch, signalVars, exitVars, faults, restarts>>

Kernel == KernelNext /\ UNCHANGED controllerVars

Request ==
    \/ \E a \in Artifacts :
          \/ Prepare(a) \/ ActivateForNewConnections(a) \/ Rollback(a)
          \/ DeactivateForNewConnections(a)
          \/ \E c \in Clients : DrainBegin(c, a) \/ RollbackBegin(c, a)
    \/ \E c \in Clients, i \in Ids : GcList(c, i)
    \/ PrepareGateFails

\* Steps of requests that do not hold the mutex.
Pending ==
    \E c \in Clients :
        \/ GcBegin(c) \/ CountBegin(c) \/ CountSucceeds(c) \/ CountFails(c) \/ RollbackCountFails(c)
        \/ DrainFinish(c) \/ GcFinish(c) \/ RollbackFinish(c)

\* Steps of the operation that holds the mutex.
PrepareStep == PrepareInterrupted \/ PreparePersists \/ PreparePersistFails

ActivateStep ==
    \/ RollbackActivate \/ ActivatePersists \/ ActivatePersistFails
    \/ StageInstalls \/ SweepSucceeds \/ FlipInstalls \/ TransactionFails
    \/ SweepFails \/ ActivateDone

OffloadStep ==
    \/ OffloadsDown \/ OffloadsCapture \/ OffloadsCallFails
    \/ ClaimPersists \/ ClaimPersistFails \/ DisableSucceeds \/ DisableFails
    \/ UnclaimPersists \/ UnclaimPersistFails
    \/ RestoreNothing \/ RestoreCall \/ RestorePersists \/ RestorePersistFails

CompensationStep ==
    \/ UnwindPersists \/ CompensationInstalls \/ CompensationInstallFails
    \/ CompensationPersists \/ CompensationPersistFails
    \/ CompensationDone \/ IntegrityFailureLocked

DeactivateStep ==
    \/ DeactivatePersists \/ DeactivatePersistFails
    \/ DeactivateInstalls \/ DeactivateInstallFails

CollectStep == DrainPersists \/ DrainPersistFails \/ GcInstalls \/ GcInstallFails

ReconcileStep ==
    \/ ReconcileInstalls \/ ReconcileInstallFails
    \/ ReconcilePersists \/ ReconcilePersistFails

StartStep ==
    \/ StartRemoves \/ StartLoads \/ StartQuarantines \/ StartQuarantineFails
    \/ StartAudits \/ StartAuditFails
    \/ StartPersists \/ StartPersistFails \/ StartInstallsBoundary \/ StartFlips
    \/ StartPrograms \/ StartProgramsUngated \/ StartFails

CloseStep == CloseRemoves \/ CloseFails \/ Exit

LockedStep ==
    \/ PrepareStep \/ ActivateStep \/ OffloadStep \/ CompensationStep
    \/ DeactivateStep \/ CollectStep \/ ReconcileStep \/ StartStep \/ CloseStep

Next ==
    \/ Kernel \/ Request \/ Pending \/ LockedStep
    \/ IntegrityFailure \/ ReconcileStart \/ ReconcileBegin \/ ReconcileEnd
    \/ Crash \/ Boot \/ Shutdown

Spec == Init /\ [][Next]_vars

\* Every external call returns (each has a deadline, or is a file operation);
\* goroutines run; sync.Mutex hands itself over to a waiter that starves, so
\* whoever waits for it gets it; the service manager restarts the process, and
\* Config.Fatal makes main shut it down.
Fairness ==
    /\ WF_vars(LockedStep) /\ SF_vars(Pending)
    /\ WF_vars(ReconcileStart) /\ SF_vars(ReconcileBegin) /\ WF_vars(ReconcileEnd)
    /\ WF_vars(Boot) /\ SF_vars(fatal /\ Shutdown)

LiveSpec == Spec /\ Fairness

-----------------------------------------------------------------------------
\* Safety

\* From the removal of a predecessor's table to shutdown, every generation the
\* table queues packets for has its own engine, and the assigned generation
\* has queue rules: "No generation can be assigned before its engine and queue
\* rules exist" (docs/adapter-v1.md); GC "removes kernel rules before the
\* engine" (GarbageCollectGeneration).
EngineCoverage ==
    /\ pc \notin {"down", "start_remove", "exit"} /\ op.kind # "close" =>
          \A i \in Ids : rules.scope[i] # None => engines[i] = rules.scope[i]
    /\ rules.active # 0 => rules.scope[rules.active] # None

\* At any instant, a crash included, the state file can rebuild the engine of
\* every generation the table assigns or queues: "after a crash every mark
\* either transaction can assign still has a reconstructable engine"
\* (activateLocked).
DurableCoverage ==
    \A i \in Ids : rules.scope[i] # None => disk # NoFile /\ disk.art[i] = rules.scope[i]

\* A connection marked for one strategy is never queued to another's engine:
\* "a connection cannot switch strategy halfway through" (README.md).
Affinity ==
    \A f \in Flows : mark[f] \in Ids => rules.scope[mark[f]] \in {None, born[f]}

\* The lifecycle implements the contract of module Connections, through failing
\* calls, crashes and restarts: in particular a half-open connection from before
\* an activation never gets a strategy, and Drain and GarbageCollect leave a
\* connection that is still there alone (README.md: connections "remain on their
\* original generation through rollback and drain").
Contract == INSTANCE Connections WITH
    steering <- rules # NoRules,
    owner <- [f \in Flows |->
                CASE mark[f] = Absent -> "absent"
                  [] mark[f] = Unmarked -> "unowned"
                  [] mark[f] = Neutral -> "neutral"
                  [] OTHER -> born[f]],
    serving <- [f \in Flows |-> IF mark[f] \in Ids THEN rules.scope[mark[f]] ELSE None]
KeepsContract == Contract!Spec

\* A serving controller that is not unsafe accounts for every marked
\* connection: its generation is retained, or its identifier is reserved after
\* the state that described it was lost.  GC collects "only at zero flows"
\* (GarbageCollectGeneration, reconcileReservedGenerationsLocked).
EveryMarkAccountedFor ==
    Running /\ ~ mem.unsafe =>
        \A f \in Flows : mark[f] \in Ids => mem.art[mark[f]] = born[f] \/ mark[f] \in reserved

\* No half-open connection is unowned while a generation is assigned, so a
\* retransmitted SYN cannot join it: "a pre-activation half-open SYN
\* retransmission cannot cross the boundary" (README.md).
NeutralBoundary == rules.active # 0 => \A f \in Flows : mark[f] # Unmarked

\* An unsafe controller at rest assigns nothing, unless the process is exiting,
\* whichever failures led there: "integrityReconciling closes the window between
\* the nonblocking hot-path latch and the background transition to a verified
\* inactive program" (Controller, reconcileIntegrityFailureLocked, Start).
UnsafeAssignsNothing ==
    Idle /\ mem.unsafe /\ ~ fatal => mem.active = 0 /\ rules.active = 0 /\ engActive = 0

\* At rest the kernel assigns what the controller and the registry say,
\* whichever step of an operation failed (the compensations of activateLocked,
\* deactivateLocked and GarbageCollectGeneration).
AssignmentAgrees ==
    Idle /\ ~ fatal => rules.active = mem.active /\ engActive = mem.active /\ ~ rules.neutral

\* What loadLocked demands of a state file: the active generation is retained in
\* phase active, identities are mapped once and the budgets hold.
Loadable(m) ==
    /\ m.active # 0 => Has(m, m.active) /\ m.phase[m.active] = "active"
    /\ \A i, j \in Retained(m) : m.art[i] = m.art[j] => i = j
    /\ Cardinality(Retained(m)) <= MaxGenerations
    /\ WithinBudgets(m)

\* Every state file the controller writes is one its own loader accepts
\* (persistLocked, loadLocked).
DiskLoadable == disk # NoFile => Loadable(disk)

\* At rest the NIC's offloads are down whenever the table queues packets
\* (ensureOffloadsDown, restoreOffloads, Close).
OffloadsDownWhileSteering == Idle /\ ~ fatal /\ Steers(rules) => nicDown

\* steeringInstalled is TRUE only while the table queues traffic: "a failed or
\* in-flight transaction leaves it false" (Controller).
SteeringHonest == installed => Steers(rules)

-----------------------------------------------------------------------------
\* Liveness

\* After an integrity signal new connections stop being assigned, through the
\* reconciler, the removal of the table, or the end of the process ("uses the
\* callback to stop assigning new connections", nfqueue.Config).  Of one signal: a
\* second, while the first one's reconciler is leaving, may go without one.
SignalStopsAssignment == raising \/ reconciling = "queued" ~> rules.active = 0

\* Whatever fails, every operation gives the mutex back: no chain of
\* compensations and retries runs for ever.
OperationsEnd == []<>(pc \in {"idle", "down"})
=============================================================================
