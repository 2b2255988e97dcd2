----------------------------- MODULE Controller -----------------------------
(***************************************************************************)
(* State of the steering controller (internal/steering/controller.go), the *)
(* engine registry it drives (internal/engine/registry.go), its state file *)
(* and the NIC, with the operators its operations share.  Module Lifecycle *)
(* gives the operations.                                                   *)
(*                                                                         *)
(* Abstractions.  An artifact stands for identity, metadata and DNA, so    *)
(* the checks that compare them are equality of artifacts.  The failure    *)
(* text is dropped.  A state file, an interface and a conntrack counter    *)
(* are configured and nft is in use.                                       *)
(***************************************************************************)
EXTENDS Steering

CONSTANTS
    Inert,           \* artifacts whose scope is empty (Scope.Idle)
    EveryPacket,     \* artifacts of the every-packet resource class
    MaxGenerations, MaxScoped, MaxEvery,    \* the three budgets
    Clients,         \* concurrent requests that may be between two lock holds
    Serial,          \* TRUE: the control plane sends one request at a time
    CommitOnError,   \* TRUE: a failed nft call may have committed
    MaxFaults,       \* bound: failing calls in a behaviour
    MaxRestarts,     \* bound: crashes and operator shutdowns
    MaxSignals       \* bound: integrity signals of one process

ASSUME LifecycleAssumption ==
    /\ Inert \subseteq Artifacts /\ EveryPacket \subseteq Artifacts
    /\ MaxGenerations \in Nat /\ MaxScoped \in Nat /\ MaxEvery \in Nat
    /\ Serial \in BOOLEAN /\ CommitOnError \in BOOLEAN
    /\ MaxFaults \in Nat /\ MaxRestarts \in Nat /\ MaxSignals \in Nat

VARIABLES
    pc,           \* the step the holder of Controller.mu takes next
    op,           \* its locals
    pend,         \* each client's request between two lock holds
    mem,          \* what persistLocked writes: generations, active, ...
    disk,         \* the state file, or NoFile
    engines,      \* Registry.byID
    engActive,    \* Registry.active
    reserved,     \* reservedGenerations
    installed,    \* steeringInstalled
    nicDown,      \* the NIC's offloads are disabled
    latched, guard, epoch,  \* faultLatched, repairGuard, faultEpoch
    gate,         \* remediationEpoch while remediation holds, else NoGate
    signals,      \* integrity signals of this process so far
    raising,      \* a queue pump is inside IntegrityFailure
    reconciling,  \* integrityReconciling and its goroutine
    persistFatal, \* persistFatal
    fatal,        \* Config.Fatal was called: the process is on its way out
    faults,       \* failures left
    restarts      \* crashes and shutdowns so far

latchVars == <<latched, guard, gate>>
signalVars == <<signals, raising, reconciling>>
exitVars == <<persistFatal, fatal>>
engineVars == <<engines, engActive>>
vars == <<kernelVars, pc, op, pend, mem, disk, engineVars, reserved, installed,
          nicDown, latchVars, epoch, signalVars, exitVars, faults, restarts>>

-----------------------------------------------------------------------------
\* Controller state

Phases == {"prepared", "active", "draining", "drained"}

\* persistedState: an absent generation has artifact None and phase "drained".
States == [art : [Ids -> OrNone(Artifacts)], phase : [Ids -> Phases],
           active : 0 .. MaxId, previous : 0 .. MaxId,
           unsafe : BOOLEAN, offloads : BOOLEAN]

EmptyState == [art |-> [i \in Ids |-> None], phase |-> [i \in Ids |-> "drained"],
               active |-> 0, previous |-> 0, unsafe |-> FALSE, offloads |-> FALSE]

NoFile == [none |-> TRUE]
NoGate == -1

Kinds == {"none", "prepare", "rollback", "activate", "deactivate", "gc", "drain",
          "reconcile", "start", "close"}

\* Locals of the operation that holds the mutex.  saved, gate, guard and epoch
\* are the values it restores or compares with; failed accumulates the errors
\* of a compensation; back is where the reconciler returns to.
Ops == [kind : Kinds, id : 0 .. MaxId, repair : BOOLEAN, saved : States,
        gate : Int, guard : BOOLEAN, epoch : Nat, restoreNic : BOOLEAN,
        failed : BOOLEAN, loaded : BOOLEAN, audited : BOOLEAN,
        back : {"idle", "close_rules", "exit"}]

NoOp == [kind |-> "none", id |-> 0, repair |-> FALSE, saved |-> EmptyState,
         gate |-> NoGate, guard |-> FALSE, epoch |-> 0, restoreNic |-> FALSE,
         failed |-> FALSE, loaded |-> FALSE, audited |-> FALSE, back |-> "idle"]

Requests == [kind : {"none", "drain", "gc", "rollback"},
             stage : {"none", "listed", "matched", "begun", "counted"},
             art : OrNone(Artifacts), id : 0 .. MaxId, live : BOOLEAN, ids : SUBSET Ids]

NoRequest == [kind |-> "none", stage |-> "none", art |-> None, id |-> 0,
              live |-> FALSE, ids |-> {}]

StartPcs == {"start_remove", "start_load", "start_audit", "start_persist",
             "start_program", "start_boundary", "start_sweep", "start_flip"}
OffloadPcs == {"offload", "claim", "disable", "unclaim", "restore", "restore_persist"}
ActivatePcs == {"rollback_persist", "rollback_activate", "act_persist", "act_unwind",
                "act_stage", "act_sweep", "act_flip", "act_engine"}
OtherPcs == {"down", "idle", "exit", "close_rules", "prep_persist", "deact_persist",
             "deact_program", "drain_persist", "gc_program", "gc_persist",
             "comp_program", "comp_persist", "comp_done",
             "rec_program", "rec_remove", "rec_persist"}

Pcs == StartPcs \cup OffloadPcs \cup ActivatePcs \cup OtherPcs

ControlTypeOK ==
    /\ pc \in Pcs
    /\ op \in Ops
    /\ pend \in [Clients -> Requests]

StateTypeOK ==
    /\ mem \in States
    /\ disk \in States \cup {NoFile}
    /\ engines \in [Ids -> OrNone(Artifacts)]
    /\ engActive \in 0 .. MaxId
    /\ reserved \in SUBSET Ids

FlagTypeOK ==
    /\ installed \in BOOLEAN /\ nicDown \in BOOLEAN
    /\ latched \in BOOLEAN /\ guard \in BOOLEAN
    /\ signals \in Nat /\ raising \in BOOLEAN
    /\ reconciling \in {"no", "queued", "running", "released"}
    /\ persistFatal \in BOOLEAN /\ fatal \in BOOLEAN

CountTypeOK ==
    /\ epoch \in Nat /\ gate \in Int
    /\ faults \in Nat /\ restarts \in Nat

\* Every variable has a value of its type: the identifiers a failed or
\* exhausted allocation yields are ones a mark can carry
\* (nextGenerationLocked, generation.Mark).
TypeOK == KernelTypeOK /\ ControlTypeOK /\ StateTypeOK /\ FlagTypeOK /\ CountTypeOK

-----------------------------------------------------------------------------
\* Operators on the controller's state

Has(m, i) == m.art[i] # None
Retained(m) == {i \in Ids : Has(m, i)}

\* liveLocked: generations the kernel keeps rules for.
Live(m) == {i \in Retained(m) : m.phase[i] \in {"active", "draining"}}

\* hasSteeringLocked
HasSteering(m) == \E i \in Live(m) : m.art[i] \notin Inert

\* managerLocked: the table for the live generations and an assignment.
Program(m, active, neutral) ==
    [scope |-> [i \in Ids |-> IF i \in Live(m) /\ m.art[i] \notin Inert THEN m.art[i] ELSE None],
     active |-> active, neutral |-> neutral]

\* generationForIdentityLocked
IdOf(m, a) == IF \E i \in Ids : m.art[i] = a THEN CHOOSE i \in Ids : m.art[i] = a ELSE 0

\* validateResourceBudgetsLocked
WithinBudgets(m) ==
    LET every == {i \in Retained(m) : m.art[i] \in EveryPacket} IN
    /\ Cardinality(every) <= MaxEvery
    /\ Cardinality(Retained(m) \ every) <= MaxScoped

\* nextGenerationLocked: the lowest identifier neither retained nor reserved.
\* (Mutants: reserved identifiers too; without the check against MaxID.)
NextGenerationUnreserved(m, res) ==
    LET free == Ids \ Retained(m) IN
    IF free = {} THEN 0 ELSE CHOOSE i \in free : \A j \in free : i <= j

NextGenerationUnbounded(m, res) ==
    LET free == 1 .. (MaxId + 1) \ (Retained(m) \cup res) IN
    CHOOSE i \in free : \A j \in free : i <= j

NextGeneration(m, res) ==
    LET free == Ids \ (Retained(m) \cup res) IN
    IF free = {} THEN 0 ELSE CHOOSE i \in free : \A j \in free : i <= j

\* reconcileReservedGenerationsLocked: marks that no retained generation owns.
\* (Mutant: only the ones found by an earlier audit.)
ReserveKnown(m, counts) == counts \cap reserved
Reserve(m, counts) == {i \in counts : i \in reserved \/ ~ Has(m, i)}

\* prepareArtifactLocked
Prepared(m, i, a) == [m EXCEPT !.art[i] = a, !.phase[i] = "prepared"]

Without(m, i) == [m EXCEPT !.art[i] = None, !.phase[i] = "drained"]

\* The assignments activateLocked makes before its first external call.
Activated(m, i) ==
    [m EXCEPT !.phase = [j \in Ids |-> IF j = i THEN "active"
                                       ELSE IF j = m.active THEN "draining" ELSE m.phase[j]],
              !.previous = IF m.active \in {0, i} THEN m.previous ELSE m.active,
              !.active = i]

\* The assignments deactivateLocked makes before its first external call.
Deactivated(m) ==
    [m EXCEPT !.phase[m.active] = "draining", !.previous = m.active, !.active = 0]

\* The assignments of reconcileIntegrityFailureLocked.
Quarantined(m) ==
    [m EXCEPT !.phase = [i \in Ids |-> IF i = m.active THEN "draining" ELSE m.phase[i]],
              !.active = 0, !.unsafe = TRUE]

\* reconstructAndVerifyLiveEnginesLocked
Reconstructed(m) == [i \in Ids |-> IF i \in Live(m) THEN m.art[i] ELSE engines[i]]

-----------------------------------------------------------------------------
\* Outcomes of the calls that leave the process

Fails == faults > 0 /\ faults' = faults - 1
Succeeds == UNCHANGED faults

\* programModeLocked: nft replaces the table atomically and reads it back.
Installs(r) == rules' = r /\ installed' = Steers(r) /\ Succeeds

\* steeringInstalled is cleared first.  (Mutant: it is only set on success.)
InstallFailsStale(r) ==
    /\ Fails
    /\ rules' \in {rules} \cup (IF CommitOnError THEN {r} ELSE {})
    /\ UNCHANGED installed

InstallFails(r) ==
    /\ Fails
    /\ rules' \in {rules} \cup (IF CommitOnError THEN {r} ELSE {})
    /\ installed' = FALSE

\* persistLocked: the file is replaced by rename; a failed sync of the
\* directory leaves either version behind.  (Mutant: live generations only.)
PersistsLive ==
    /\ disk' = [mem EXCEPT !.art = [i \in Ids |-> IF i \in Live(mem) THEN mem.art[i] ELSE None]]
    /\ Succeeds /\ UNCHANGED exitVars

Persists == disk' = mem /\ Succeeds /\ UNCHANGED exitVars
PersistFails ==
    /\ Fails
    /\ disk' \in {disk, mem}
    /\ persistFatal' = TRUE /\ fatal' = TRUE

\* persistenceFailureLocked: the first durability failure latches the adapter.
DurabilityLatch ==
    IF persistFatal THEN UNCHANGED latchVars
    ELSE latched' = TRUE /\ guard' = FALSE /\ gate' = NoGate
MarkUnsafe(m) == IF persistFatal THEN m ELSE [m EXCEPT !.unsafe = TRUE]

\* restoreState of activateLocked, before or after a durability failure.
RestoreState(durable) ==
    /\ mem' = [op.saved EXCEPT !.offloads = mem.offloads, !.unsafe = @ \/ ~ durable]
    /\ gate' = IF durable THEN op.gate ELSE NoGate
    /\ guard' = (guard /\ op.guard /\ durable)
    /\ latched' = (latched \/ ~ durable)

\* Deactivation and garbage collection restore only what they changed.
Restored == [op.saved EXCEPT !.offloads = mem.offloads, !.unsafe = mem.unsafe]

GoTo(label) == pc' = label /\ UNCHANGED op
Return == pc' = "idle" /\ op' = NoOp
=============================================================================
