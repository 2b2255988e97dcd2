--------------------------- MODULE TypeCorrectness ---------------------------
(***************************************************************************)
(* Every step of Lifecycle keeps TypeOK, for every value of the constants: *)
(* what the operators of Controller return, one lemma per action, then the *)
(* theorem.                                                                *)
(***************************************************************************)
EXTENDS Lifecycle, WellFoundedInduction, TLAPS

USE SteeringAssumption, LifecycleAssumption
   DEF TypeOK, ControlTypeOK, StateTypeOK, FlagTypeOK, CountTypeOK

-----------------------------------------------------------------------------
\* What the operators of Controller return

\* Every table the controller programs is a table.
LEMMA ProgramType ==
    ASSUME NEW m \in States, NEW active \in 0 .. MaxId, NEW neutral \in BOOLEAN
    PROVE  Program(m, active, neutral) \in Tables
  BY DEF Program, Tables, States, OrNone, Live, Retained, Has, Ids

LEMMA NoRulesType == NoRules \in Tables
  BY DEF NoRules, Tables, OrNone, Ids

LEMMA EmptyStateType == EmptyState \in States
  BY DEF EmptyState, States, OrNone, Phases, Ids

LEMMA NoOpType == NoOp \in Ops
  BY EmptyStateType DEF NoOp, Ops, Kinds, NoGate

LEMMA IdOfType ==
    ASSUME NEW m \in States, NEW a
    PROVE  IdOf(m, a) \in 0 .. MaxId
  BY DEF IdOf, Ids

\* A nonempty set of natural numbers has a least element.
LEMMA LeastExists ==
    ASSUME NEW S \in SUBSET Nat, S # {}
    PROVE  \E i \in S : \A j \in S : i <= j
  <1> DEFINE Less == OpToRel(<, Nat)
  <1>1. PICK i \in S : \A j \in S : ~ (<<j, i>> \in Less)
    <2> HIDE DEF Less
    <2> QED BY NatLessThanWellFounded, WFMin DEF Less
  <1>2. \A j \in S : ~ (<<j, i>> \in Less) => i <= j
    BY DEF OpToRel
  <1> QED BY <1>1, <1>2

LEMMA NextGenerationType ==
    ASSUME NEW m, NEW res
    PROVE  NextGeneration(m, res) \in 0 .. MaxId
  <1> DEFINE free == Ids \ (Retained(m) \cup res)
  <1>1. CASE free = {}
    BY <1>1 DEF NextGeneration
  <1>2. CASE free # {}
    <2>1. \E i \in free : \A j \in free : i <= j
      <3>1. free \in SUBSET Nat
        BY DEF Ids
      <3> HIDE DEF free
      <3> QED BY <1>2, <3>1, LeastExists
    <2> QED BY <1>2, <2>1 DEF NextGeneration, Ids
  <1> QED BY <1>1, <1>2

\* What the updates of the controller's state return
LEMMA StateParts ==
    ASSUME NEW m \in States
    PROVE  /\ m.active \in 0 .. MaxId /\ m.previous \in 0 .. MaxId
           /\ m.unsafe \in BOOLEAN /\ m.offloads \in BOOLEAN
           /\ m.art \in [Ids -> OrNone(Artifacts)] /\ m.phase \in [Ids -> Phases]
  BY DEF States

\* One field is assigned.
LEMMA ArtType ==
    ASSUME NEW m \in States, NEW art \in [Ids -> OrNone(Artifacts)]
    PROVE  [m EXCEPT !.art = art] \in States
  BY DEF States

LEMMA PhaseType ==
    ASSUME NEW m \in States, NEW phase \in [Ids -> Phases]
    PROVE  [m EXCEPT !.phase = phase] \in States
  BY DEF States

LEMMA ActiveType ==
    ASSUME NEW m \in States, NEW i \in 0 .. MaxId
    PROVE  [m EXCEPT !.active = i] \in States
  BY DEF States

LEMMA PreviousType ==
    ASSUME NEW m \in States, NEW i \in 0 .. MaxId
    PROVE  [m EXCEPT !.previous = i] \in States
  BY DEF States

LEMMA UnsafeType ==
    ASSUME NEW m \in States, NEW b \in BOOLEAN
    PROVE  [m EXCEPT !.unsafe = b] \in States
  BY DEF States

LEMMA OffloadsType ==
    ASSUME NEW m \in States, NEW b \in BOOLEAN
    PROVE  [m EXCEPT !.offloads = b] \in States
  BY DEF States

\* Several fields are assigned: one after the other.
LEMMA FlagsType ==
    ASSUME NEW m \in States, NEW b \in BOOLEAN, NEW d \in BOOLEAN
    PROVE  /\ [m EXCEPT !.offloads = b, !.unsafe = d] \in States
           /\ [m EXCEPT !.unsafe = d, !.offloads = b] \in States
  <1>1. [m EXCEPT !.offloads = b, !.unsafe = d] = [[m EXCEPT !.offloads = b] EXCEPT !.unsafe = d]
    OBVIOUS
  <1>2. [m EXCEPT !.unsafe = d, !.offloads = b] = [[m EXCEPT !.unsafe = d] EXCEPT !.offloads = b]
    OBVIOUS
  <1>3. [[m EXCEPT !.offloads = b] EXCEPT !.unsafe = d] \in States
    BY OffloadsType, UnsafeType
  <1>4. [[m EXCEPT !.unsafe = d] EXCEPT !.offloads = b] \in States
    BY OffloadsType, UnsafeType
  <1> QED BY <1>1, <1>2, <1>3, <1>4

LEMMA QuarantineType ==
    ASSUME NEW m \in States, NEW phase \in [Ids -> Phases], NEW b \in BOOLEAN
    PROVE  /\ [m EXCEPT !.unsafe = b, !.active = 0] \in States
           /\ [m EXCEPT !.unsafe = b, !.active = 0, !.phase = phase] \in States
           /\ [m EXCEPT !.phase = phase, !.active = 0, !.unsafe = b] \in States
  <1> DEFINE u == [m EXCEPT !.unsafe = b]
             a == [u EXCEPT !.active = 0]
             p == [m EXCEPT !.phase = phase]
             q == [p EXCEPT !.active = 0]
  <1>1. 0 \in 0 .. MaxId
    OBVIOUS
  <1>2. u \in States /\ p \in States
    BY UnsafeType, PhaseType
  <1>3. a \in States /\ q \in States
    <2> HIDE DEF u, p
    <2> QED BY <1>1, <1>2, ActiveType
  <1>4. [a EXCEPT !.phase = phase] \in States /\ [q EXCEPT !.unsafe = b] \in States
    <2> HIDE DEF a, q
    <2> QED BY <1>3, UnsafeType, PhaseType
  <1>5. /\ [m EXCEPT !.unsafe = b, !.active = 0] = a
        /\ [m EXCEPT !.unsafe = b, !.active = 0, !.phase = phase] = [a EXCEPT !.phase = phase]
        /\ [m EXCEPT !.phase = phase, !.active = 0, !.unsafe = b] = [q EXCEPT !.unsafe = b]
    OBVIOUS
  <1> QED BY <1>3, <1>4, <1>5

LEMMA PreparedType ==
    ASSUME NEW m \in States, NEW i, NEW a \in Artifacts
    PROVE  Prepared(m, i, a) \in States
  BY DEF Prepared, States, Phases, OrNone

LEMMA WithoutType ==
    ASSUME NEW m \in States, NEW i
    PROVE  Without(m, i) \in States
  <1>1. [m.art EXCEPT ![i] = None] \in [Ids -> OrNone(Artifacts)]
    BY DEF States, OrNone
  <1>2. [m.phase EXCEPT ![i] = "drained"] \in [Ids -> Phases]
    BY DEF States, Phases
  <1> QED BY <1>1, <1>2 DEF Without, States

LEMMA ActivatedType ==
    ASSUME NEW m \in States, NEW i \in 0 .. MaxId
    PROVE  Activated(m, i) \in States
  BY DEF Activated, States, Phases

LEMMA DeactivatedType ==
    ASSUME NEW m \in States
    PROVE  Deactivated(m) \in States
  <1> DEFINE phase == [m.phase EXCEPT ![m.active] = "draining"]
             p == [m EXCEPT !.phase = phase]
             q == [p EXCEPT !.previous = m.active]
  <1>1. phase \in [Ids -> Phases]
    BY DEF States, Phases
  <1>2. m.active \in 0 .. MaxId /\ 0 \in 0 .. MaxId
    BY StateParts
  <1>3. p \in States
    <2> HIDE DEF phase
    <2> QED BY <1>1, PhaseType
  <1>4. q \in States
    <2> HIDE DEF p
    <2> QED BY <1>2, <1>3, PreviousType
  <1>5. [q EXCEPT !.active = 0] \in States
    <2> HIDE DEF q
    <2> QED BY <1>2, <1>4, ActiveType
  <1>6. Deactivated(m) = [q EXCEPT !.active = 0]
    BY DEF Deactivated
  <1> QED BY <1>5, <1>6

LEMMA QuarantinedType ==
    ASSUME NEW m \in States
    PROVE  Quarantined(m) \in States
  <1>1. [i \in Ids |-> IF i = m.active THEN "draining" ELSE m.phase[i]] \in [Ids -> Phases]
    BY DEF States, Phases
  <1> QED BY <1>1, QuarantineType DEF Quarantined

LEMMA AuditFailedType ==
    ASSUME NEW m \in States
    PROVE  [m EXCEPT !.unsafe = TRUE, !.active = 0,
                !.phase = [i \in Ids |-> IF m.phase[i] = "active" THEN "draining" ELSE m.phase[i]]]
           \in States
  <1>1. [i \in Ids |-> IF m.phase[i] = "active" THEN "draining" ELSE m.phase[i]] \in [Ids -> Phases]
    BY DEF States, Phases
  <1> QED BY <1>1, QuarantineType

LEMMA CollectedType ==
    ASSUME NEW m \in States, NEW i
    PROVE  [Without(m, i) EXCEPT !.previous = IF @ = i THEN 0 ELSE @] \in States
  <1> DEFINE w == Without(m, i)
  <1>1. w \in States
    BY WithoutType
  <1> HIDE DEF w
  <1>2. (IF w.previous = i THEN 0 ELSE w.previous) \in 0 .. MaxId
    BY <1>1, StateParts
  <1>3. [w EXCEPT !.previous = IF w.previous = i THEN 0 ELSE w.previous] \in States
    BY <1>1, <1>2, PreviousType
  <1> QED BY <1>3 DEF w

LEMMA DrainedType ==
    ASSUME NEW m \in States, NEW r
    PROVE  [m EXCEPT !.phase[r.id] = DrainPhase(r)] \in States
  BY DEF States, Phases, DrainPhase

LEMMA ReconstructedType ==
    ASSUME NEW m \in States, engines \in [Ids -> OrNone(Artifacts)]
    PROVE  Reconstructed(m) \in [Ids -> OrNone(Artifacts)]
  BY DEF Reconstructed, States
-----------------------------------------------------------------------------
\* The locals an operation starts with, and their updates

LEMMA NewOpType ==
    ASSUME NEW k \in Kinds
    PROVE  [NoOp EXCEPT !.kind = k] \in Ops
  BY NoOpType DEF Ops

LEMMA PrepareOpType ==
    ASSUME NEW k \in Kinds, NEW i \in 0 .. MaxId, NEW b \in BOOLEAN, NEW e \in Nat
    PROVE  [NoOp EXCEPT !.kind = k, !.id = i, !.repair = b, !.epoch = e] \in Ops
  BY NoOpType DEF Ops

LEMMA RollbackOpType ==
    ASSUME NEW i \in 0 .. MaxId
    PROVE  /\ [NoOp EXCEPT !.kind = "rollback", !.id = i] \in Ops
           /\ [NoOp EXCEPT !.kind = "rollback", !.failed = TRUE] \in Ops
  BY NoOpType DEF Ops, Kinds

LEMMA SavingOpType ==
    ASSUME NEW i \in 0 .. MaxId, NEW m \in States
    PROVE  /\ [NoOp EXCEPT !.kind = "gc", !.id = i, !.saved = m] \in Ops
           /\ [NoOp EXCEPT !.kind = "deactivate", !.saved = m] \in Ops
  BY NoOpType DEF Ops, Kinds

LEMMA ActivateOpType ==
    ASSUME NEW i \in 0 .. MaxId, NEW b \in BOOLEAN, NEW m \in States, NEW g \in Int,
           NEW h \in BOOLEAN, NEW e \in Nat, NEW n \in BOOLEAN
    PROVE  [NoOp EXCEPT !.kind = "activate", !.id = i, !.repair = b, !.saved = m,
                        !.gate = g, !.guard = h, !.epoch = e, !.restoreNic = n] \in Ops
  BY NoOpType DEF Ops, Kinds

LEMMA OpUpdatesType ==
    ASSUME op \in Ops
    PROVE  /\ [op EXCEPT !.failed = TRUE] \in Ops
           /\ [op EXCEPT !.restoreNic = FALSE] \in Ops
           /\ [op EXCEPT !.audited = TRUE] \in Ops
           /\ [op EXCEPT !.kind = "close", !.back = "idle"] \in Ops
           /\ \A b \in BOOLEAN : [op EXCEPT !.failed = b] \in Ops
           /\ \A b \in BOOLEAN : [op EXCEPT !.loaded = b] \in Ops
           /\ \A p \in {"idle", "close_rules", "exit"} :
                 [op EXCEPT !.kind = "reconcile", !.back = p] \in Ops
  BY DEF Ops, Kinds

LEMMA OpParts ==
    ASSUME op \in Ops
    PROVE  /\ op.id \in 0 .. MaxId /\ op.saved \in States /\ op.gate \in Int
           /\ op.guard \in BOOLEAN /\ op.failed \in BOOLEAN /\ op.epoch \in Nat
           /\ op.repair \in BOOLEAN /\ op.back \in {"idle", "close_rules", "exit"}
  BY DEF Ops

-----------------------------------------------------------------------------
\* What the calls that leave the process return

LEMMA FaultsType ==
    ASSUME faults \in Nat, Fails \/ Succeeds
    PROVE  faults' \in Nat
  BY DEF Fails, Succeeds

LEMMA SteersType == ASSUME NEW r PROVE Steers(r) \in BOOLEAN
  BY DEF Steers

LEMMA InstallsType ==
    ASSUME TypeOK, NEW r \in Tables, Installs(r) \/ InstallFails(r)
    PROVE  rules' \in Tables /\ installed' \in BOOLEAN /\ faults' \in Nat
  BY FaultsType, SteersType DEF TypeOK, KernelTypeOK, Installs, InstallFails

LEMMA PersistsType ==
    ASSUME TypeOK, Persists \/ PersistFails
    PROVE  /\ disk' \in States \cup {NoFile} /\ faults' \in Nat
           /\ persistFatal' \in BOOLEAN /\ fatal' \in BOOLEAN
  BY FaultsType DEF TypeOK, Persists, PersistFails, exitVars

LEMMA LatchType ==
    ASSUME TypeOK, DurabilityLatch
    PROVE  latched' \in BOOLEAN /\ guard' \in BOOLEAN /\ gate' \in Int
  <1>1. CASE UNCHANGED latchVars
    <2>1. latched' = latched /\ guard' = guard /\ gate' = gate
      BY <1>1 DEF latchVars
    <2> QED BY <2>1, Zenon DEF TypeOK
  <1>2. CASE latched' = TRUE /\ guard' = FALSE /\ gate' = NoGate
    <2>1. gate' \in Int
      BY <1>2 DEF NoGate
    <2> QED BY <1>2, <2>1
  <1> QED BY <1>1, <1>2, Zenon DEF DurabilityLatch

LEMMA MarkUnsafeType ==
    ASSUME NEW m \in States
    PROVE  MarkUnsafe(m) \in States
  BY UnsafeType DEF MarkUnsafe

LEMMA RestoredType ==
    ASSUME TypeOK
    PROVE  /\ Restored \in States
           /\ [Restored EXCEPT !.unsafe = MarkUnsafe(mem).unsafe] \in States
  <1>1. Restored \in States
    BY FlagsType, OpParts, StateParts DEF Restored, TypeOK
  <1>2. MarkUnsafe(mem).unsafe \in BOOLEAN
    BY MarkUnsafeType, StateParts DEF TypeOK
  <1> QED BY <1>1, <1>2, UnsafeType

LEMMA CompensatedType ==
    ASSUME TypeOK, NEW b \in BOOLEAN, NEW durable \in BOOLEAN
    PROVE  [op.saved EXCEPT !.offloads = b, !.unsafe = @ \/ ~ durable] \in States
  <1>1. (op.saved.unsafe \/ ~ durable) \in BOOLEAN
    OBVIOUS
  <1>2. op.saved \in States
    BY OpParts DEF TypeOK
  <1>3. [op.saved EXCEPT !.offloads = b, !.unsafe = op.saved.unsafe \/ ~ durable] \in States
    BY <1>1, <1>2, FlagsType
  <1> QED BY <1>3

LEMMA RestoreStateType ==
    ASSUME TypeOK, NEW durable \in BOOLEAN, RestoreState(durable)
    PROVE  mem' \in States /\ latched' \in BOOLEAN /\ guard' \in BOOLEAN /\ gate' \in Int
  <1>1. mem' \in States
    BY CompensatedType, StateParts DEF RestoreState, TypeOK
  <1>2. gate' \in Int
    BY OpParts DEF RestoreState, TypeOK, NoGate
  <1>3. latched' \in BOOLEAN /\ guard' \in BOOLEAN
    BY DEF RestoreState
  <1> QED BY <1>1, <1>2, <1>3

LEMMA KernelKept ==
    ASSUME TypeOK, UNCHANGED kernelVars
    PROVE  KernelTypeOK'
  BY DEF TypeOK, KernelTypeOK, kernelVars, flowVars

LEMMA TableType ==
    ASSUME TypeOK, rules' \in Tables, UNCHANGED flowVars
    PROVE  KernelTypeOK'
  BY DEF TypeOK, KernelTypeOK, flowVars

LEMMA SweepType ==
    ASSUME TypeOK, NEW fs \in SUBSET Flows, mark' = Neutralized(fs), UNCHANGED <<rules, born, idle>>
    PROVE  KernelTypeOK'
  BY DEF TypeOK, KernelTypeOK, Neutralized, Marks, Neutral

\* One type invariant for the kernel's own steps: packets, expiry, silence.
LEMMA KernelStepType ==
    ASSUME TypeOK, KernelNext
    PROVE  KernelTypeOK'
  <1> USE DEF TypeOK, KernelTypeOK
  <1>1. ASSUME NEW f \in Flows, Syn(f) PROVE KernelTypeOK'
    <2>1. Assignment \in Marks
      BY DEF Assignment, Marks, Ids, Tables, Neutral, Unmarked
    <2>2. (IF rules.active # 0 THEN rules.scope[rules.active] ELSE None) \in OrNone(Artifacts)
      <3>1. rules.scope \in [Ids -> OrNone(Artifacts)] /\ rules.active \in 0 .. MaxId
        BY DEF Tables
      <3>2. rules.active # 0 => rules.active \in Ids
        BY <3>1 DEF Ids
      <3> QED BY <3>1, <3>2 DEF OrNone
    <2> QED BY <1>1, <2>1, <2>2 DEF Syn
  <1>2. ASSUME NEW f \in Flows, FlowEnd(f) PROVE KernelTypeOK'
    BY <1>2 DEF FlowEnd, Marks, Absent, OrNone
  <1>3. ASSUME NEW f \in Flows, FlowIdle(f) PROVE KernelTypeOK'
    BY <1>3 DEF FlowIdle
  <1> QED BY <1>1, <1>2, <1>3 DEF KernelNext

LEMMA ActivateLockedType ==
    ASSUME TypeOK, NEW i \in 0 .. MaxId, NEW b \in BOOLEAN, ActivateLocked(i, b)
    PROVE  /\ mem' \in States /\ engines' \in [Ids -> OrNone(Artifacts)]
           /\ latched' \in BOOLEAN /\ guard' \in BOOLEAN /\ gate' \in Int
           /\ pc' \in {"idle", "act_persist"} /\ op' \in Ops
  <1> DEFINE m == Activated(mem, i)
             interrupted == b /\ ~ ((guard \/ gate = NoGate) /\ reconciling = "no")
             o == [NoOp EXCEPT !.kind = "activate", !.id = i, !.repair = b, !.saved = mem,
                       !.gate = gate, !.guard = guard, !.epoch = epoch,
                       !.restoreNic = ~ HasSteering(mem)]
  <1>1. mem \in States /\ engines \in [Ids -> OrNone(Artifacts)] /\ gate \in Int /\ epoch \in Nat
    BY DEF TypeOK
  <1>2. latched \in BOOLEAN /\ guard \in BOOLEAN
    BY Zenon DEF TypeOK
  <1>3. NoGate \in Int
    BY DEF NoGate
  <1>4. CASE interrupted
    <2>1. /\ latched' = TRUE /\ guard' = FALSE /\ gate' = NoGate /\ pc' = "idle" /\ op' = NoOp
          /\ mem' = mem /\ engines' = engines
      BY <1>4, Zenon DEF ActivateLocked, Return
    <2> QED BY <1>1, <1>3, <2>1, NoOpType
  <1>5. CASE ~ interrupted
    <2>1. m \in States /\ [m EXCEPT !.unsafe = FALSE] \in States
      BY <1>1, ActivatedType, UnsafeType
    <2>2. Reconstructed(m) \in [Ids -> OrNone(Artifacts)]
      BY <1>1, <2>1, ReconstructedType
    <2>3. o \in Ops
      <3>1. (~ HasSteering(mem)) \in BOOLEAN
        OBVIOUS
      <3> QED BY <1>1, <1>2, <3>1, ActivateOpType, ZenonT(30)
    <2> HIDE DEF m, o
    <2>4. /\ mem' = IF b THEN [m EXCEPT !.unsafe = FALSE] ELSE m
          /\ engines' = IF b THEN Reconstructed(m) ELSE engines
          /\ guard' = (guard \/ b)
          /\ gate' = IF b THEN NoGate ELSE gate
          /\ latched' = latched
          /\ pc' = "act_persist" /\ op' = o
      BY <1>5, Zenon DEF ActivateLocked, m, o
    <2>5. guard' \in BOOLEAN
      BY <2>4
    <2>6. /\ mem' \in States /\ engines' \in [Ids -> OrNone(Artifacts)] /\ gate' \in Int
          /\ op' \in Ops
      BY <1>1, <1>3, <2>1, <2>2, <2>3, <2>4
    <2> QED BY <1>2, <2>4, <2>5, <2>6, Zenon
  <1> QED BY <1>4, <1>5

-----------------------------------------------------------------------------
\* What the steps that several actions share return

LEMMA OffloadsFailedType ==
    ASSUME TypeOK, NEW m \in States, NEW durable \in BOOLEAN, OffloadsFailed(m, durable)
    PROVE  /\ mem' \in States /\ op' \in Ops
           /\ latched' \in BOOLEAN /\ guard' \in BOOLEAN /\ gate' \in Int
           /\ pc' \in {"close_rules", "act_unwind"}
  <1>1. CASE op.kind = "start"
    <2>1. [NoOp EXCEPT !.kind = "close"] \in Ops
      BY NewOpType DEF Kinds
    <2>2. (UNCHANGED latchVars \/ DurabilityLatch) =>
             latched' \in BOOLEAN /\ guard' \in BOOLEAN /\ gate' \in Int
      BY LatchType DEF TypeOK, latchVars
    <2> QED BY <1>1, <2>1, <2>2 DEF OffloadsFailed
  <1>2. CASE op.kind # "start"
    <2>1. mem' \in States
      BY <1>2, CompensatedType, StateParts DEF OffloadsFailed
    <2>2. gate' \in Int
      BY <1>2, OpParts DEF OffloadsFailed, NoGate
    <2>3. latched' \in BOOLEAN /\ guard' \in BOOLEAN /\ op' \in Ops /\ pc' = "act_unwind"
      BY <1>2, Zenon DEF OffloadsFailed, GoTo, TypeOK
    <2> QED BY <2>1, <2>2, <2>3
  <1> QED BY <1>1, <1>2

LEMMA RestoreReturnsType ==
    ASSUME TypeOK, NEW failed \in BOOLEAN, RestoreReturns(failed)
    PROVE  /\ op' \in Ops
           /\ pc' \in {"idle", "gc_persist", "close_rules", "exit", "comp_done"}
  <1>1. pc' \in {"idle", "gc_persist", "close_rules", "exit", "comp_done"}
    BY DEF RestoreReturns, AfterRestore
  <1>2. [NoOp EXCEPT !.kind = "close"] \in Ops /\ [op EXCEPT !.failed = failed] \in Ops
    BY NewOpType, OpUpdatesType DEF Kinds, TypeOK
  <1>3. op' \in {NoOp, [NoOp EXCEPT !.kind = "close"], [op EXCEPT !.failed = failed]}
    BY DEF RestoreReturns
  <1> QED BY <1>1, <1>2, <1>3, NoOpType

LEMMA ReconcileReturnType ==
    ASSUME TypeOK, ReconcileReturn
    PROVE  op' \in Ops /\ pc' \in {"idle", "close_rules", "exit"}
  BY OpParts, OpUpdatesType, NoOpType DEF TypeOK, ReconcileReturn

LEMMA ProgramsType ==
    ASSUME TypeOK
    PROVE  /\ Program(mem, 0, FALSE) \in Tables /\ Program(mem, 0, TRUE) \in Tables
           /\ Program(mem, mem.active, FALSE) \in Tables
  <1> DEFINE scope(m) == [i \in Ids |-> IF i \in Live(m) /\ m.art[i] \notin Inert
                                         THEN m.art[i] ELSE None]
  <1>1. mem.active \in 0 .. MaxId /\ 0 \in 0 .. MaxId
    <2>1. mem \in States
      BY DEF TypeOK
    <2> QED BY <2>1, StateParts
  <1>2. scope(mem) \in [Ids -> OrNone(Artifacts)]
    BY DEF TypeOK, States, OrNone, Live, Retained, Has
  <1> HIDE DEF scope
  <1> QED BY <1>1, <1>2 DEF Program, Tables, scope

LEMMA StageTableType ==
    ASSUME TypeOK
    PROVE  StageTable \in Tables
  <1> DEFINE b == op.saved.active = 0
  <1>1. b \in BOOLEAN
    OBVIOUS
  <1>2. op.saved.active \in 0 .. MaxId
    BY OpParts, StateParts
  <1> HIDE DEF b
  <1>3. Program(mem, op.saved.active, b) \in Tables
    BY <1>1, <1>2, ProgramType
  <1> QED BY <1>3 DEF StageTable, b

LEMMA NoRequestType == NoRequest \in Requests
  <1>1. /\ {} \in SUBSET Ids /\ FALSE \in BOOLEAN
        /\ None \in OrNone(Artifacts) /\ 0 \in 0 .. MaxId
    BY DEF OrNone
  <1> QED BY <1>1 DEF NoRequest, Requests

LEMMA AnswerType ==
    ASSUME TypeOK, NEW c \in Clients, Answer(c)
    PROVE  pend' \in [Clients -> Requests]
  BY NoRequestType DEF TypeOK, Answer

LEMMA AskType ==
    ASSUME TypeOK, NEW c \in Clients, NEW kind \in {"drain", "gc", "rollback"},
           NEW stage \in {"listed", "matched", "begun"}, NEW a \in OrNone(Artifacts), NEW i \in 0 .. MaxId,
           Ask(c, kind, stage, a, i)
    PROVE  pend' \in [Clients -> Requests]
  <1>2. [NoRequest EXCEPT !.kind = kind, !.stage = stage, !.art = a, !.id = i] \in Requests
    BY NoRequestType DEF Requests
  <1> QED BY <1>2 DEF TypeOK, Ask

LEMMA StageType ==
    ASSUME TypeOK, NEW c \in Clients, NEW stage \in {"matched", "begun"},
           NEW a \in OrNone(Artifacts),
           \/ pend' = [pend EXCEPT ![c].stage = stage]
           \/ pend' = [pend EXCEPT ![c].stage = stage, ![c].art = a]
    PROVE  pend' \in [Clients -> Requests]
  <1>1. pend[c] \in Requests
    OBVIOUS
  <1>2. /\ [pend[c] EXCEPT !.stage = stage] \in Requests
        /\ [pend[c] EXCEPT !.stage = stage, !.art = a] \in Requests
    BY <1>1 DEF Requests
  <1> QED BY <1>2

LEMMA PendParts ==
    ASSUME TypeOK, NEW c \in Clients
    PROVE  /\ pend[c] \in Requests
           /\ pend[c].id \in 0 .. MaxId /\ pend[c].art \in OrNone(Artifacts)
  BY DEF TypeOK, Requests

\* What a decodable state file claims about the offloads.
LEMMA DiskType ==
    ASSUME TypeOK, disk # NoFile
    PROVE  disk \in States /\ disk.offloads \in BOOLEAN
  BY StateParts

LEMMA CountedType ==
    ASSUME TypeOK, NEW c \in Clients, CountSucceeds(c)
    PROVE  pend' \in [Clients -> Requests]
  <1>1. pend[c] \in Requests
    OBVIOUS
  <1>2. Counts \in SUBSET Ids /\ Count(pend[c].id) \in BOOLEAN
    BY DEF Counts, Count
  <1>3. /\ [pend[c] EXCEPT !.stage = "counted", !.ids = Counts] \in Requests
        /\ [pend[c] EXCEPT !.stage = "counted", !.live = Count(pend[c].id)] \in Requests
    BY <1>1, <1>2 DEF Requests
  <1> QED BY <1>3 DEF CountSucceeds

LEMMA GcOpType ==
    ASSUME TypeOK, NEW c \in Clients
    PROVE  [NoOp EXCEPT !.kind = "gc", !.id = pend[c].id, !.saved = mem] \in Ops
  BY PendParts, SavingOpType

LEMMA AuditedType ==
    ASSUME TypeOK
    PROVE  /\ [mem EXCEPT !.unsafe = TRUE, !.active = 0] \in States
           /\ Quarantined([mem EXCEPT !.unsafe = TRUE, !.active = 0]) \in States
           /\ Quarantined(mem) \in States
  <1>1. [mem EXCEPT !.unsafe = TRUE, !.active = 0] \in States
    <2>1. mem \in States
      OBVIOUS
    <2>2. \E phase : phase \in [Ids -> Phases]
      BY <2>1, StateParts
    <2> QED BY <2>1, <2>2, QuarantineType
  <1> QED BY <1>1, QuarantinedType

LEMMA LostStateType ==
    ASSUME NEW b \in BOOLEAN
    PROVE  [EmptyState EXCEPT !.unsafe = TRUE, !.offloads = b] \in States
  BY EmptyStateType, FlagsType

LEMMA StartOutcomeType ==
    ASSUME TypeOK, StartFails
    PROVE  KernelTypeOK' /\ installed' \in BOOLEAN /\ faults' \in Nat
  <1>1. /\ NoRules \in Tables /\ Program(mem, 0, TRUE) \in Tables
        /\ Program(mem, mem.active, FALSE) \in Tables
    BY NoRulesType, ProgramsType
  <1>2. CASE \E r \in Tables : InstallFails(r) /\ UNCHANGED mark
    <2>1. rules' \in Tables /\ installed' \in BOOLEAN /\ faults' \in Nat
      BY <1>2, InstallsType
    <2> QED BY <1>2, <2>1, TableType DEF StartFails, flowVars
  <1>3. CASE /\ Fails
             /\ \E fs \in SUBSET Flows : mark' = Neutralized(fs)
             /\ UNCHANGED <<rules, installed>>
    BY <1>3, FaultsType, SweepType DEF StartFails, TypeOK
  <1> QED BY <1>1, <1>2, <1>3 DEF StartFails

-----------------------------------------------------------------------------
\* One lemma per action

LEMMA PrepareGateFailsType ==
    ASSUME TypeOK, PrepareGateFails
    PROVE  TypeOK'
  <1>1. KernelTypeOK' /\ ControlTypeOK'
    BY KernelKept
       DEF PrepareGateFails, NoGate, Pcs, StartPcs, OffloadPcs, ActivatePcs, OtherPcs
  <1>2. StateTypeOK'
    BY DEF PrepareGateFails, NoGate, engineVars
  <1>3. FlagTypeOK'
    BY DEF PrepareGateFails, NoGate, signalVars, exitVars
  <1>4. CountTypeOK'
    BY FaultsType
       DEF PrepareGateFails, NoGate
  <1> QED BY <1>1, <1>2, <1>3, <1>4

LEMMA RollbackType ==
    ASSUME TypeOK, NEW a \in Artifacts, Rollback(a)
    PROVE  TypeOK'
  <1>1. KernelTypeOK' /\ ControlTypeOK'
    BY KernelKept, IdOfType, ActivateLockedType
       DEF Rollback, ActivateFrame, Pcs, StartPcs, OffloadPcs, ActivatePcs, OtherPcs
  <1>2. StateTypeOK'
    BY IdOfType, ActivateLockedType
       DEF Rollback, ActivateFrame
  <1>3. FlagTypeOK'
    BY IdOfType, ActivateLockedType
       DEF Rollback, ActivateFrame, signalVars, exitVars
  <1>4. CountTypeOK'
    BY IdOfType, ActivateLockedType
       DEF Rollback, ActivateFrame
  <1> QED BY <1>1, <1>2, <1>3, <1>4

LEMMA ActivateForNewConnectionsType ==
    ASSUME TypeOK, NEW a \in Artifacts, ActivateForNewConnections(a)
    PROVE  TypeOK'
  <1>1. KernelTypeOK' /\ ControlTypeOK'
    BY KernelKept, IdOfType, ActivateLockedType
       DEF ActivateForNewConnections, ActivateFrame, Pcs, StartPcs, OffloadPcs, ActivatePcs,
           OtherPcs
  <1>2. StateTypeOK'
    BY IdOfType, ActivateLockedType
       DEF ActivateForNewConnections, ActivateFrame
  <1>3. FlagTypeOK'
    BY IdOfType, ActivateLockedType
       DEF ActivateForNewConnections, ActivateFrame, signalVars, exitVars
  <1>4. CountTypeOK'
    BY IdOfType, ActivateLockedType
       DEF ActivateForNewConnections, ActivateFrame
  <1> QED BY <1>1, <1>2, <1>3, <1>4

LEMMA DeactivateForNewConnectionsType ==
    ASSUME TypeOK, NEW a \in Artifacts, DeactivateForNewConnections(a)
    PROVE  TypeOK'
  <1>1. KernelTypeOK' /\ ControlTypeOK'
    BY KernelKept, SavingOpType
       DEF DeactivateForNewConnections, Pcs, StartPcs, OffloadPcs, ActivatePcs, OtherPcs
  <1>2. StateTypeOK'
    BY DeactivatedType
       DEF DeactivateForNewConnections, engineVars
  <1>3. FlagTypeOK'
    BY DEF DeactivateForNewConnections, latchVars, signalVars, exitVars
  <1>4. CountTypeOK'
    BY DEF DeactivateForNewConnections, latchVars
  <1> QED BY <1>1, <1>2, <1>3, <1>4

LEMMA DrainBeginType ==
    ASSUME TypeOK, NEW a \in Artifacts, NEW c \in Clients, DrainBegin(c, a)
    PROVE  TypeOK'
  <1>1. KernelTypeOK' /\ ControlTypeOK'
    BY KernelKept, IdOfType, AskType
       DEF DrainBegin, RequestFrame, OrNone, Pcs, StartPcs, OffloadPcs, ActivatePcs, OtherPcs
  <1>2. StateTypeOK'
    BY IdOfType
       DEF DrainBegin, RequestFrame, OrNone, engineVars
  <1>3. FlagTypeOK'
    BY IdOfType
       DEF DrainBegin, RequestFrame, OrNone, latchVars, signalVars, exitVars
  <1>4. CountTypeOK'
    BY IdOfType
       DEF DrainBegin, RequestFrame, OrNone, latchVars
  <1> QED BY <1>1, <1>2, <1>3, <1>4

LEMMA RollbackBeginType ==
    ASSUME TypeOK, NEW a \in Artifacts, NEW c \in Clients, RollbackBegin(c, a)
    PROVE  TypeOK'
  <1>1. KernelTypeOK' /\ ControlTypeOK'
    BY KernelKept, AskType
       DEF RollbackBegin, RequestFrame, OrNone, Pcs, StartPcs, OffloadPcs, ActivatePcs,
           OtherPcs
  <1>2. StateTypeOK'
    BY DEF RollbackBegin, RequestFrame, OrNone, engineVars
  <1>3. FlagTypeOK'
    BY DEF RollbackBegin, RequestFrame, OrNone, latchVars, signalVars, exitVars
  <1>4. CountTypeOK'
    BY DEF RollbackBegin, RequestFrame, OrNone, latchVars
  <1> QED BY <1>1, <1>2, <1>3, <1>4

LEMMA GcListType ==
    ASSUME TypeOK, NEW i \in Ids, NEW c \in Clients, GcList(c, i)
    PROVE  TypeOK'
  <1>1. KernelTypeOK' /\ ControlTypeOK'
    BY KernelKept, StateParts, AskType
       DEF GcList, RequestFrame, Ids, Pcs, StartPcs, OffloadPcs, ActivatePcs, OtherPcs
  <1>2. StateTypeOK'
    BY StateParts
       DEF GcList, RequestFrame, Ids, engineVars
  <1>3. FlagTypeOK'
    BY StateParts
       DEF GcList, RequestFrame, Ids, latchVars, signalVars, exitVars
  <1>4. CountTypeOK'
    BY StateParts
       DEF GcList, RequestFrame, Ids, latchVars
  <1> QED BY <1>1, <1>2, <1>3, <1>4

LEMMA GcBeginType ==
    ASSUME TypeOK, NEW c \in Clients, GcBegin(c)
    PROVE  TypeOK'
  <1>1. KernelTypeOK' /\ ControlTypeOK'
    BY KernelKept, AnswerType
       DEF GcBegin, RequestFrame, Requests, Pcs, StartPcs, OffloadPcs, ActivatePcs, OtherPcs
  <1>2. StateTypeOK'
    BY DEF GcBegin, RequestFrame, Requests, engineVars
  <1>3. FlagTypeOK'
    BY DEF GcBegin, RequestFrame, Requests, latchVars, signalVars, exitVars
  <1>4. CountTypeOK'
    BY DEF GcBegin, RequestFrame, Requests, latchVars
  <1> QED BY <1>1, <1>2, <1>3, <1>4

LEMMA CountBeginType ==
    ASSUME TypeOK, NEW c \in Clients, CountBegin(c)
    PROVE  TypeOK'
  <1>1. KernelTypeOK' /\ pc' = pc /\ op' = op
    BY KernelKept DEF CountBegin, RequestFrame
  <1>2. pend' \in [Clients -> Requests]
    <2>1. CASE Answer(c)
      BY <2>1, AnswerType
    <2>2. CASE ~ Answer(c)
      <3> DEFINE a == mem.art[pend[c].id]
      <3>1. /\ pend[c].id \in Ids
            /\ pend' = [pend EXCEPT ![c].stage = "begun", ![c].art = a]
        BY <2>2 DEF CountBegin, Retained
      <3>2. a \in OrNone(Artifacts)
        BY <3>1, StateParts
      <3> HIDE DEF a
      <3> QED BY <3>1, <3>2, StageType
    <2> QED BY <2>1, <2>2
  <1>3. ControlTypeOK'
    BY <1>1, <1>2 DEF Pcs
  <1>4. StateTypeOK'
    BY DEF CountBegin, RequestFrame, engineVars
  <1>5. FlagTypeOK'
    BY DEF CountBegin, RequestFrame, latchVars, signalVars, exitVars
  <1>6. CountTypeOK'
    BY DEF CountBegin, RequestFrame, latchVars
  <1> QED BY <1>1, <1>3, <1>4, <1>5, <1>6

LEMMA CountSucceedsType ==
    ASSUME TypeOK, NEW c \in Clients, CountSucceeds(c)
    PROVE  TypeOK'
  <1>1. KernelTypeOK' /\ ControlTypeOK'
    BY KernelKept, CountedType
       DEF CountSucceeds, RequestFrame, Pcs, StartPcs, OffloadPcs, ActivatePcs, OtherPcs
  <1>2. StateTypeOK'
    BY DEF CountSucceeds, RequestFrame, engineVars
  <1>3. FlagTypeOK'
    BY DEF CountSucceeds, RequestFrame, latchVars, signalVars, exitVars
  <1>4. CountTypeOK'
    BY DEF CountSucceeds, RequestFrame, latchVars
  <1> QED BY <1>1, <1>2, <1>3, <1>4

LEMMA CountFailsType ==
    ASSUME TypeOK, NEW c \in Clients, CountFails(c)
    PROVE  TypeOK'
  <1>1. KernelTypeOK' /\ ControlTypeOK'
    BY KernelKept, AnswerType
       DEF CountFails, RequestFrame, Pcs, StartPcs, OffloadPcs, ActivatePcs, OtherPcs
  <1>2. StateTypeOK'
    BY DEF CountFails, RequestFrame, engineVars
  <1>3. FlagTypeOK'
    BY DEF CountFails, RequestFrame, latchVars, signalVars, exitVars
  <1>4. CountTypeOK'
    BY FaultsType
       DEF CountFails, RequestFrame, latchVars
  <1> QED BY <1>1, <1>2, <1>3, <1>4

LEMMA RollbackCountFailsType ==
    ASSUME TypeOK, NEW c \in Clients, RollbackCountFails(c)
    PROVE  TypeOK'
  <1>1. KernelTypeOK' /\ ControlTypeOK'
    BY KernelKept, RollbackOpType, AnswerType
       DEF RollbackCountFails, NoGate, Pcs, StartPcs, OffloadPcs, ActivatePcs, OtherPcs
  <1>2. StateTypeOK'
    BY UnsafeType
       DEF RollbackCountFails, NoGate, engineVars
  <1>3. FlagTypeOK'
    BY DEF RollbackCountFails, NoGate, signalVars, exitVars
  <1>4. CountTypeOK'
    <2>1. gate' \in Int
      BY DEF RollbackCountFails, NoGate
    <2>2. faults' \in Nat /\ epoch' = epoch /\ restarts' = restarts
      BY FaultsType DEF RollbackCountFails
    <2> QED BY <2>1, <2>2
  <1> QED BY <1>1, <1>2, <1>3, <1>4

LEMMA DrainFinishType ==
    ASSUME TypeOK, NEW c \in Clients, DrainFinish(c)
    PROVE  TypeOK'
  <1>1. KernelTypeOK' /\ ControlTypeOK'
    BY KernelKept, NewOpType, AnswerType
       DEF DrainFinish, Kinds, Pcs, StartPcs, OffloadPcs, ActivatePcs, OtherPcs
  <1>2. StateTypeOK'
    BY DrainedType
       DEF DrainFinish, Kinds, engineVars
  <1>3. FlagTypeOK'
    BY DEF DrainFinish, Kinds, latchVars, signalVars, exitVars
  <1>4. CountTypeOK'
    BY DEF DrainFinish, Kinds, latchVars
  <1> QED BY <1>1, <1>2, <1>3, <1>4

LEMMA GcFinishType ==
    ASSUME TypeOK, NEW c \in Clients, GcFinish(c)
    PROVE  TypeOK'
  <1>1. KernelTypeOK' /\ ControlTypeOK'
    BY KernelKept, PendParts, GcOpType, AnswerType
       DEF GcFinish, Pcs, StartPcs, OffloadPcs, ActivatePcs, OtherPcs
  <1>2. StateTypeOK'
    BY CollectedType, PendParts
       DEF GcFinish, engineVars
  <1>3. FlagTypeOK'
    BY DEF GcFinish, latchVars, signalVars, exitVars
  <1>4. CountTypeOK'
    BY DEF GcFinish, latchVars
  <1> QED BY <1>1, <1>2, <1>3, <1>4

LEMMA PrepareInterruptedType ==
    ASSUME TypeOK, PrepareInterrupted
    PROVE  TypeOK'
  <1>1. KernelTypeOK' /\ ControlTypeOK'
    BY KernelKept, NoOpType
       DEF PrepareInterrupted, Unprepare, Return, OrNone, Pcs, StartPcs, OffloadPcs,
           ActivatePcs, OtherPcs
  <1>2. StateTypeOK'
    BY WithoutType
       DEF PrepareInterrupted, Unprepare, Return, OrNone
  <1>3. FlagTypeOK'
    BY DEF PrepareInterrupted, Unprepare, Return, OrNone, latchVars, signalVars, exitVars
  <1>4. CountTypeOK'
    BY DEF PrepareInterrupted, Unprepare, Return, OrNone, latchVars
  <1> QED BY <1>1, <1>2, <1>3, <1>4

LEMMA PreparePersistsType ==
    ASSUME TypeOK, PreparePersists
    PROVE  TypeOK'
  <1>1. KernelTypeOK' /\ ControlTypeOK'
    BY KernelKept, NoOpType
       DEF PreparePersists, Return, GoTo, Pcs, StartPcs, OffloadPcs, ActivatePcs, OtherPcs
  <1>2. StateTypeOK'
    BY PersistsType
       DEF PreparePersists, Return, GoTo, engineVars
  <1>3. FlagTypeOK'
    BY PersistsType
       DEF PreparePersists, Return, GoTo, latchVars, signalVars
  <1>4. CountTypeOK'
    BY PersistsType
       DEF PreparePersists, Return, GoTo, latchVars
  <1> QED BY <1>1, <1>2, <1>3, <1>4

LEMMA PreparePersistFailsType ==
    ASSUME TypeOK, PreparePersistFails
    PROVE  TypeOK'
  <1>1. KernelTypeOK' /\ ControlTypeOK'
    BY KernelKept, MarkUnsafeType, NoOpType
       DEF PreparePersistFails, Unprepare, Return, OrNone, Pcs, StartPcs, OffloadPcs,
           ActivatePcs, OtherPcs
  <1>2. StateTypeOK'
    BY PersistsType, WithoutType, MarkUnsafeType
       DEF PreparePersistFails, Unprepare, Return, OrNone
  <1>3. FlagTypeOK'
    BY PersistsType, LatchType, MarkUnsafeType
       DEF PreparePersistFails, Unprepare, Return, OrNone, signalVars
  <1>4. CountTypeOK'
    BY PersistsType, LatchType, MarkUnsafeType
       DEF PreparePersistFails, Unprepare, Return, OrNone
  <1> QED BY <1>1, <1>2, <1>3, <1>4

LEMMA RollbackActivateType ==
    ASSUME TypeOK, RollbackActivate
    PROVE  TypeOK'
  <1>1. KernelTypeOK' /\ ControlTypeOK'
    BY KernelKept, OpParts, ActivateLockedType, NoOpType
       DEF RollbackActivate, Return, ActivateFrame, Pcs, StartPcs, OffloadPcs, ActivatePcs,
           OtherPcs
  <1>2. StateTypeOK'
    BY OpParts, ActivateLockedType
       DEF RollbackActivate, Return, ActivateFrame
  <1>3. FlagTypeOK'
    BY OpParts, ActivateLockedType
       DEF RollbackActivate, Return, ActivateFrame, latchVars, signalVars, exitVars
  <1>4. CountTypeOK'
    BY OpParts, ActivateLockedType
       DEF RollbackActivate, Return, ActivateFrame, latchVars
  <1> QED BY <1>1, <1>2, <1>3, <1>4

LEMMA ActivatePersistsType ==
    ASSUME TypeOK, ActivatePersists
    PROVE  TypeOK'
  <1>1. KernelTypeOK' /\ ControlTypeOK'
    BY KernelKept
       DEF ActivatePersists, GoTo, Pcs, StartPcs, OffloadPcs, ActivatePcs, OtherPcs
  <1>2. StateTypeOK'
    BY PersistsType
       DEF ActivatePersists, GoTo, engineVars
  <1>3. FlagTypeOK'
    BY PersistsType
       DEF ActivatePersists, GoTo, latchVars, signalVars
  <1>4. CountTypeOK'
    BY PersistsType
       DEF ActivatePersists, GoTo, latchVars
  <1> QED BY <1>1, <1>2, <1>3, <1>4

LEMMA ActivatePersistFailsType ==
    ASSUME TypeOK, ActivatePersistFails
    PROVE  TypeOK'
  <1>1. KernelTypeOK' /\ ControlTypeOK'
    BY KernelKept, NoOpType
       DEF ActivatePersistFails, Return, Pcs, StartPcs, OffloadPcs, ActivatePcs, OtherPcs
  <1>2. StateTypeOK'
    BY PersistsType, RestoreStateType
       DEF ActivatePersistFails, Return, engineVars
  <1>3. FlagTypeOK'
    BY PersistsType, RestoreStateType
       DEF ActivatePersistFails, Return, signalVars
  <1>4. CountTypeOK'
    BY PersistsType, RestoreStateType
       DEF ActivatePersistFails, Return
  <1> QED BY <1>1, <1>2, <1>3, <1>4

LEMMA StageInstallsType ==
    ASSUME TypeOK, StageInstalls
    PROVE  TypeOK'
  <1>1. KernelTypeOK' /\ installed' \in BOOLEAN /\ faults' \in Nat
    BY InstallsType, TableType, StageTableType DEF StageInstalls
  <1>2. ControlTypeOK'
    BY DEF StageInstalls, GoTo, Pcs, ActivatePcs
  <1>3. StateTypeOK'
    BY DEF StageInstalls, engineVars
  <1>4. FlagTypeOK' /\ CountTypeOK'
    BY <1>1 DEF StageInstalls, latchVars, signalVars, exitVars
  <1> QED BY <1>1, <1>2, <1>3, <1>4

LEMMA FlipInstallsType ==
    ASSUME TypeOK, FlipInstalls
    PROVE  TypeOK'
  <1>1. KernelTypeOK' /\ ControlTypeOK'
    BY InstallsType, TableType, ProgramsType
       DEF FlipInstalls, FlipTable, GoTo, Pcs, StartPcs, OffloadPcs, ActivatePcs, OtherPcs
  <1>2. StateTypeOK'
    BY DEF FlipInstalls, FlipTable, GoTo, engineVars
  <1>3. FlagTypeOK'
    BY InstallsType, ProgramsType
       DEF FlipInstalls, FlipTable, GoTo, latchVars, signalVars, exitVars
  <1>4. CountTypeOK'
    BY InstallsType, ProgramsType
       DEF FlipInstalls, FlipTable, GoTo, latchVars
  <1> QED BY <1>1, <1>2, <1>3, <1>4

LEMMA SweepSucceedsType ==
    ASSUME TypeOK, SweepSucceeds
    PROVE  TypeOK'
  <1>1. KernelTypeOK' /\ ControlTypeOK'
    BY SweepType
       DEF SweepSucceeds, GoTo, Pcs, StartPcs, OffloadPcs, ActivatePcs, OtherPcs
  <1>2. StateTypeOK'
    BY DEF SweepSucceeds, GoTo, engineVars
  <1>3. FlagTypeOK'
    BY DEF SweepSucceeds, GoTo, latchVars, signalVars, exitVars
  <1>4. CountTypeOK'
    BY DEF SweepSucceeds, GoTo, latchVars
  <1> QED BY <1>1, <1>2, <1>3, <1>4

LEMMA SweepFailsType ==
    ASSUME TypeOK, SweepFails
    PROVE  TypeOK'
  <1>1. KernelTypeOK' /\ ControlTypeOK'
    BY SweepType, OpUpdatesType
       DEF SweepFails, Pcs, StartPcs, OffloadPcs, ActivatePcs, OtherPcs
  <1>2. StateTypeOK'
    BY RestoreStateType
       DEF SweepFails, engineVars
  <1>3. FlagTypeOK'
    BY RestoreStateType
       DEF SweepFails, signalVars, exitVars
  <1>4. CountTypeOK'
    BY FaultsType, RestoreStateType
       DEF SweepFails
  <1> QED BY <1>1, <1>2, <1>3, <1>4

LEMMA TransactionFailsType ==
    ASSUME TypeOK, TransactionFails
    PROVE  TypeOK'
  <1>1. StageTable \in Tables /\ FlipTable \in Tables
    BY StageTableType, ProgramsType DEF FlipTable
  <1>2. rules' \in Tables /\ installed' \in BOOLEAN /\ faults' \in Nat
    BY <1>1, InstallsType DEF TransactionFails
  <1>3. mem' \in States /\ latched' \in BOOLEAN /\ guard' \in BOOLEAN /\ gate' \in Int
    BY RestoreStateType DEF TransactionFails
  <1>4. KernelTypeOK'
    BY <1>2, TableType DEF TransactionFails
  <1>5. ControlTypeOK'
    BY DEF TransactionFails, GoTo, Pcs, OtherPcs
  <1>6. StateTypeOK'
    BY <1>3 DEF TransactionFails, engineVars
  <1>7. FlagTypeOK' /\ CountTypeOK'
    BY <1>2, <1>3 DEF TransactionFails, signalVars, exitVars
  <1> QED BY <1>4, <1>5, <1>6, <1>7

LEMMA ActivateDoneType ==
    ASSUME TypeOK, ActivateDone
    PROVE  TypeOK'
  <1>1. KernelTypeOK' /\ ControlTypeOK'
    BY KernelKept, OpParts, NoOpType
       DEF ActivateDone, Return, Pcs, StartPcs, OffloadPcs, ActivatePcs, OtherPcs
  <1>2. StateTypeOK'
    BY OpParts
       DEF ActivateDone, Return
  <1>3. FlagTypeOK'
    BY OpParts
       DEF ActivateDone, Return, signalVars, exitVars
  <1>4. CountTypeOK'
    BY OpParts
       DEF ActivateDone, Return
  <1> QED BY <1>1, <1>2, <1>3, <1>4

LEMMA OffloadsDownType ==
    ASSUME TypeOK, OffloadsDown
    PROVE  TypeOK'
  <1>1. KernelTypeOK' /\ ControlTypeOK'
    BY KernelKept
       DEF OffloadsDown, OffloadsDone, GoTo, StartPath, Pcs, StartPcs, OffloadPcs,
           ActivatePcs, OtherPcs
  <1>2. StateTypeOK'
    BY DEF OffloadsDown, OffloadsDone, GoTo, StartPath, engineVars
  <1>3. FlagTypeOK'
    BY DEF OffloadsDown, OffloadsDone, GoTo, StartPath, latchVars, signalVars, exitVars
  <1>4. CountTypeOK'
    BY DEF OffloadsDown, OffloadsDone, GoTo, StartPath, latchVars
  <1> QED BY <1>1, <1>2, <1>3, <1>4

LEMMA OffloadsCaptureType ==
    ASSUME TypeOK, OffloadsCapture
    PROVE  TypeOK'
  <1>1. KernelTypeOK' /\ ControlTypeOK'
    BY KernelKept, OffloadsType
       DEF OffloadsCapture, GoTo, Pcs, StartPcs, OffloadPcs, ActivatePcs, OtherPcs
  <1>2. StateTypeOK'
    BY OffloadsType
       DEF OffloadsCapture, GoTo, engineVars
  <1>3. FlagTypeOK'
    BY OffloadsType
       DEF OffloadsCapture, GoTo, latchVars, signalVars, exitVars
  <1>4. CountTypeOK'
    BY OffloadsType
       DEF OffloadsCapture, GoTo, latchVars
  <1> QED BY <1>1, <1>2, <1>3, <1>4

LEMMA OffloadsCallFailsType ==
    ASSUME TypeOK, OffloadsCallFails
    PROVE  TypeOK'
  <1>1. KernelTypeOK' /\ ControlTypeOK'
    BY KernelKept, OffloadsFailedType
       DEF OffloadsCallFails, Pcs, StartPcs, OffloadPcs, ActivatePcs, OtherPcs
  <1>2. StateTypeOK'
    BY OffloadsFailedType
       DEF OffloadsCallFails, engineVars
  <1>3. FlagTypeOK'
    BY OffloadsFailedType
       DEF OffloadsCallFails, signalVars, exitVars
  <1>4. CountTypeOK'
    BY FaultsType, OffloadsFailedType
       DEF OffloadsCallFails
  <1> QED BY <1>1, <1>2, <1>3, <1>4

LEMMA ClaimPersistsType ==
    ASSUME TypeOK, ClaimPersists
    PROVE  TypeOK'
  <1>1. KernelTypeOK' /\ ControlTypeOK'
    BY KernelKept
       DEF ClaimPersists, GoTo, Pcs, StartPcs, OffloadPcs, ActivatePcs, OtherPcs
  <1>2. StateTypeOK'
    BY PersistsType
       DEF ClaimPersists, GoTo, engineVars
  <1>3. FlagTypeOK'
    BY PersistsType
       DEF ClaimPersists, GoTo, latchVars, signalVars
  <1>4. CountTypeOK'
    BY PersistsType
       DEF ClaimPersists, GoTo, latchVars
  <1> QED BY <1>1, <1>2, <1>3, <1>4

LEMMA ClaimPersistFailsType ==
    ASSUME TypeOK, ClaimPersistFails
    PROVE  TypeOK'
  <1>1. KernelTypeOK' /\ ControlTypeOK'
    BY KernelKept, MarkUnsafeType, OffloadsType, OffloadsFailedType
       DEF ClaimPersistFails, Pcs, StartPcs, OffloadPcs, ActivatePcs, OtherPcs
  <1>2. StateTypeOK'
    BY PersistsType, MarkUnsafeType, OffloadsType, OffloadsFailedType
       DEF ClaimPersistFails, engineVars
  <1>3. FlagTypeOK'
    BY PersistsType, MarkUnsafeType, OffloadsType, OffloadsFailedType
       DEF ClaimPersistFails, signalVars
  <1>4. CountTypeOK'
    BY PersistsType, MarkUnsafeType, OffloadsType, OffloadsFailedType
       DEF ClaimPersistFails
  <1> QED BY <1>1, <1>2, <1>3, <1>4

LEMMA DisableSucceedsType ==
    ASSUME TypeOK, DisableSucceeds
    PROVE  TypeOK'
  <1>1. KernelTypeOK' /\ ControlTypeOK'
    BY KernelKept
       DEF DisableSucceeds, OffloadsDone, GoTo, StartPath, Pcs, StartPcs, OffloadPcs,
           ActivatePcs, OtherPcs
  <1>2. StateTypeOK'
    BY DEF DisableSucceeds, OffloadsDone, GoTo, StartPath, engineVars
  <1>3. FlagTypeOK'
    BY DEF DisableSucceeds, OffloadsDone, GoTo, StartPath, latchVars, signalVars, exitVars
  <1>4. CountTypeOK'
    BY DEF DisableSucceeds, OffloadsDone, GoTo, StartPath, latchVars
  <1> QED BY <1>1, <1>2, <1>3, <1>4

LEMMA DisableFailsType ==
    ASSUME TypeOK, DisableFails
    PROVE  TypeOK'
  <1>1. KernelTypeOK' /\ ControlTypeOK'
    BY KernelKept, OffloadsType
       DEF DisableFails, GoTo, Pcs, StartPcs, OffloadPcs, ActivatePcs, OtherPcs
  <1>2. StateTypeOK'
    BY OffloadsType
       DEF DisableFails, GoTo, engineVars
  <1>3. FlagTypeOK'
    BY OffloadsType
       DEF DisableFails, GoTo, latchVars, signalVars, exitVars
  <1>4. CountTypeOK'
    BY FaultsType, OffloadsType
       DEF DisableFails, GoTo, latchVars
  <1> QED BY <1>1, <1>2, <1>3, <1>4

LEMMA UnclaimPersistsType ==
    ASSUME TypeOK, UnclaimPersists
    PROVE  TypeOK'
  <1>1. KernelTypeOK' /\ ControlTypeOK'
    BY KernelKept, OffloadsFailedType
       DEF UnclaimPersists, Pcs, StartPcs, OffloadPcs, ActivatePcs, OtherPcs
  <1>2. StateTypeOK'
    BY PersistsType, OffloadsFailedType
       DEF UnclaimPersists, engineVars
  <1>3. FlagTypeOK'
    BY PersistsType, OffloadsFailedType
       DEF UnclaimPersists, signalVars
  <1>4. CountTypeOK'
    BY PersistsType, OffloadsFailedType
       DEF UnclaimPersists
  <1> QED BY <1>1, <1>2, <1>3, <1>4

LEMMA UnclaimPersistFailsType ==
    ASSUME TypeOK, UnclaimPersistFails
    PROVE  TypeOK'
  <1>1. KernelTypeOK' /\ ControlTypeOK'
    BY KernelKept, MarkUnsafeType, OffloadsFailedType
       DEF UnclaimPersistFails, Pcs, StartPcs, OffloadPcs, ActivatePcs, OtherPcs
  <1>2. StateTypeOK'
    BY PersistsType, MarkUnsafeType, OffloadsFailedType
       DEF UnclaimPersistFails, engineVars
  <1>3. FlagTypeOK'
    BY PersistsType, MarkUnsafeType, OffloadsFailedType
       DEF UnclaimPersistFails, signalVars
  <1>4. CountTypeOK'
    BY PersistsType, MarkUnsafeType, OffloadsFailedType
       DEF UnclaimPersistFails
  <1> QED BY <1>1, <1>2, <1>3, <1>4

LEMMA RestoreNothingType ==
    ASSUME TypeOK, RestoreNothing
    PROVE  TypeOK'
  <1>1. KernelTypeOK' /\ ControlTypeOK'
    BY KernelKept, OpParts, RestoreReturnsType
       DEF RestoreNothing, Pcs, StartPcs, OffloadPcs, ActivatePcs, OtherPcs
  <1>2. StateTypeOK'
    BY OpParts
       DEF RestoreNothing, engineVars
  <1>3. FlagTypeOK'
    BY OpParts
       DEF RestoreNothing, latchVars, signalVars, exitVars
  <1>4. CountTypeOK'
    BY OpParts
       DEF RestoreNothing, latchVars
  <1> QED BY <1>1, <1>2, <1>3, <1>4

LEMMA RestoreCallType ==
    ASSUME TypeOK, RestoreCall
    PROVE  TypeOK'
  <1>1. KernelTypeOK' /\ ControlTypeOK'
    BY KernelKept, OffloadsType, OpUpdatesType
       DEF RestoreCall, Pcs, StartPcs, OffloadPcs, ActivatePcs, OtherPcs
  <1>2. StateTypeOK'
    BY OffloadsType
       DEF RestoreCall, engineVars
  <1>3. FlagTypeOK'
    BY OffloadsType
       DEF RestoreCall, latchVars, signalVars, exitVars
  <1>4. CountTypeOK'
    BY FaultsType, OffloadsType
       DEF RestoreCall, latchVars
  <1> QED BY <1>1, <1>2, <1>3, <1>4

LEMMA RestorePersistsType ==
    ASSUME TypeOK, RestorePersists
    PROVE  TypeOK'
  <1>1. KernelTypeOK' /\ ControlTypeOK'
    BY KernelKept, OpParts, RestoreReturnsType
       DEF RestorePersists, Pcs, StartPcs, OffloadPcs, ActivatePcs, OtherPcs
  <1>2. StateTypeOK'
    BY OpParts, PersistsType
       DEF RestorePersists, engineVars
  <1>3. FlagTypeOK'
    BY OpParts, PersistsType
       DEF RestorePersists, latchVars, signalVars
  <1>4. CountTypeOK'
    BY OpParts, PersistsType
       DEF RestorePersists, latchVars
  <1> QED BY <1>1, <1>2, <1>3, <1>4

LEMMA RestorePersistFailsType ==
    ASSUME TypeOK, RestorePersistFails
    PROVE  TypeOK'
  <1>1. KernelTypeOK' /\ ControlTypeOK'
    BY KernelKept, MarkUnsafeType, RestoreReturnsType
       DEF RestorePersistFails, Pcs, StartPcs, OffloadPcs, ActivatePcs, OtherPcs
  <1>2. StateTypeOK'
    BY PersistsType, MarkUnsafeType
       DEF RestorePersistFails, engineVars
  <1>3. FlagTypeOK'
    BY PersistsType, LatchType, MarkUnsafeType
       DEF RestorePersistFails, signalVars
  <1>4. CountTypeOK'
    BY PersistsType, LatchType, MarkUnsafeType
       DEF RestorePersistFails
  <1> QED BY <1>1, <1>2, <1>3, <1>4

LEMMA UnwindPersistsType ==
    ASSUME TypeOK, UnwindPersists
    PROVE  TypeOK'
  <1>1. KernelTypeOK' /\ ControlTypeOK'
    BY KernelKept
       DEF UnwindPersists, GoTo, Pcs, StartPcs, OffloadPcs, ActivatePcs, OtherPcs
  <1>2. StateTypeOK'
    BY PersistsType
       DEF UnwindPersists, GoTo, engineVars
  <1>3. FlagTypeOK'
    BY PersistsType
       DEF UnwindPersists, GoTo, latchVars, signalVars
  <1>4. CountTypeOK'
    BY PersistsType
       DEF UnwindPersists, GoTo, latchVars
  <1> QED BY <1>1, <1>2, <1>3, <1>4

LEMMA CompensationInstallsType ==
    ASSUME TypeOK, CompensationInstalls
    PROVE  TypeOK'
  <1>1. KernelTypeOK' /\ ControlTypeOK'
    BY InstallsType, TableType, ProgramsType
       DEF CompensationInstalls, OldTable, AfterOldTable, GoTo, Pcs, StartPcs, OffloadPcs,
           ActivatePcs, OtherPcs
  <1>2. StateTypeOK'
    BY DEF CompensationInstalls, OldTable, AfterOldTable, GoTo, engineVars
  <1>3. FlagTypeOK'
    BY InstallsType, ProgramsType
       DEF CompensationInstalls, OldTable, AfterOldTable, GoTo, latchVars, signalVars,
           exitVars
  <1>4. CountTypeOK'
    BY InstallsType, ProgramsType
       DEF CompensationInstalls, OldTable, AfterOldTable, GoTo, latchVars
  <1> QED BY <1>1, <1>2, <1>3, <1>4

LEMMA CompensationInstallFailsType ==
    ASSUME TypeOK, CompensationInstallFails
    PROVE  TypeOK'
  <1>1. KernelTypeOK' /\ ControlTypeOK'
    BY InstallsType, TableType, ProgramsType, OpUpdatesType
       DEF CompensationInstallFails, OldTable, AfterOldTable, Pcs, StartPcs, OffloadPcs,
           ActivatePcs, OtherPcs
  <1>2. StateTypeOK'
    BY DEF CompensationInstallFails, OldTable, AfterOldTable, engineVars
  <1>3. FlagTypeOK'
    BY InstallsType, ProgramsType
       DEF CompensationInstallFails, OldTable, AfterOldTable, latchVars, signalVars, exitVars
  <1>4. CountTypeOK'
    BY InstallsType, ProgramsType
       DEF CompensationInstallFails, OldTable, AfterOldTable, latchVars
  <1> QED BY <1>1, <1>2, <1>3, <1>4

LEMMA CompensationPersistsType ==
    ASSUME TypeOK, CompensationPersists
    PROVE  TypeOK'
  <1>1. KernelTypeOK' /\ ControlTypeOK'
    BY KernelKept
       DEF CompensationPersists, AfterCompensation, GoTo, Pcs, StartPcs, OffloadPcs,
           ActivatePcs, OtherPcs
  <1>2. StateTypeOK'
    BY PersistsType
       DEF CompensationPersists, AfterCompensation, GoTo, engineVars
  <1>3. FlagTypeOK'
    BY PersistsType
       DEF CompensationPersists, AfterCompensation, GoTo, latchVars, signalVars
  <1>4. CountTypeOK'
    BY PersistsType
       DEF CompensationPersists, AfterCompensation, GoTo, latchVars
  <1> QED BY <1>1, <1>2, <1>3, <1>4

LEMMA CompensationPersistFailsType ==
    ASSUME TypeOK, CompensationPersistFails
    PROVE  TypeOK'
  <1>1. KernelTypeOK' /\ ControlTypeOK'
    BY KernelKept, MarkUnsafeType, OpUpdatesType
       DEF CompensationPersistFails, AfterCompensation, Pcs, StartPcs, OffloadPcs,
           ActivatePcs, OtherPcs
  <1>2. StateTypeOK'
    BY PersistsType, MarkUnsafeType
       DEF CompensationPersistFails, AfterCompensation, engineVars
  <1>3. FlagTypeOK'
    BY PersistsType, LatchType, MarkUnsafeType
       DEF CompensationPersistFails, AfterCompensation, signalVars
  <1>4. CountTypeOK'
    BY PersistsType, LatchType, MarkUnsafeType
       DEF CompensationPersistFails, AfterCompensation
  <1> QED BY <1>1, <1>2, <1>3, <1>4

LEMMA CompensationDoneType ==
    ASSUME TypeOK, CompensationDone
    PROVE  TypeOK'
  <1>1. KernelTypeOK' /\ ControlTypeOK'
    BY KernelKept, NoOpType
       DEF CompensationDone, Return, Pcs, StartPcs, OffloadPcs, ActivatePcs, OtherPcs
  <1>2. StateTypeOK'
    BY DEF CompensationDone, Return, engineVars
  <1>3. FlagTypeOK'
    BY DEF CompensationDone, Return, latchVars, signalVars, exitVars
  <1>4. CountTypeOK'
    BY DEF CompensationDone, Return, latchVars
  <1> QED BY <1>1, <1>2, <1>3, <1>4

LEMMA IntegrityFailureLockedType ==
    ASSUME TypeOK, IntegrityFailureLocked
    PROVE  TypeOK'
  <1>1. KernelTypeOK' /\ ControlTypeOK'
    BY KernelKept, NewOpType
       DEF IntegrityFailureLocked, Kinds, NoGate, Pcs, StartPcs, OffloadPcs, ActivatePcs,
           OtherPcs
  <1>2. StateTypeOK'
    BY QuarantinedType
       DEF IntegrityFailureLocked, Kinds, NoGate
  <1>3. FlagTypeOK'
    BY DEF IntegrityFailureLocked, Kinds, NoGate, signalVars, exitVars
  <1>4. CountTypeOK'
    BY DEF IntegrityFailureLocked, Kinds, NoGate
  <1> QED BY <1>1, <1>2, <1>3, <1>4

LEMMA DeactivatePersistsType ==
    ASSUME TypeOK, DeactivatePersists
    PROVE  TypeOK'
  <1>1. KernelTypeOK' /\ ControlTypeOK'
    BY KernelKept
       DEF DeactivatePersists, GoTo, Pcs, StartPcs, OffloadPcs, ActivatePcs, OtherPcs
  <1>2. StateTypeOK'
    BY PersistsType
       DEF DeactivatePersists, GoTo, engineVars
  <1>3. FlagTypeOK'
    BY PersistsType
       DEF DeactivatePersists, GoTo, latchVars, signalVars
  <1>4. CountTypeOK'
    BY PersistsType
       DEF DeactivatePersists, GoTo, latchVars
  <1> QED BY <1>1, <1>2, <1>3, <1>4

LEMMA DeactivatePersistFailsType ==
    ASSUME TypeOK, DeactivatePersistFails
    PROVE  TypeOK'
  <1>1. KernelTypeOK' /\ ControlTypeOK'
    BY KernelKept, NoOpType
       DEF DeactivatePersistFails, Return, Pcs, StartPcs, OffloadPcs, ActivatePcs, OtherPcs
  <1>2. StateTypeOK'
    BY PersistsType, RestoredType
       DEF DeactivatePersistFails, Return, engineVars
  <1>3. FlagTypeOK'
    BY PersistsType, LatchType
       DEF DeactivatePersistFails, Return, signalVars
  <1>4. CountTypeOK'
    BY PersistsType, LatchType
       DEF DeactivatePersistFails, Return
  <1> QED BY <1>1, <1>2, <1>3, <1>4

LEMMA DeactivateInstallsType ==
    ASSUME TypeOK, DeactivateInstalls
    PROVE  TypeOK'
  <1>1. KernelTypeOK' /\ ControlTypeOK'
    BY InstallsType, TableType, ProgramsType, NoOpType
       DEF DeactivateInstalls, Return, Pcs, StartPcs, OffloadPcs, ActivatePcs, OtherPcs
  <1>2. StateTypeOK'
    BY DEF DeactivateInstalls, Return
  <1>3. FlagTypeOK'
    BY InstallsType, ProgramsType
       DEF DeactivateInstalls, Return, latchVars, signalVars, exitVars
  <1>4. CountTypeOK'
    BY InstallsType, ProgramsType
       DEF DeactivateInstalls, Return, latchVars
  <1> QED BY <1>1, <1>2, <1>3, <1>4

LEMMA DeactivateInstallFailsType ==
    ASSUME TypeOK, DeactivateInstallFails
    PROVE  TypeOK'
  <1>1. KernelTypeOK' /\ ControlTypeOK'
    BY InstallsType, TableType, ProgramsType
       DEF DeactivateInstallFails, GoTo, Pcs, StartPcs, OffloadPcs, ActivatePcs, OtherPcs
  <1>2. StateTypeOK'
    BY RestoredType
       DEF DeactivateInstallFails, GoTo, engineVars
  <1>3. FlagTypeOK'
    BY InstallsType, ProgramsType
       DEF DeactivateInstallFails, GoTo, latchVars, signalVars, exitVars
  <1>4. CountTypeOK'
    BY InstallsType, ProgramsType
       DEF DeactivateInstallFails, GoTo, latchVars
  <1> QED BY <1>1, <1>2, <1>3, <1>4

LEMMA DrainPersistsType ==
    ASSUME TypeOK, DrainPersists
    PROVE  TypeOK'
  <1>1. KernelTypeOK' /\ ControlTypeOK'
    BY KernelKept, NoOpType
       DEF DrainPersists, Return, Pcs, StartPcs, OffloadPcs, ActivatePcs, OtherPcs
  <1>2. StateTypeOK'
    BY PersistsType
       DEF DrainPersists, Return, engineVars
  <1>3. FlagTypeOK'
    BY PersistsType
       DEF DrainPersists, Return, latchVars, signalVars
  <1>4. CountTypeOK'
    BY PersistsType
       DEF DrainPersists, Return, latchVars
  <1> QED BY <1>1, <1>2, <1>3, <1>4

LEMMA DrainPersistFailsType ==
    ASSUME TypeOK, DrainPersistFails
    PROVE  TypeOK'
  <1>1. KernelTypeOK' /\ ControlTypeOK'
    BY KernelKept, MarkUnsafeType, NoOpType
       DEF DrainPersistFails, Return, Pcs, StartPcs, OffloadPcs, ActivatePcs, OtherPcs
  <1>2. StateTypeOK'
    BY PersistsType, MarkUnsafeType
       DEF DrainPersistFails, Return, engineVars
  <1>3. FlagTypeOK'
    BY PersistsType, LatchType, MarkUnsafeType
       DEF DrainPersistFails, Return, signalVars
  <1>4. CountTypeOK'
    BY PersistsType, LatchType, MarkUnsafeType
       DEF DrainPersistFails, Return
  <1> QED BY <1>1, <1>2, <1>3, <1>4

LEMMA GcInstallsType ==
    ASSUME TypeOK, GcInstalls
    PROVE  TypeOK'
  <1>1. KernelTypeOK' /\ ControlTypeOK'
    BY InstallsType, TableType, ProgramsType
       DEF GcInstalls, GoTo, AfterCollection, OrNone, Pcs, StartPcs, OffloadPcs, ActivatePcs,
           OtherPcs
  <1>2. StateTypeOK'
    BY DEF GcInstalls, GoTo, AfterCollection, OrNone
  <1>3. FlagTypeOK'
    BY InstallsType, ProgramsType
       DEF GcInstalls, GoTo, AfterCollection, OrNone, latchVars, signalVars, exitVars
  <1>4. CountTypeOK'
    BY InstallsType, ProgramsType
       DEF GcInstalls, GoTo, AfterCollection, OrNone, latchVars
  <1> QED BY <1>1, <1>2, <1>3, <1>4

LEMMA GcInstallFailsType ==
    ASSUME TypeOK, GcInstallFails
    PROVE  TypeOK'
  <1>1. KernelTypeOK' /\ ControlTypeOK'
    BY InstallsType, TableType, ProgramsType
       DEF GcInstallFails, GoTo, Pcs, StartPcs, OffloadPcs, ActivatePcs, OtherPcs
  <1>2. StateTypeOK'
    BY RestoredType
       DEF GcInstallFails, GoTo, engineVars
  <1>3. FlagTypeOK'
    BY InstallsType, ProgramsType
       DEF GcInstallFails, GoTo, latchVars, signalVars, exitVars
  <1>4. CountTypeOK'
    BY InstallsType, ProgramsType
       DEF GcInstallFails, GoTo, latchVars
  <1> QED BY <1>1, <1>2, <1>3, <1>4

LEMMA ReconcileInstallsType ==
    ASSUME TypeOK, ReconcileInstalls
    PROVE  TypeOK'
  <1>1. KernelTypeOK' /\ ControlTypeOK'
    BY InstallsType, TableType, ProgramsType, NoRulesType
       DEF ReconcileInstalls, GoTo, Pcs, StartPcs, OffloadPcs, ActivatePcs, OtherPcs
  <1>2. StateTypeOK'
    BY DEF ReconcileInstalls, GoTo, engineVars
  <1>3. FlagTypeOK'
    BY InstallsType, ProgramsType, NoRulesType
       DEF ReconcileInstalls, GoTo, latchVars, signalVars, exitVars
  <1>4. CountTypeOK'
    BY InstallsType, ProgramsType, NoRulesType
       DEF ReconcileInstalls, GoTo, latchVars
  <1> QED BY <1>1, <1>2, <1>3, <1>4

LEMMA ReconcileInstallFailsType ==
    ASSUME TypeOK, ReconcileInstallFails
    PROVE  TypeOK'
  <1>1. KernelTypeOK' /\ ControlTypeOK'
    BY InstallsType, TableType, ProgramsType, NoRulesType
       DEF ReconcileInstallFails, GoTo, Pcs, StartPcs, OffloadPcs, ActivatePcs, OtherPcs
  <1>2. StateTypeOK'
    BY DEF ReconcileInstallFails, GoTo, engineVars
  <1>3. FlagTypeOK'
    BY InstallsType, ProgramsType, NoRulesType
       DEF ReconcileInstallFails, GoTo, latchVars, signalVars
  <1>4. CountTypeOK'
    BY InstallsType, ProgramsType, NoRulesType
       DEF ReconcileInstallFails, GoTo, latchVars
  <1> QED BY <1>1, <1>2, <1>3, <1>4

LEMMA ReconcilePersistsType ==
    ASSUME TypeOK, ReconcilePersists
    PROVE  TypeOK'
  <1>1. KernelTypeOK' /\ ControlTypeOK'
    BY KernelKept, ReconcileReturnType
       DEF ReconcilePersists, Released, Pcs, StartPcs, OffloadPcs, ActivatePcs, OtherPcs
  <1>2. StateTypeOK'
    BY PersistsType
       DEF ReconcilePersists, Released, engineVars
  <1>3. FlagTypeOK'
    BY PersistsType
       DEF ReconcilePersists, Released, latchVars
  <1>4. CountTypeOK'
    BY PersistsType
       DEF ReconcilePersists, Released, latchVars
  <1> QED BY <1>1, <1>2, <1>3, <1>4

LEMMA ReconcilePersistFailsType ==
    ASSUME TypeOK, ReconcilePersistFails
    PROVE  TypeOK'
  <1>1. KernelTypeOK' /\ ControlTypeOK'
    BY KernelKept, MarkUnsafeType, ReconcileReturnType
       DEF ReconcilePersistFails, Released, Pcs, StartPcs, OffloadPcs, ActivatePcs, OtherPcs
  <1>2. StateTypeOK'
    BY PersistsType, MarkUnsafeType
       DEF ReconcilePersistFails, Released, engineVars
  <1>3. FlagTypeOK'
    BY PersistsType, LatchType, MarkUnsafeType
       DEF ReconcilePersistFails, Released
  <1>4. CountTypeOK'
    BY PersistsType, LatchType, MarkUnsafeType
       DEF ReconcilePersistFails, Released
  <1> QED BY <1>1, <1>2, <1>3, <1>4

LEMMA StartRemovesType ==
    ASSUME TypeOK, StartRemoves
    PROVE  TypeOK'
  <1>1. KernelTypeOK' /\ ControlTypeOK'
    BY InstallsType, TableType, NoRulesType
       DEF StartRemoves, GoTo, Pcs, StartPcs, OffloadPcs, ActivatePcs, OtherPcs
  <1>2. StateTypeOK'
    BY DEF StartRemoves, GoTo, engineVars
  <1>3. FlagTypeOK'
    BY InstallsType, NoRulesType
       DEF StartRemoves, GoTo, latchVars, signalVars, exitVars
  <1>4. CountTypeOK'
    BY InstallsType, NoRulesType
       DEF StartRemoves, GoTo, latchVars
  <1> QED BY <1>1, <1>2, <1>3, <1>4

LEMMA StartLoadsType ==
    ASSUME TypeOK, StartLoads
    PROVE  TypeOK'
  <1>1. KernelTypeOK' /\ ControlTypeOK'
    BY KernelKept, OpUpdatesType, StateParts
       DEF StartLoads, Pcs, StartPcs, OffloadPcs, ActivatePcs, OtherPcs
  <1>2. StateTypeOK'
    BY StateParts
       DEF StartLoads
  <1>3. FlagTypeOK'
    BY StateParts
       DEF StartLoads, latchVars, signalVars, exitVars
  <1>4. CountTypeOK'
    BY StateParts
       DEF StartLoads, latchVars
  <1> QED BY <1>1, <1>2, <1>3, <1>4

LEMMA StartQuarantinesType ==
    ASSUME TypeOK, StartQuarantines
    PROVE  TypeOK'
  <1>1. KernelTypeOK' /\ ControlTypeOK'
    BY KernelKept
       DEF StartQuarantines, GoTo, Pcs, StartPcs, OffloadPcs, ActivatePcs, OtherPcs
  <1>2. StateTypeOK'
    BY LostStateType, DiskType
       DEF StartQuarantines, GoTo, engineVars
  <1>3. FlagTypeOK'
    BY DEF StartQuarantines, GoTo, signalVars, exitVars
  <1>4. CountTypeOK'
    BY FaultsType
       DEF StartQuarantines, GoTo
  <1> QED BY <1>1, <1>2, <1>3, <1>4

LEMMA StartQuarantineFailsType ==
    ASSUME TypeOK, StartQuarantineFails
    PROVE  TypeOK'
  <1>1. KernelTypeOK' /\ ControlTypeOK'
    BY KernelKept, OffloadsType, NewOpType
       DEF StartQuarantineFails, Abandon, Kinds, Pcs, StartPcs, OffloadPcs, ActivatePcs,
           OtherPcs
  <1>2. StateTypeOK'
    BY DiskType, OffloadsType
       DEF StartQuarantineFails, Abandon, Kinds, engineVars
  <1>3. FlagTypeOK'
    BY OffloadsType
       DEF StartQuarantineFails, Abandon, Kinds, latchVars, signalVars, exitVars
  <1>4. CountTypeOK'
    BY FaultsType, OffloadsType
       DEF StartQuarantineFails, Abandon, Kinds, latchVars
  <1> QED BY <1>1, <1>2, <1>3, <1>4

LEMMA StartAuditsType ==
    ASSUME TypeOK, StartAudits
    PROVE  TypeOK'
  <1>1. KernelTypeOK' /\ ControlTypeOK'
    BY KernelKept, OpUpdatesType
       DEF StartAudits, Reserve, Counts, Pcs, StartPcs, OffloadPcs, ActivatePcs, OtherPcs
  <1>2. StateTypeOK'
    BY AuditedType
       DEF StartAudits, Reserve, Counts, engineVars
  <1>3. FlagTypeOK'
    BY DEF StartAudits, Reserve, Counts, signalVars, exitVars
  <1>4. CountTypeOK'
    BY DEF StartAudits, Reserve, Counts
  <1> QED BY <1>1, <1>2, <1>3, <1>4

LEMMA StartAuditFailsType ==
    ASSUME TypeOK, StartAuditFails
    PROVE  TypeOK'
  <1>1. KernelTypeOK' /\ ControlTypeOK'
    BY KernelKept
       DEF StartAuditFails, GoTo, Pcs, StartPcs, OffloadPcs, ActivatePcs, OtherPcs
  <1>2. StateTypeOK'
    BY AuditFailedType
       DEF StartAuditFails, GoTo, engineVars
  <1>3. FlagTypeOK'
    BY DEF StartAuditFails, GoTo, signalVars, exitVars
  <1>4. CountTypeOK'
    BY FaultsType
       DEF StartAuditFails, GoTo
  <1> QED BY <1>1, <1>2, <1>3, <1>4

LEMMA StartPersistsType ==
    ASSUME TypeOK, StartPersists
    PROVE  TypeOK'
  <1>1. KernelTypeOK' /\ ControlTypeOK'
    BY KernelKept
       DEF StartPersists, GoTo, StartPath, Pcs, StartPcs, OffloadPcs, ActivatePcs, OtherPcs
  <1>2. StateTypeOK'
    BY PersistsType
       DEF StartPersists, GoTo, StartPath, engineVars
  <1>3. FlagTypeOK'
    BY PersistsType
       DEF StartPersists, GoTo, StartPath, latchVars, signalVars
  <1>4. CountTypeOK'
    BY PersistsType
       DEF StartPersists, GoTo, StartPath, latchVars
  <1> QED BY <1>1, <1>2, <1>3, <1>4

LEMMA StartPersistFailsType ==
    ASSUME TypeOK, StartPersistFails
    PROVE  TypeOK'
  <1>1. KernelTypeOK' /\ ControlTypeOK'
    BY KernelKept, MarkUnsafeType, NewOpType
       DEF StartPersistFails, Abandon, Kinds, Pcs, StartPcs, OffloadPcs, ActivatePcs, OtherPcs
  <1>2. StateTypeOK'
    BY PersistsType, MarkUnsafeType
       DEF StartPersistFails, Abandon, Kinds, engineVars
  <1>3. FlagTypeOK'
    BY PersistsType, LatchType, MarkUnsafeType
       DEF StartPersistFails, Abandon, Kinds, signalVars
  <1>4. CountTypeOK'
    BY PersistsType, LatchType, MarkUnsafeType
       DEF StartPersistFails, Abandon, Kinds
  <1> QED BY <1>1, <1>2, <1>3, <1>4

LEMMA StartInstallsBoundaryType ==
    ASSUME TypeOK, StartInstallsBoundary
    PROVE  TypeOK'
  <1>1. KernelTypeOK' /\ ControlTypeOK'
    BY InstallsType, TableType, ProgramsType
       DEF StartInstallsBoundary, GoTo, Pcs, StartPcs, OffloadPcs, ActivatePcs, OtherPcs
  <1>2. StateTypeOK'
    BY DEF StartInstallsBoundary, GoTo, engineVars
  <1>3. FlagTypeOK'
    BY InstallsType, ProgramsType
       DEF StartInstallsBoundary, GoTo, latchVars, signalVars, exitVars
  <1>4. CountTypeOK'
    BY InstallsType, ProgramsType
       DEF StartInstallsBoundary, GoTo, latchVars
  <1> QED BY <1>1, <1>2, <1>3, <1>4

LEMMA StartFlipsType ==
    ASSUME TypeOK, StartFlips
    PROVE  TypeOK'
  <1>1. KernelTypeOK' /\ ControlTypeOK'
    BY InstallsType, TableType, ProgramsType, StateParts, NoOpType
       DEF StartFlips, Return, Pcs, StartPcs, OffloadPcs, ActivatePcs, OtherPcs
  <1>2. StateTypeOK'
    BY StateParts
       DEF StartFlips, Return
  <1>3. FlagTypeOK'
    BY InstallsType, ProgramsType, StateParts
       DEF StartFlips, Return, latchVars, signalVars, exitVars
  <1>4. CountTypeOK'
    BY InstallsType, ProgramsType, StateParts
       DEF StartFlips, Return, latchVars
  <1> QED BY <1>1, <1>2, <1>3, <1>4

LEMMA StartProgramsType ==
    ASSUME TypeOK, StartPrograms
    PROVE  TypeOK'
  <1>1. KernelTypeOK' /\ ControlTypeOK'
    BY InstallsType, TableType, ProgramsType, NoOpType
       DEF StartPrograms, Return, GoTo, Pcs, StartPcs, OffloadPcs, ActivatePcs, OtherPcs
  <1>2. StateTypeOK'
    BY DEF StartPrograms, Return, GoTo
  <1>3. FlagTypeOK'
    BY InstallsType, ProgramsType
       DEF StartPrograms, Return, GoTo, signalVars, exitVars
  <1>4. CountTypeOK'
    <2>1. gate' \in {gate, epoch}
      BY DEF StartPrograms
    <2>2. faults' \in Nat /\ epoch' = epoch /\ restarts' = restarts
      BY InstallsType, ProgramsType DEF StartPrograms
    <2> QED BY <2>1, <2>2
  <1> QED BY <1>1, <1>2, <1>3, <1>4

LEMMA StartProgramsUngatedType ==
    ASSUME TypeOK, StartProgramsUngated
    PROVE  TypeOK'
  <1>1. KernelTypeOK' /\ ControlTypeOK'
    BY SteersType, TableType, ProgramsType, NoOpType
       DEF StartProgramsUngated, Return, GoTo, Pcs, StartPcs, OffloadPcs, ActivatePcs,
           OtherPcs
  <1>2. StateTypeOK'
    BY DEF StartProgramsUngated, Return, GoTo
  <1>3. FlagTypeOK'
    BY SteersType, ProgramsType
       DEF StartProgramsUngated, Return, GoTo, latchVars, signalVars, exitVars
  <1>4. CountTypeOK'
    BY FaultsType, ProgramsType
       DEF StartProgramsUngated, Return, GoTo, latchVars
  <1> QED BY <1>1, <1>2, <1>3, <1>4

LEMMA StartFailsType ==
    ASSUME TypeOK, StartFails
    PROVE  TypeOK'
  <1>1. KernelTypeOK' /\ ControlTypeOK'
    BY StartOutcomeType, NewOpType
       DEF StartFails, Abandon, Kinds, Pcs, StartPcs, OffloadPcs, ActivatePcs, OtherPcs
  <1>2. StateTypeOK'
    BY DEF StartFails, Abandon, Kinds, engineVars
  <1>3. FlagTypeOK'
    BY StartOutcomeType
       DEF StartFails, Abandon, Kinds, latchVars, signalVars, exitVars
  <1>4. CountTypeOK'
    BY StartOutcomeType
       DEF StartFails, Abandon, Kinds, latchVars
  <1> QED BY <1>1, <1>2, <1>3, <1>4

LEMMA CloseRemovesType ==
    ASSUME TypeOK, CloseRemoves
    PROVE  TypeOK'
  <1>1. KernelTypeOK' /\ ControlTypeOK'
    BY InstallsType, TableType, NoRulesType
       DEF CloseRemoves, GoTo, Pcs, StartPcs, OffloadPcs, ActivatePcs, OtherPcs
  <1>2. StateTypeOK'
    BY DEF CloseRemoves, GoTo, engineVars
  <1>3. FlagTypeOK'
    BY InstallsType, NoRulesType
       DEF CloseRemoves, GoTo, latchVars, signalVars, exitVars
  <1>4. CountTypeOK'
    BY InstallsType, NoRulesType
       DEF CloseRemoves, GoTo, latchVars
  <1> QED BY <1>1, <1>2, <1>3, <1>4

LEMMA CloseFailsType ==
    ASSUME TypeOK, CloseFails
    PROVE  TypeOK'
  <1>1. KernelTypeOK' /\ ControlTypeOK'
    BY InstallsType, TableType, NoRulesType, OpUpdatesType
       DEF CloseFails, GoTo, Pcs, StartPcs, OffloadPcs, ActivatePcs, OtherPcs
  <1>2. StateTypeOK'
    BY DEF CloseFails, GoTo, engineVars
  <1>3. FlagTypeOK'
    BY InstallsType, NoRulesType
       DEF CloseFails, GoTo, latchVars, signalVars, exitVars
  <1>4. CountTypeOK'
    BY InstallsType, NoRulesType
       DEF CloseFails, GoTo, latchVars
  <1> QED BY <1>1, <1>2, <1>3, <1>4

LEMMA ProcessGoneType ==
    ASSUME TypeOK, ProcessGone, restarts' \in Nat
    PROVE  TypeOK'
  <1>1. KernelTypeOK' /\ ControlTypeOK'
    BY KernelKept, NoOpType
       DEF ProcessGone, NoGate, NoRequest, Requests, OrNone, Pcs, StartPcs, OffloadPcs,
           ActivatePcs, OtherPcs
  <1>2. StateTypeOK'
    BY EmptyStateType
       DEF ProcessGone, NoGate, NoRequest, Requests, OrNone
  <1>3. FlagTypeOK'
    BY DEF ProcessGone, NoGate, NoRequest, Requests, OrNone
  <1>4. CountTypeOK'
    BY DEF ProcessGone, NoGate, NoRequest, Requests, OrNone
  <1> QED BY <1>1, <1>2, <1>3, <1>4

LEMMA IntegrityFailureType ==
    ASSUME TypeOK, IntegrityFailure
    PROVE  TypeOK'
  <1>1. KernelTypeOK' /\ ControlTypeOK'
    BY KernelKept
       DEF IntegrityFailure, Pcs, StartPcs, OffloadPcs, ActivatePcs, OtherPcs
  <1>2. StateTypeOK'
    BY DEF IntegrityFailure, engineVars
  <1>3. FlagTypeOK'
    <2>1. signals' \in Nat
      <3>1. signals \in Nat /\ signals' = signals + 1
        BY DEF IntegrityFailure
      <3> QED BY ONLY <3>1
    <2> QED BY <2>1 DEF IntegrityFailure, exitVars
  <1>4. CountTypeOK'
    BY DEF IntegrityFailure
  <1> QED BY <1>1, <1>2, <1>3, <1>4

LEMMA ReconcileStartType ==
    ASSUME TypeOK, ReconcileStart
    PROVE  TypeOK'
  <1>1. KernelTypeOK' /\ ControlTypeOK'
    BY KernelKept
       DEF ReconcileStart, Pcs, StartPcs, OffloadPcs, ActivatePcs, OtherPcs
  <1>2. StateTypeOK'
    BY DEF ReconcileStart, engineVars
  <1>3. FlagTypeOK'
    BY DEF ReconcileStart, latchVars, exitVars
  <1>4. CountTypeOK'
    BY DEF ReconcileStart, latchVars
  <1> QED BY <1>1, <1>2, <1>3, <1>4

LEMMA ReconcileBeginType ==
    ASSUME TypeOK, ReconcileBegin
    PROVE  TypeOK'
  <1>1. KernelTypeOK' /\ ControlTypeOK'
    BY KernelKept, OpUpdatesType
       DEF ReconcileBegin, NoGate, Pcs, StartPcs, OffloadPcs, ActivatePcs, OtherPcs
  <1>2. StateTypeOK'
    BY QuarantinedType
       DEF ReconcileBegin, NoGate
  <1>3. FlagTypeOK'
    BY DEF ReconcileBegin, NoGate, exitVars
  <1>4. CountTypeOK'
    BY DEF ReconcileBegin, NoGate
  <1> QED BY <1>1, <1>2, <1>3, <1>4

LEMMA ReconcileEndType ==
    ASSUME TypeOK, ReconcileEnd
    PROVE  TypeOK'
  <1>1. KernelTypeOK' /\ ControlTypeOK'
    BY KernelKept
       DEF ReconcileEnd, Pcs, StartPcs, OffloadPcs, ActivatePcs, OtherPcs
  <1>2. StateTypeOK'
    BY DEF ReconcileEnd, engineVars
  <1>3. FlagTypeOK'
    BY DEF ReconcileEnd, latchVars, exitVars
  <1>4. CountTypeOK'
    BY DEF ReconcileEnd, latchVars
  <1> QED BY <1>1, <1>2, <1>3, <1>4

LEMMA BootType ==
    ASSUME TypeOK, Boot
    PROVE  TypeOK'
  <1>1. KernelTypeOK' /\ ControlTypeOK'
    BY KernelKept, NewOpType
       DEF Boot, Kinds, Pcs, StartPcs, OffloadPcs, ActivatePcs, OtherPcs
  <1>2. StateTypeOK'
    BY DEF Boot, Kinds, engineVars
  <1>3. FlagTypeOK'
    BY DEF Boot, Kinds, latchVars, signalVars, exitVars
  <1>4. CountTypeOK'
    BY DEF Boot, Kinds, latchVars
  <1> QED BY <1>1, <1>2, <1>3, <1>4

LEMMA ShutdownType ==
    ASSUME TypeOK, Shutdown
    PROVE  TypeOK'
  <1>1. KernelTypeOK' /\ ControlTypeOK'
    BY KernelKept, NewOpType
       DEF Shutdown, Abandon, Kinds, Pcs, StartPcs, OffloadPcs, ActivatePcs, OtherPcs
  <1>2. StateTypeOK'
    BY DEF Shutdown, Abandon, Kinds, engineVars
  <1>3. FlagTypeOK'
    BY DEF Shutdown, Abandon, Kinds, latchVars, signalVars, exitVars
  <1>4. CountTypeOK'
    BY DEF Shutdown, Abandon, Kinds, latchVars
  <1> QED BY <1>1, <1>2, <1>3, <1>4

LEMMA CrashType == ASSUME TypeOK, Crash PROVE TypeOK'
  <1>1. ProcessGone /\ restarts' \in Nat
    BY DEF Crash
  <1> QED BY <1>1, ProcessGoneType

LEMMA ExitType == ASSUME TypeOK, Exit PROVE TypeOK'
  <1>1. ProcessGone /\ restarts' \in Nat
    BY DEF Exit
  <1> QED BY <1>1, ProcessGoneType

-----------------------------------------------------------------------------
\* Prepare and RollbackFinish, which take an identifier for the artifact

LEMMA PrepareStepType ==
    ASSUME TypeOK, NEW a \in Artifacts, Prepare(a)
    PROVE  TypeOK'
  <1> DEFINE res == IF latched THEN Reserve(mem, Counts) ELSE reserved
             id == NextGeneration(mem, res)
             m == Prepared(mem, id, a)
             rebuilt == IF latched THEN Reconstructed(mem) ELSE engines
             o == [NoOp EXCEPT !.kind = "prepare", !.id = id, !.repair = latched, !.epoch = epoch]
  <1>1. res \in SUBSET Ids
    BY DEF Reserve, Counts
  <1>2. id \in 0 .. MaxId
    BY NextGenerationType
  <1>3. m \in States
    BY PreparedType
  <1>4. rebuilt \in [Ids -> OrNone(Artifacts)]
    BY ReconstructedType
  <1>5. o \in Ops
    <2> HIDE DEF id
    <2> QED BY <1>2, PrepareOpType DEF Kinds
  <1>6. [rebuilt EXCEPT ![id] = a] \in [Ids -> OrNone(Artifacts)]
    <2> HIDE DEF rebuilt, id
    <2> QED BY <1>4 DEF OrNone
  <1> HIDE DEF res, id, m, rebuilt, o
  <1>7. /\ reserved' = res
        /\ \/ mem' = m /\ engines' = [rebuilt EXCEPT ![id] = a] /\ pc' = "prep_persist" /\ op' = o
           \/ engines' = rebuilt /\ UNCHANGED <<mem, pc, op>>
    BY DEF Prepare, res, id, m, rebuilt, o
  <1>8. KernelTypeOK' /\ ControlTypeOK'
    BY <1>5, <1>7, KernelKept DEF Prepare, Pcs, OffloadPcs, ActivatePcs, OtherPcs
  <1>9. StateTypeOK'
    BY <1>1, <1>3, <1>4, <1>6, <1>7 DEF Prepare
  <1>10. FlagTypeOK' /\ CountTypeOK'
    <2>1. FlagTypeOK'
      BY DEF Prepare, signalVars, exitVars
    <2>2. gate' \in {gate, epoch}
      BY DEF Prepare
    <2>3. UNCHANGED <<epoch, faults, restarts>>
      BY DEF Prepare
    <2> QED BY <2>1, <2>2, <2>3
  <1> QED BY <1>8, <1>9, <1>10

LEMMA RollbackFinishType ==
    ASSUME TypeOK, NEW c \in Clients, RollbackFinish(c)
    PROVE  TypeOK'
  <1> DEFINE r == pend[c]
             known == IdOf(mem, r.art)
             res == Reserve(mem, r.ids)
             id == NextGeneration(mem, res)
             m == Prepared(mem, id, r.art)
             o == [NoOp EXCEPT !.kind = "rollback", !.id = id]
  <1>1. pend' \in [Clients -> Requests]
    BY AnswerType DEF RollbackFinish
  <1>2. r \in Requests
    OBVIOUS
  <1>3. UNCHANGED <<kernelVars, disk, engActive, installed, nicDown, epoch, signalVars,
                    exitVars, faults, restarts>>
    BY DEF RollbackFinish
  <1>4. KernelTypeOK'
    BY <1>3, KernelKept
  <1>5. CASE known # 0 /\ r.art \in Inert
    <2>1. UNCHANGED <<mem, engines, latchVars, pc, op, reserved>>
      BY <1>5 DEF RollbackFinish
    <2> QED BY <1>1, <1>3, <1>4, <2>1 DEF latchVars, signalVars, exitVars
  <1>6. CASE known # 0 /\ r.art \notin Inert
    <2>1. known \in 0 .. MaxId
      BY IdOfType
    <2>2. ActivateLocked(known, TRUE) /\ UNCHANGED reserved
      BY <1>6 DEF RollbackFinish
    <2>3. /\ mem' \in States /\ engines' \in [Ids -> OrNone(Artifacts)]
          /\ latched' \in BOOLEAN /\ guard' \in BOOLEAN /\ gate' \in Int
          /\ pc' \in {"idle", "act_persist"} /\ op' \in Ops
      <3> HIDE DEF known
      <3> QED BY <2>1, <2>2, ActivateLockedType
    <2> HIDE DEF known
    <2>4. ControlTypeOK'
      BY <1>1, <2>3 DEF Pcs, ActivatePcs, OtherPcs
    <2>5. StateTypeOK'
      BY <1>3, <2>2, <2>3
    <2>6. FlagTypeOK'
      BY <1>3, <2>3 DEF signalVars, exitVars
    <2>7. CountTypeOK'
      BY <1>3, <2>3
    <2> QED BY <1>4, <2>4, <2>5, <2>6, <2>7
  <1>7. CASE known = 0
    <2>1. res \in SUBSET Ids
      BY DEF Reserve, Requests
    <2>2. id \in 0 .. MaxId
      BY NextGenerationType
    <2>3. o \in Ops
      <3> HIDE DEF id
      <3> QED BY <2>2, RollbackOpType
    <2>4. /\ UNCHANGED latchVars
          /\ reserved' \in {res, reserved}
          /\ \/ UNCHANGED <<mem, engines, pc, op>>
             \/ /\ id # 0 /\ WithinBudgets(m)
                /\ mem' = m /\ engines' = [engines EXCEPT ![id] = r.art]
                /\ pc' = "rollback_persist" /\ op' = o
      BY <1>7 DEF RollbackFinish
    <2>5. r.art \in OrNone(Artifacts)
      BY <1>2 DEF Requests
    <2>6. m \in States
      <3> HIDE DEF id
      <3> QED BY <2>5 DEF Prepared, States, Phases
    <2>7. [engines EXCEPT ![id] = r.art] \in [Ids -> OrNone(Artifacts)]
      <3> HIDE DEF id, r
      <3> QED BY <2>5
    <2> HIDE DEF res, id, m, o
    <2>8. ControlTypeOK'
      BY <1>1, <2>3, <2>4 DEF Pcs, ActivatePcs, OtherPcs
    <2>9. StateTypeOK'
      BY <1>3, <2>1, <2>4, <2>6, <2>7
    <2>10. FlagTypeOK'
      BY <1>3, <2>4 DEF latchVars, signalVars, exitVars
    <2>11. CountTypeOK'
      BY <1>3, <2>4 DEF latchVars
    <2> QED BY <1>4, <2>8, <2>9, <2>10, <2>11
  <1> QED BY <1>5, <1>6, <1>7

-----------------------------------------------------------------------------
\* Every step

LEMMA KernelType == ASSUME TypeOK, Kernel \/ UNCHANGED vars PROVE TypeOK'
  <1>1. KernelTypeOK'
    BY KernelStepType, KernelKept DEF Kernel, vars
  <1>2. UNCHANGED controllerVars
    BY DEF Kernel, controllerVars, vars
  <1>3. ControlTypeOK' /\ StateTypeOK'
    BY <1>2 DEF controllerVars, engineVars
  <1>4. FlagTypeOK' /\ CountTypeOK'
    BY <1>2 DEF controllerVars, latchVars, signalVars, exitVars
  <1> QED BY <1>1, <1>3, <1>4

LEMMA InitType == Init => TypeOK
  <1> SUFFICES ASSUME Init PROVE TypeOK
    OBVIOUS
  <1>1. KernelTypeOK
    BY NoRulesType DEF Init, KernelInit, KernelTypeOK, Marks, OrNone
  <1>2. ControlTypeOK
    BY NoOpType, NoRequestType DEF Init, Pcs, OtherPcs
  <1>3. StateTypeOK
    BY EmptyStateType DEF Init, OrNone
  <1>4. FlagTypeOK
    BY DEF Init
  <1>5. CountTypeOK
    BY DEF Init, NoGate
  <1> QED BY <1>1, <1>2, <1>3, <1>4, <1>5

LEMMA TypeStep ==
    ASSUME TypeOK, [Next]_vars
    PROVE  TypeOK'
  <1> HIDE DEF TypeOK
  <1>1. CASE Kernel \/ UNCHANGED vars
    BY <1>1, KernelType
  <1>2. CASE Request
    BY <1>2, PrepareStepType, ActivateForNewConnectionsType, RollbackType,
       DeactivateForNewConnectionsType, DrainBeginType, RollbackBeginType, GcListType,
       PrepareGateFailsType
       DEF Request
  <1>3. CASE Pending
    BY <1>3, GcBeginType, CountBeginType, CountSucceedsType, CountFailsType, RollbackCountFailsType,
       DrainFinishType, GcFinishType, RollbackFinishType
       DEF Pending
  <1>4. CASE PrepareStep
    BY <1>4, PrepareInterruptedType, PreparePersistsType, PreparePersistFailsType
       DEF PrepareStep
  <1>5. CASE ActivateStep
    BY <1>5, RollbackActivateType, ActivatePersistsType, ActivatePersistFailsType,
       StageInstallsType, SweepSucceedsType, FlipInstallsType, TransactionFailsType,
       SweepFailsType, ActivateDoneType
       DEF ActivateStep
  <1>6. CASE OffloadStep
    BY <1>6, OffloadsDownType, OffloadsCaptureType, OffloadsCallFailsType,
       ClaimPersistsType, ClaimPersistFailsType, DisableSucceedsType, DisableFailsType,
       UnclaimPersistsType, UnclaimPersistFailsType, RestoreNothingType, RestoreCallType,
       RestorePersistsType, RestorePersistFailsType
       DEF OffloadStep
  <1>7. CASE CompensationStep
    BY <1>7, UnwindPersistsType, CompensationInstallsType, CompensationInstallFailsType,
       CompensationPersistsType, CompensationPersistFailsType, CompensationDoneType,
       IntegrityFailureLockedType
       DEF CompensationStep
  <1>8. CASE DeactivateStep
    BY <1>8, DeactivatePersistsType, DeactivatePersistFailsType, DeactivateInstallsType,
       DeactivateInstallFailsType
       DEF DeactivateStep
  <1>9. CASE CollectStep
    BY <1>9, DrainPersistsType, DrainPersistFailsType, GcInstallsType, GcInstallFailsType
       DEF CollectStep
  <1>10. CASE ReconcileStep
    BY <1>10, ReconcileInstallsType, ReconcileInstallFailsType, ReconcilePersistsType,
       ReconcilePersistFailsType
       DEF ReconcileStep
  <1>11. CASE StartStep
    BY <1>11, StartRemovesType, StartLoadsType, StartQuarantinesType,
       StartQuarantineFailsType, StartAuditsType, StartAuditFailsType, StartPersistsType,
       StartPersistFailsType, StartInstallsBoundaryType, StartFlipsType, StartProgramsType,
       StartProgramsUngatedType, StartFailsType
       DEF StartStep
  <1>12. CASE CloseStep
    BY <1>12, CloseRemovesType, CloseFailsType, ExitType
       DEF CloseStep
  <1>13. CASE IntegrityFailure \/ ReconcileStart \/ ReconcileBegin \/ ReconcileEnd
              \/ Boot \/ Shutdown \/ Crash
    BY <1>13, IntegrityFailureType, ReconcileStartType, ReconcileBeginType,
       ReconcileEndType, BootType, ShutdownType, CrashType
  <1> QED BY <1>1, <1>2, <1>3, <1>4, <1>5, <1>6, <1>7, <1>8, <1>9, <1>10, <1>11, <1>12,
          <1>13
            DEF Next, LockedStep

\* Whatever fails, crashes or races, every variable keeps its type: an
\* identifier is one a mark can carry and a state is one the file can hold.
THEOREM TypeCorrect == Spec => []TypeOK
  <1>1. Init => TypeOK
    BY InitType
  <1>2. TypeOK /\ [Next]_vars => TypeOK'
    BY TypeStep
  <1> QED BY <1>1, <1>2, PTL DEF Spec
=============================================================================
