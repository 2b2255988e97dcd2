-------------------------- MODULE StatusViewProofs --------------------------
(***************************************************************************)
(* Safety theorems about module StatusView, for any number of artifacts,   *)
(* pumps, engines and restarts.                                            *)
(*                                                                         *)
(* None of the properties of an answer is inductive: an answer says        *)
(* nothing of how its numbers came about.  The invariant StatusInv says    *)
(* what an engine's lineage and counters are at every moment (Registered,  *)
(* Balanced), and what a call may still rely on of what it has read so     *)
(* far, while artifacts come and go under it (Relied).                     *)
(***************************************************************************)
EXTENDS StatusView, FiniteSetTheorems, TLAPS

Views == [gens : [Ids -> Generations], active : 0 .. MaxId]

Calls ==
    [pc : {"idle", "pinned", "viewed", "counted", "detailed", "loading"},
     pinned : [Ids -> Lineages], view : Views,
     counts : [Ids -> 0 .. MaxConns], in : [Ids -> 0 .. MaxPackets],
     busy : [Ids -> Nat], objects : [Ids -> 0 .. MaxEngines], steady : SUBSET Ids]

Answers ==
    [id : Ids, identity : OrNone(Artifacts), lineage : Lineages, in : 0 .. MaxPackets,
     busy : Nat, done : 0 .. MaxPackets, object : 0 .. MaxEngines, countedOf : 0 .. MaxEngines]

Typed ==
    /\ gens \in [Ids -> Generations] /\ active \in 0 .. MaxId
    /\ engines \in [Ids -> Engines]
    /\ epoch \in 0 .. MaxRestarts /\ restarts \in 0 .. MaxRestarts
    /\ prepared \in 0 .. MaxEngines /\ created \in 0 .. MaxEngines
    /\ conns \in [Ids -> 0 .. MaxConns]
    /\ pump \in [Pumps -> [id : 0 .. MaxId, object : 0 .. MaxEngines]]

\* Engines are prepared and removed with their generations.
Hosted ==
    /\ Running = Present
    /\ \A i \in Ids : engines[i].art = gens[i].art
    /\ \A i \in Ids : active = i <=> gens[i].phase = "active"
    /\ \A i \in Present : gens[i].art \in Artifacts

\* An engine's lineage is the process and its place in it, which tells the
\* objects apart.
Registered ==
    /\ epoch = restarts /\ prepared <= created
    /\ \A i \in Running :
          /\ engines[i].lineage[1] = epoch /\ engines[i].lineage[2] \in 1 .. prepared
          /\ engines[i].object = created - prepared + engines[i].lineage[2]
    /\ \A i, j \in Running : engines[i].object = engines[j].object => i = j

\* The pumps in the engine of a generation.
In(i) == {q \in Pumps : pump[q] = [id |-> i, object |-> engines[i].object]}

\* Every packet counted in has its outcome, or is in some pump's hands.
Balanced ==
    /\ \A q \in Pumps : pump[q] = Outside \/ (pump[q].id \in Ids /\ pump[q].object \in 1 .. created)
    /\ \A i \in Running : engines[i].done + Cardinality(In(i)) = engines[i].in

EngineInv == Typed /\ Hosted /\ Registered /\ Balanced

\* What a call relies on: no engine prepared since has a lineage it pinned, so
\* while that stands the connections it counted are the engine's; and nobody
\* connects to a generation that drained then and was not activated since.
Relied ==
    /\ \A i \in Ids : call.pinned[i][2] <= prepared
    /\ call.pc \in {"counted", "detailed"} => \A i \in Serving(call.view) \cap Running :
          engines[i].lineage = call.pinned[i] => engines[i].object = call.objects[i]
    /\ call.pc = "loading" =>
          /\ call.view = View
          /\ \A i \in Serving(call.view) :
                /\ engines[i].object = call.objects[i]
                /\ call.in[i] <= engines[i].in
                /\ call.in[i] <= engines[i].done + call.busy[i]
    /\ \A i \in Draining(call.view) \cap call.steady :
          /\ active # i
          /\ call.pc \in {"counted", "detailed", "loading"} => conns[i] <= call.counts[i]

\* What an answer keeps meaning.
Answered ==
    \A a \in reply :
        /\ a.object \in 1 .. created /\ a.lineage[1] <= epoch
        /\ a.lineage[1] = epoch => a.object = created - prepared + a.lineage[2]
        /\ a.object = a.countedOf /\ a.identity \in Artifacts
        /\ a.in <= a.done + a.busy
        /\ \A i \in Running : engines[i].object = a.object =>
              engines[i].art = a.identity /\ a.in <= engines[i].in

StatusInv == EngineInv /\ call \in Calls /\ reply \subseteq Answers /\ Relied /\ Answered

-----------------------------------------------------------------------------
\* Engines

LEMMA NoEngineFields ==
    /\ NoEngine.art = None /\ NoEngine.lineage = <<0, 0>> /\ NoEngine.lineage[2] = 0
    /\ NoEngine.object = 0 /\ NoEngine.in = 0 /\ NoEngine.done = 0
    /\ NoEngine \in Engines /\ <<0, 0>> \in Lineages
  BY StatusAssumption DEF NoEngine, Engines, OrNone, Lineages

LEMMA NewEngineFields ==
    ASSUME NEW a \in OrNone(Artifacts), NEW n \in 0 .. MaxEngines, NEW o \in 0 .. MaxEngines,
           epoch \in 0 .. MaxRestarts
    PROVE  /\ NewEngine(a, n, o) \in Engines
           /\ NewEngine(a, n, o).art = a /\ NewEngine(a, n, o).lineage = <<epoch, n>>
           /\ NewEngine(a, n, o).object = o
           /\ NewEngine(a, n, o).in = 0 /\ NewEngine(a, n, o).done = 0
  <1>1. NoEngine = [art |-> None, lineage |-> <<0, 0>>, object |-> 0, in |-> 0, done |-> 0]
    BY DEF NoEngine
  <1>2. /\ NewEngine(a, n, o).art = a /\ NewEngine(a, n, o).lineage = <<epoch, n>>
        /\ NewEngine(a, n, o).object = o
        /\ NewEngine(a, n, o).in = 0 /\ NewEngine(a, n, o).done = 0
    BY <1>1 DEF NewEngine
  <1>3. NewEngine(a, n, o) \in Engines
    <2>1. NoEngine \in Engines /\ <<epoch, n>> \in Lineages
      BY NoEngineFields DEF Lineages
    <2> QED BY <2>1 DEF NewEngine, Engines
  <1> QED BY <1>2, <1>3

\* The generations that have an engine, counted up to one of them.
Rank(S, i) == Cardinality({j \in S : j <= i})

LEMMA Ranks ==
    ASSUME NEW S \in SUBSET Ids
    PROVE  /\ IsFiniteSet(S) /\ Cardinality(S) \in Nat
           /\ \A i \in S : Rank(S, i) \in 1 .. Cardinality(S)
           /\ \A i, j \in S : Rank(S, i) = Rank(S, j) => i = j
  <1>1. IsFiniteSet(Ids)
    BY StatusAssumption, FS_Interval DEF Ids
  <1>2. IsFiniteSet(S) /\ Cardinality(S) \in Nat
    BY <1>1, FS_Subset, FS_CardinalityType
  <1>3. ASSUME NEW i \in S
        PROVE  /\ IsFiniteSet({j \in S : j <= i}) /\ Rank(S, i) \in Nat
               /\ Rank(S, i) <= Cardinality(S) /\ Rank(S, i) # 0
    <2> DEFINE T == {j \in S : j <= i}
    <2>1. T \in SUBSET S /\ i \in T
      BY DEF Ids
    <2>2. IsFiniteSet(T) /\ Cardinality(T) <= Cardinality(S) /\ Cardinality(T) \in Nat
      BY <1>2, <2>1, FS_Subset, FS_CardinalityType
    <2>3. Cardinality(T) # 0
      BY <2>1, <2>2, FS_EmptySet
    <2> QED BY <2>2, <2>3 DEF Rank
  <1>4. ASSUME NEW i \in S, NEW j \in S, i < j
        PROVE  Rank(S, i) < Rank(S, j)
    <2> DEFINE T == {k \in S : k <= i}
               U == {k \in S : k <= j}
    <2>1. T \in SUBSET U /\ j \in U /\ j \notin T
      <3>1. \A k \in S : k \in Int
        BY DEF Ids
      <3>2. \A k \in S : k <= i => k <= j
        BY <1>4, <3>1
      <3>3. j <= j /\ ~ (j <= i)
        BY <1>4, <3>1
      <3> QED BY <3>2, <3>3
    <2>2. IsFiniteSet(U) /\ Cardinality(U) \in Nat /\ Cardinality(T) \in Nat
      BY <1>3 DEF Rank
    <2>3. Cardinality(T) <= Cardinality(U) /\ (Cardinality(U) = Cardinality(T) => U = T)
      BY <2>1, <2>2, FS_Subset
    <2>4. Cardinality(T) < Cardinality(U)
      BY <2>1, <2>2, <2>3
    <2> QED BY <2>4 DEF Rank
  <1>5. ASSUME NEW i \in S, NEW j \in S, Rank(S, i) = Rank(S, j) PROVE i = j
    <2>1. i \in Int /\ j \in Int
      BY DEF Ids
    <2>2. Rank(S, i) \in Nat /\ Rank(S, j) \in Nat
      BY <1>3
    <2>3. ~ (i < j)
      BY <1>4, <1>5, <2>2
    <2>4. ~ (j < i)
      BY <1>4, <1>5, <2>2
    <2> QED BY <2>1, <2>3, <2>4
  <1>6. \A i \in S : Rank(S, i) \in 1 .. Cardinality(S)
    <2>1. TAKE i \in S
    <2>2. Rank(S, i) \in Nat /\ Rank(S, i) <= Cardinality(S) /\ Rank(S, i) # 0
      BY <1>3
    <2> QED BY <1>2, <2>2
  <1> QED BY <1>2, <1>5, <1>6

LEMMA PumpsIn ==
    ASSUME NEW S \in SUBSET Pumps
    PROVE  /\ IsFiniteSet(S) /\ Cardinality(S) \in Nat
           /\ \A q \in Pumps \ S : Cardinality(S \cup {q}) = Cardinality(S) + 1
           /\ \A q \in S : Cardinality(S \ {q}) = Cardinality(S) - 1 /\ Cardinality(S) > 0
  <1>1. IsFiniteSet(S) /\ Cardinality(S) \in Nat
    BY StatusAssumption, FS_Subset, FS_CardinalityType
  <1>2. \A q \in Pumps \ S : Cardinality(S \cup {q}) = Cardinality(S) + 1
    BY <1>1, FS_AddElement
  <1>3. \A q \in S : Cardinality(S \ {q}) = Cardinality(S) - 1
    BY <1>1, FS_RemoveElement
  <1>4. S # {} => Cardinality(S) > 0
    BY <1>1, FS_EmptySet
  <1> QED BY <1>1, <1>2, <1>3, <1>4

\* What the invariant says of one engine.
LEMMA EngineFacts ==
    ASSUME EngineInv, NEW i \in Running
    PROVE  /\ i \in Ids /\ engines[i] \in Engines /\ gens[i] \in Generations
           /\ engines[i].art = gens[i].art /\ gens[i].art \in Artifacts
           /\ engines[i].lineage \in Lineages /\ engines[i].lineage[1] = epoch
           /\ engines[i].lineage[2] \in 1 .. prepared
           /\ engines[i].object \in 1 .. created
           /\ engines[i].object = created - prepared + engines[i].lineage[2]
           /\ engines[i].in \in 0 .. MaxPackets /\ engines[i].done \in 0 .. MaxPackets
           /\ engines[i].done + Cardinality(In(i)) = engines[i].in
  <1>1. i \in Ids /\ engines[i] \in Engines /\ gens[i] \in Generations
    BY DEF Running, EngineInv, Typed
  <1>2. engines[i].art = gens[i].art /\ gens[i].art \in Artifacts
    BY <1>1 DEF EngineInv, Hosted
  <1>3. /\ engines[i].lineage \in Lineages
        /\ engines[i].in \in 0 .. MaxPackets /\ engines[i].done \in 0 .. MaxPackets
    BY <1>1 DEF Engines
  <1>4. /\ engines[i].lineage[1] = epoch /\ engines[i].lineage[2] \in 1 .. prepared
        /\ engines[i].object = created - prepared + engines[i].lineage[2]
    BY DEF EngineInv, Registered
  <1>5. prepared <= created /\ prepared \in 0 .. MaxEngines /\ created \in 0 .. MaxEngines
        /\ MaxEngines \in Nat
    BY StatusAssumption DEF EngineInv, Registered, Typed
  <1>6. engines[i].object \in 1 .. created
    BY <1>4, <1>5
  <1>7. engines[i].done + Cardinality(In(i)) = engines[i].in
    BY DEF EngineInv, Balanced
  <1> QED BY <1>1, <1>2, <1>3, <1>4, <1>6, <1>7

LEMMA EngineInit == Init => EngineInv
  <1> SUFFICES ASSUME Init PROVE EngineInv
    OBVIOUS
  <1>1. \A i \in Ids : gens[i] = Absent /\ engines[i] = NoEngine
    BY DEF Init
  <1>2. Present = {} /\ Running = {}
    BY <1>1 DEF Present, Running
  <1>3. Typed
    <2>1. gens \in [Ids -> Generations]
      BY DEF Init, Absent, Generations, OrNone
    <2>2. engines \in [Ids -> Engines]
      BY NoEngineFields DEF Init
    <2>3. conns \in [Ids -> 0 .. MaxConns]
      BY StatusAssumption DEF Init, Zero
    <2>4. pump \in [Pumps -> [id : 0 .. MaxId, object : 0 .. MaxEngines]]
      BY StatusAssumption DEF Init, Outside
    <2>5. /\ active \in 0 .. MaxId /\ epoch \in 0 .. MaxRestarts /\ restarts \in 0 .. MaxRestarts
          /\ prepared \in 0 .. MaxEngines /\ created \in 0 .. MaxEngines
      BY StatusAssumption DEF Init
    <2> QED BY <2>1, <2>2, <2>3, <2>4, <2>5 DEF Typed
  <1>4. Hosted
    BY <1>1, <1>2, NoEngineFields DEF Init, Hosted, Absent, Ids
  <1>5. Registered
    BY <1>2 DEF Init, Registered
  <1>6. Balanced
    BY <1>2 DEF Init, Balanced
  <1> QED BY <1>3, <1>4, <1>5, <1>6 DEF EngineInv

-----------------------------------------------------------------------------
\* Every step keeps the engines in order

\* Steps that leave the registry and the pumps alone.
LEMMA RegistryStands ==
    ASSUME EngineInv, UNCHANGED <<registryVars, pump, restarts>>, Typed',
           \A j \in Ids : /\ gens'[j].art = gens[j].art
                          /\ gens'[j] = Absent <=> gens[j] = Absent
                          /\ active' = j <=> gens'[j].phase = "active"
    PROVE  EngineInv'
  <1>1. UNCHANGED <<engines, epoch, prepared, created, pump, restarts>>
    BY DEF registryVars
  <1>2. Running' = Running /\ Present' = Present
    BY <1>1 DEF Running, Present
  <1>3. Hosted'
    BY <1>1, <1>2 DEF EngineInv, Hosted, Present
  <1>4. Registered'
    BY <1>1, <1>2 DEF EngineInv, Registered
  <1>5. Balanced'
    BY <1>1, <1>2 DEF EngineInv, Balanced, In
  <1> QED BY <1>3, <1>4, <1>5 DEF EngineInv

LEMMA EngineRests ==
    ASSUME EngineInv, UNCHANGED <<lifecycleVars, pump, restarts>>,
           conns' \in [Ids -> 0 .. MaxConns]
    PROVE  EngineInv'
  <1>1. UNCHANGED <<gens, active, registryVars, pump, restarts>>
    BY DEF lifecycleVars
  <1>2. Typed'
    BY <1>1 DEF EngineInv, Typed, registryVars
  <1>3. \A j \in Ids : active' = j <=> gens'[j].phase = "active"
    BY <1>1 DEF EngineInv, Hosted
  <1> QED BY <1>1, <1>2, <1>3, RegistryStands

LEMMA PhaseSet ==
    ASSUME NEW g \in Generations, NEW p \in {"absent", "prepared", "active", "draining", "drained"}
    PROVE  /\ [g EXCEPT !.phase = p] \in Generations
           /\ [g EXCEPT !.phase = p].art = g.art /\ [g EXCEPT !.phase = p].phase = p
  BY DEF Generations

\* An artifact names a generation that is there.
LEMMA Named ==
    ASSUME EngineInv, NEW i \in Ids
    PROVE  /\ gens[i] \in Generations
           /\ i \in Present <=> gens[i].art \in Artifacts
           /\ i \in Present <=> gens[i] # Absent
           /\ gens[i].phase \in {"prepared", "active", "draining", "drained"} => i \in Present
           /\ active = i => i \in Present
  <1>1. gens[i] \in Generations
    BY DEF EngineInv, Typed
  <1>2. i \in Present => gens[i].art \in Artifacts
    BY DEF EngineInv, Hosted
  <1>3. Absent.art \notin Artifacts /\ Absent.phase = "absent"
    BY StatusAssumption DEF Absent
  <1>4. i \in Present <=> gens[i] # Absent
    BY DEF Present
  <1>5. active = i => gens[i].phase = "active"
    BY DEF EngineInv, Hosted
  <1> QED BY <1>1, <1>2, <1>3, <1>4, <1>5

LEMMA EnginePhases ==
    ASSUME EngineInv, NEW i \in Ids, Activate(i) \/ Deactivate \/ Drain(i)
    PROVE  EngineInv'
  <1>1. UNCHANGED <<registryVars, conns, pump, restarts>>
    BY DEF Activate, Deactivate, Drain
  <1>2. \A j \in Ids : gens[j] \in Generations /\ (active = j <=> gens[j].phase = "active")
    BY DEF EngineInv, Typed, Hosted
  <1>3. /\ gens' \in [Ids -> Generations] /\ active' \in 0 .. MaxId
        /\ \A j \in Ids : gens'[j].art = gens[j].art /\ (active' = j <=> gens'[j].phase = "active")
        /\ \A j \in Ids : gens'[j] # gens[j] => j \in Present
    <2>1. CASE Activate(i)
      <3>1. /\ gens' = [j \in Ids |->
                          IF j = i THEN [gens[j] EXCEPT !.phase = "active"]
                          ELSE IF j = active THEN [gens[j] EXCEPT !.phase = "draining"]
                          ELSE gens[j]]
            /\ active' = i /\ i \in Present /\ active # i
        BY <2>1 DEF Activate
      <3>2. \A j \in Ids : /\ gens'[j] \in Generations /\ gens'[j].art = gens[j].art
                           /\ active' = j <=> gens'[j].phase = "active"
                           /\ gens'[j] # gens[j] => j \in Present
        <4>1. TAKE j \in Ids
        <4>2. CASE j = i
          BY <1>2, <3>1, <4>2, PhaseSet
        <4>3. CASE j # i /\ j = active
          BY <1>2, <3>1, <4>3, PhaseSet, Named
        <4>4. CASE j # i /\ j # active
          BY <1>2, <3>1, <4>4
        <4> QED BY <4>2, <4>3, <4>4
      <3>3. active' \in 0 .. MaxId
        BY <3>1, StatusAssumption DEF Ids
      <3>4. gens' \in [Ids -> Generations]
        BY <3>1, <3>2
      <3> QED BY <3>2, <3>3, <3>4
    <2>2. CASE Deactivate
      <3>1. gens' = [gens EXCEPT ![active].phase = "draining"] /\ active' = 0 /\ active # 0
        BY <2>2 DEF Deactivate
      <3>2. active \in Ids /\ gens \in [Ids -> Generations] /\ 0 \notin Ids
        BY <3>1, StatusAssumption DEF EngineInv, Typed, Ids
      <3>3. gens' = [gens EXCEPT ![active] = [gens[active] EXCEPT !.phase = "draining"]]
        BY <3>1, <3>2
      <3>4. \A j \in Ids : /\ gens'[j] \in Generations /\ gens'[j].art = gens[j].art
                           /\ active' = j <=> gens'[j].phase = "active"
                           /\ gens'[j] # gens[j] => j \in Present
        <4>1. TAKE j \in Ids
        <4>2. CASE j = active
          <5>1. gens'[j] = [gens[j] EXCEPT !.phase = "draining"]
            BY <3>2, <3>3, <4>2
          <5>2. gens'[j] \in Generations /\ gens'[j].art = gens[j].art /\ gens'[j].phase = "draining"
            <6>1. gens[j] \in Generations
              BY <1>2
            <6>2. LET g == [gens[j] EXCEPT !.phase = "draining"]
                  IN  g \in Generations /\ g.art = gens[j].art /\ g.phase = "draining"
              BY <6>1, PhaseSet
            <6> QED BY <5>1, <6>2
          <5>3. j # 0 /\ j \in Present
            BY <3>2, <4>2, Named
          <5> QED BY <3>1, <5>2, <5>3
        <4>3. CASE j # active
          BY <1>2, <3>1, <3>2, <3>3, <4>3
        <4> QED BY <4>2, <4>3
      <3>5. gens' \in [Ids -> Generations]
        BY <3>2, <3>3, <1>2, PhaseSet
      <3> QED BY <3>1, <3>4, <3>5, StatusAssumption
    <2>3. CASE Drain(i)
      <3>1. PICK phase \in {"drained", "draining"} : gens' = [gens EXCEPT ![i].phase = phase]
        BY <2>3 DEF Drain
      <3>2. /\ gens \in [Ids -> Generations] /\ active' = active /\ active # i /\ i \in Present
            /\ active \in 0 .. MaxId
        BY <2>3 DEF EngineInv, Typed, Drain
      <3>3. gens' = [gens EXCEPT ![i] = [gens[i] EXCEPT !.phase = phase]]
        BY <3>1, <3>2
      <3>4. [gens[i] EXCEPT !.phase = phase] \in Generations
            /\ [gens[i] EXCEPT !.phase = phase].art = gens[i].art
            /\ [gens[i] EXCEPT !.phase = phase].phase = phase
        <4>1. phase \in {"absent", "prepared", "active", "draining", "drained"}
          BY <3>1
        <4>2. gens[i] \in Generations
          BY <1>2
        <4> QED BY <4>1, <4>2, PhaseSet
      <3>5. \A j \in Ids : /\ gens'[j].art = gens[j].art
                           /\ active' = j <=> gens'[j].phase = "active"
                           /\ gens'[j] # gens[j] => j \in Present
        <4>1. TAKE j \in Ids
        <4>2. CASE j = i
          <5>1. gens'[j] = [gens[i] EXCEPT !.phase = phase]
            BY <3>2, <3>3, <4>2
          <5> QED BY <3>1, <3>2, <3>4, <4>2, <5>1
        <4>3. CASE j # i
          BY <1>2, <3>2, <3>3, <4>3
        <4> QED BY <4>2, <4>3
      <3> QED BY <3>2, <3>3, <3>4, <3>5
    <2> QED BY <2>1, <2>2, <2>3
  <1>4. \A j \in Ids : gens'[j] = Absent <=> gens[j] = Absent
    <2>1. TAKE j \in Ids
    <2>2. CASE gens'[j] = gens[j]
      BY <2>2
    <2>3. CASE gens'[j] # gens[j]
      <3>1. gens[j] # Absent /\ gens'[j].art \in Artifacts
        BY <1>3, <2>3, Named
      <3> QED BY <3>1, StatusAssumption DEF Absent
    <2> QED BY <2>2, <2>3
  <1>5. Typed'
    BY <1>1, <1>3 DEF EngineInv, Typed, registryVars
  <1> QED BY <1>1, <1>3, <1>4, <1>5, RegistryStands

LEMMA EnginePrepare ==
    ASSUME EngineInv, NEW i \in Ids, NEW a \in Artifacts, Prepare(i, a)
    PROVE  EngineInv'
  <1> DEFINE e == NewEngine(a, prepared + 1, created + 1)
  <1>1. /\ i \notin Present /\ created < MaxEngines
        /\ gens' = [gens EXCEPT ![i] = [art |-> a, phase |-> "prepared"]]
        /\ engines' = [engines EXCEPT ![i] = e]
        /\ prepared' = prepared + 1 /\ created' = created + 1
        /\ UNCHANGED <<active, epoch, conns, pump, call, reply, restarts>>
    BY DEF Prepare, Lowest
  <1>2. /\ gens \in [Ids -> Generations] /\ engines \in [Ids -> Engines]
        /\ prepared \in 0 .. MaxEngines /\ created \in 0 .. MaxEngines /\ prepared <= created
        /\ epoch \in 0 .. MaxRestarts /\ MaxEngines \in Nat /\ Running = Present
    BY StatusAssumption DEF EngineInv, Typed, Registered, Hosted
  <1>3. prepared + 1 \in 0 .. MaxEngines /\ created + 1 \in 0 .. MaxEngines
    BY <1>1, <1>2
  <1>4. /\ e \in Engines /\ e.art = a /\ e.lineage = <<epoch, prepared + 1>>
        /\ e.object = created + 1 /\ e.in = 0 /\ e.done = 0
    <2>1. a \in OrNone(Artifacts)
      BY DEF OrNone
    <2>2. epoch \in 0 .. MaxRestarts
      BY <1>2
    <2> QED BY <1>3, <2>1, <2>2, NewEngineFields
  <1>5. e # NoEngine
    BY <1>2, <1>4, NoEngineFields
  <1> HIDE DEF e
  <1>6. [art |-> a, phase |-> "prepared"] \in Generations
    BY DEF Generations, OrNone
  <1>7. /\ gens'[i] = [art |-> a, phase |-> "prepared"] /\ engines'[i] = e
        /\ \A j \in Ids : j # i => gens'[j] = gens[j] /\ engines'[j] = engines[j]
    BY <1>1, <1>2
  <1>8. Typed'
    BY <1>1, <1>2, <1>3, <1>4, <1>6 DEF EngineInv, Typed
  <1>9. gens'[i] # Absent
    BY <1>7 DEF Absent
  <1>10. Present' = Present \cup {i} /\ Running' = Running \cup {i}
    <2>1. \A j \in Ids : j \in Present' <=> j \in Present \/ j = i
      BY <1>7, <1>9 DEF Present
    <2>2. \A j \in Ids : j \in Running' <=> j \in Running \/ j = i
      BY <1>5, <1>7 DEF Running
    <2> QED BY <2>1, <2>2 DEF Present, Running
  <1>11. Hosted'
    <2>1. \A j \in Ids : engines'[j].art = gens'[j].art
      BY <1>4, <1>7 DEF EngineInv, Hosted
    <2>2. active # i /\ UNCHANGED active
      BY <1>1, Named
    <2>3. \A j \in Ids : active' = j <=> gens'[j].phase = "active"
      BY <1>7, <2>2 DEF EngineInv, Hosted
    <2>4. \A j \in Present' : gens'[j].art \in Artifacts
      <3>1. TAKE j \in Present'
      <3>2. CASE j = i
        BY <1>7, <3>2
      <3>3. CASE j # i
        BY <1>7, <1>10, <3>1, <3>3 DEF EngineInv, Hosted, Present
      <3> QED BY <3>2, <3>3
    <2> QED BY <1>2, <1>10, <2>1, <2>3, <2>4 DEF Hosted
  <1>12. \A j \in Running : j # i /\ j \in Ids /\ engines'[j] = engines[j]
    BY <1>1, <1>2, <1>7 DEF Present
  <1>13. Registered'
    <2>1. epoch' = restarts' /\ prepared' <= created'
      BY <1>1, <1>2 DEF EngineInv, Registered
    <2>2. \A j \in Running' :
             /\ engines'[j].lineage[1] = epoch' /\ engines'[j].lineage[2] \in 1 .. prepared'
             /\ engines'[j].object = created' - prepared' + engines'[j].lineage[2]
      <3>1. TAKE j \in Running'
      <3>2. CASE j = i
        BY <1>1, <1>2, <1>4, <1>7, <3>2
      <3>3. CASE j # i
        <4>1. j \in Running /\ engines'[j] = engines[j]
          BY <1>10, <1>12, <3>3
        <4>2. /\ engines[j].lineage[1] = epoch /\ engines[j].lineage[2] \in 1 .. prepared
              /\ engines[j].object = created - prepared + engines[j].lineage[2]
          BY <4>1, EngineFacts
        <4> QED BY <1>1, <1>2, <4>1, <4>2
      <3> QED BY <3>2, <3>3
    <2>3. \A j \in Running : engines'[j].object \in 1 .. created
      BY <1>12, EngineFacts
    <2>4. engines'[i].object \notin 1 .. created
      BY <1>2, <1>4, <1>7
    <2>5. \A j, k \in Running' : engines'[j].object = engines'[k].object => j = k
      BY <1>10, <1>12, <2>3, <2>4 DEF EngineInv, Registered
    <2> QED BY <2>1, <2>2, <2>5 DEF Registered
  <1>14. Balanced'
    <2>1. \A q \in Pumps :
             pump'[q] = Outside \/ (pump'[q].id \in Ids /\ pump'[q].object \in 1 .. created')
      <3>1. \A k \in 1 .. created : k \in 1 .. created + 1
        BY <1>2
      <3> QED BY <1>1, <3>1 DEF EngineInv, Balanced
    <2>2. \A j \in Running' : engines'[j].done + Cardinality(In(j)') = engines'[j].in
      <3>1. TAKE j \in Running'
      <3>2. CASE j = i
        <4>1. \A q \in Pumps : pump[q] # [id |-> i, object |-> created + 1]
          <5>1. TAKE q \in Pumps
          <5>2. pump[q] = Outside \/ pump[q].object \in 1 .. created
            BY DEF EngineInv, Balanced
          <5>3. Outside.object = 0 /\ created + 1 # 0 /\ created + 1 \notin 1 .. created
            BY <1>2 DEF Outside
          <5> QED BY <5>2, <5>3
        <4>2. In(j)' = {}
          BY <1>1, <1>4, <1>7, <3>2, <4>1 DEF In
        <4> QED BY <1>4, <1>7, <3>2, <4>2, FS_EmptySet
      <3>3. CASE j # i
        <4>1. j \in Running /\ engines'[j] = engines[j]
          BY <1>10, <1>12, <3>3
        <4>2. In(j)' = In(j)
          BY <1>1, <4>1 DEF In
        <4> QED BY <4>1, <4>2, EngineFacts
      <3> QED BY <3>2, <3>3
    <2> QED BY <2>1, <2>2 DEF Balanced
  <1> QED BY <1>8, <1>11, <1>13, <1>14 DEF EngineInv

LEMMA EngineCollect ==
    ASSUME EngineInv, NEW i \in Ids, Collect(i)
    PROVE  EngineInv'
  <1>1. /\ i \in Present /\ active # i
        /\ gens' = [gens EXCEPT ![i] = Absent] /\ engines' = [engines EXCEPT ![i] = NoEngine]
        /\ UNCHANGED <<active, epoch, prepared, created, conns, pump, call, reply, restarts>>
    BY DEF Collect
  <1>2. gens \in [Ids -> Generations] /\ engines \in [Ids -> Engines] /\ Running = Present
    BY DEF EngineInv, Typed, Hosted
  <1>3. Absent \in Generations /\ Absent.art = None /\ Absent.phase = "absent"
    BY DEF Absent, Generations, OrNone
  <1>4. /\ gens'[i] = Absent /\ engines'[i] = NoEngine
        /\ \A j \in Ids : j # i => gens'[j] = gens[j] /\ engines'[j] = engines[j]
    BY <1>1, <1>2
  <1>5. Typed'
    BY <1>1, <1>2, <1>3, NoEngineFields DEF EngineInv, Typed
  <1>6. Present' = Present \ {i} /\ Running' = Running \ {i}
    BY <1>4 DEF Present, Running
  <1>7. Hosted'
    <2>1. \A j \in Ids : engines'[j].art = gens'[j].art
      BY <1>3, <1>4, NoEngineFields DEF EngineInv, Hosted
    <2>2. \A j \in Ids : active' = j <=> gens'[j].phase = "active"
      BY <1>1, <1>3, <1>4 DEF EngineInv, Hosted
    <2>3. \A j \in Present' : gens'[j].art \in Artifacts
      BY <1>4, <1>6 DEF EngineInv, Hosted, Present
    <2> QED BY <1>2, <1>6, <2>1, <2>2, <2>3 DEF Hosted
  <1>8. \A j \in Running' : j \in Running /\ engines'[j] = engines[j]
    BY <1>4, <1>6 DEF Running
  <1>9. Registered'
    BY <1>1, <1>8 DEF EngineInv, Registered
  <1>10. Balanced'
    <2>1. \A j \in Running' : In(j)' = In(j)
      BY <1>1, <1>8 DEF In
    <2> QED BY <1>1, <1>8, <2>1 DEF EngineInv, Balanced
  <1> QED BY <1>5, <1>7, <1>9, <1>10 DEF EngineInv

\* The successor's engines: the retained generations in order.
LEMMA Restarted ==
    ASSUME EngineInv, Restart
    PROVE  /\ epoch' = epoch + 1 /\ epoch' = restarts' /\ restarts' \in 0 .. MaxRestarts
           /\ prepared' = Cardinality(Present) /\ prepared' \in 0 .. MaxEngines
           /\ created' = created + prepared' /\ created' \in 0 .. MaxEngines
           /\ UNCHANGED <<gens, active, conns, reply>> /\ call' = NoCall
           /\ pump' = [q \in Pumps |-> Outside]
           /\ engines' \in [Ids -> Engines]
           /\ \A i \in Ids \ Present : engines'[i] = NoEngine
           /\ \A i \in Present :
                 /\ engines'[i].art = gens[i].art
                 /\ engines'[i].lineage[1] = epoch'
                 /\ engines'[i].lineage[2] = Rank(Present, i)
                 /\ engines'[i].object = created + Rank(Present, i)
                 /\ engines'[i].in = 0 /\ engines'[i].done = 0
  <1> DEFINE S == Present
             e(i) == [NewEngine(gens[i].art, Rank(S, i), created + Rank(S, i))
                        EXCEPT !.lineage[1] = restarts + 1]
  <1>1. /\ restarts < MaxRestarts /\ created + Cardinality(S) <= MaxEngines
        /\ restarts' = restarts + 1 /\ epoch' = restarts + 1
        /\ prepared' = Cardinality(S) /\ created' = created + Cardinality(S)
        /\ UNCHANGED <<gens, active, conns, reply>> /\ call' = NoCall
        /\ pump' = [q \in Pumps |-> Outside]
    BY DEF Restart
  <1>2. engines' = [i \in Ids |-> IF i \in S THEN e(i) ELSE NoEngine]
    BY DEF Restart, Rank
  <1>3. /\ restarts \in 0 .. MaxRestarts /\ epoch = restarts /\ epoch \in 0 .. MaxRestarts
        /\ created \in 0 .. MaxEngines /\ MaxEngines \in Nat /\ MaxRestarts \in Nat
        /\ gens \in [Ids -> Generations]
    BY StatusAssumption DEF EngineInv, Typed, Registered
  <1>4. /\ Cardinality(S) \in Nat
        /\ \A i \in S : Rank(S, i) \in 1 .. Cardinality(S)
    BY Ranks DEF Present
  <1>5. ASSUME NEW i \in S
        PROVE  /\ e(i) \in Engines /\ e(i).art = gens[i].art
               /\ e(i).lineage[1] = restarts + 1 /\ e(i).lineage[2] = Rank(S, i)
               /\ e(i).object = created + Rank(S, i) /\ e(i).in = 0 /\ e(i).done = 0
    <2> DEFINE n == NewEngine(gens[i].art, Rank(S, i), created + Rank(S, i))
    <2>1. gens[i].art \in OrNone(Artifacts)
      BY <1>3 DEF Present, Generations
    <2>2. Rank(S, i) \in 0 .. MaxEngines /\ created + Rank(S, i) \in 0 .. MaxEngines
      <3>1. Rank(S, i) \in 1 .. Cardinality(S)
        BY <1>4
      <3> QED BY <1>1, <1>3, <1>4, <3>1
    <2>3. /\ n \in Engines /\ n.art = gens[i].art /\ n.lineage = <<epoch, Rank(S, i)>>
          /\ n.object = created + Rank(S, i) /\ n.in = 0 /\ n.done = 0
      BY <1>3, <2>1, <2>2, NewEngineFields
    <2>4. e(i) = [n EXCEPT !.lineage = [n.lineage EXCEPT ![1] = restarts + 1]]
      BY <2>3 DEF Engines
    <2> HIDE DEF n, e
    <2>5. [n.lineage EXCEPT ![1] = restarts + 1] = <<restarts + 1, Rank(S, i)>>
      BY <2>3
    <2>6. <<restarts + 1, Rank(S, i)>> \in Lineages
      BY <1>1, <1>3, <2>2 DEF Lineages
    <2>7. e(i) = [n EXCEPT !.lineage = <<restarts + 1, Rank(S, i)>>]
      BY <2>4, <2>5
    <2> QED BY <2>3, <2>6, <2>7 DEF Engines
  <1> HIDE DEF e
  <1>6. engines' \in [Ids -> Engines]
    BY <1>2, <1>5, NoEngineFields
  <1>7. \A i \in Ids \ S : engines'[i] = NoEngine
    BY <1>2
  <1>8. \A i \in S : i \in Ids /\ engines'[i] = e(i)
    BY <1>2 DEF Present
  <1>9. restarts' \in 0 .. MaxRestarts /\ prepared' \in 0 .. MaxEngines
        /\ created' \in 0 .. MaxEngines /\ epoch' = epoch + 1 /\ created' = created + prepared'
    BY <1>1, <1>3, <1>4
  <1> QED BY <1>1, <1>5, <1>6, <1>7, <1>8, <1>9

LEMMA EngineRestart ==
    ASSUME EngineInv, Restart
    PROVE  EngineInv'
  <1> DEFINE S == Present
  <1>1. /\ Cardinality(S) \in Nat
        /\ \A i \in S : Rank(S, i) \in 1 .. Cardinality(S)
        /\ \A i, j \in S : Rank(S, i) = Rank(S, j) => i = j
    BY Ranks DEF Present
  <1>2. created \in 0 .. MaxEngines /\ MaxEngines \in Nat
    BY StatusAssumption DEF EngineInv, Typed
  <1>3. \A i \in S : engines'[i] # NoEngine
    <2>1. TAKE i \in S
    <2>2. engines'[i].object = created + Rank(S, i) /\ Rank(S, i) \in 1 .. Cardinality(S)
      BY <1>1, Restarted
    <2>3. engines'[i].object # 0
      BY <1>1, <1>2, <2>2
    <2> QED BY <2>3, NoEngineFields
  <1>4. Running' = S /\ Present' = S
    <2>1. \A i \in Ids : i \in S <=> engines'[i] # NoEngine
      BY <1>3, Restarted
    <2> QED BY <2>1, Restarted DEF Running, Present
  <1>5. Typed'
    <2>1. pump' \in [Pumps -> [id : 0 .. MaxId, object : 0 .. MaxEngines]]
      BY Restarted, StatusAssumption DEF Outside
    <2>2. epoch' \in 0 .. MaxRestarts
      BY Restarted
    <2> QED BY <2>1, <2>2, Restarted DEF EngineInv, Typed
  <1>6. Hosted'
    <2>1. \A i \in Ids : engines'[i].art = gens'[i].art
      <3>1. TAKE i \in Ids
      <3>2. CASE i \in S
        BY <3>2, Restarted
      <3>3. CASE i \notin S
        <4>1. engines'[i] = NoEngine /\ gens'[i] = Absent
          BY <3>3, Restarted DEF Present
        <4> QED BY <4>1, NoEngineFields DEF Absent
      <3> QED BY <3>2, <3>3
    <2>2. UNCHANGED <<gens, active>>
      BY Restarted
    <2> QED BY <1>4, <2>1, <2>2 DEF EngineInv, Hosted
  <1>7. Registered'
    <2>1. \A i \in S :
             /\ engines'[i].lineage[1] = epoch' /\ engines'[i].lineage[2] = Rank(S, i)
             /\ engines'[i].object = created + Rank(S, i)
      BY Restarted
    <2>2. created' - prepared' = created /\ prepared' <= created' /\ prepared' = Cardinality(S)
      <3>1. prepared' = Cardinality(S) /\ created' = created + prepared'
        BY Restarted
      <3> QED BY <1>1, <1>2, <3>1
    <2>3. \A i, j \in S : engines'[i].object = engines'[j].object => i = j
      <3>1. TAKE i, j \in S
      <3>2. Rank(S, i) \in 1 .. Cardinality(S) /\ Rank(S, j) \in 1 .. Cardinality(S)
        BY <1>1
      <3>3. engines'[i].object = engines'[j].object => Rank(S, i) = Rank(S, j)
        BY <1>1, <1>2, <2>1, <3>2
      <3> QED BY <1>1, <3>3
    <2>4. epoch' = restarts'
      BY Restarted
    <2> HIDE DEF S
    <2> QED BY <1>1, <1>4, <2>1, <2>2, <2>3, <2>4 DEF Registered
  <1>8. Balanced'
    <2>1. \A q \in Pumps : pump'[q] = Outside
      BY Restarted
    <2>2. \A i \in S : In(i)' = {}
      <3>1. TAKE i \in S
      <3>2. Outside.id = 0 /\ i # 0
        BY DEF Outside, Present, Ids
      <3>3. \A q \in Pumps : pump'[q] # [id |-> i, object |-> engines'[i].object]
        BY <2>1, <3>2
      <3> QED BY <3>3 DEF In
    <2>3. Cardinality({}) = 0
      BY FS_EmptySet
    <2>4. \A i \in S : engines'[i].in = 0 /\ engines'[i].done = 0
      BY Restarted
    <2> HIDE DEF S
    <2>5. \A i \in S : engines'[i].done + Cardinality(In(i)') = engines'[i].in
      BY <2>2, <2>3, <2>4
    <2> QED BY <1>4, <2>1, <2>5 DEF Balanced
  <1> QED BY <1>5, <1>6, <1>7, <1>8 DEF EngineInv

LEMMA EngineBegins ==
    ASSUME EngineInv, NEW q \in Pumps, NEW i \in Ids, ProcessBegins(q, i)
    PROVE  EngineInv'
  <1> DEFINE e == [engines[i] EXCEPT !.in = @ + 1]
  <1>1. /\ pump[q] = Outside /\ i \in Running /\ engines[i].in < MaxPackets
        /\ engines' = [engines EXCEPT ![i].in = @ + 1]
        /\ pump' = [pump EXCEPT ![q] = [id |-> i, object |-> engines[i].object]]
        /\ UNCHANGED <<gens, active, epoch, prepared, created, conns, call, reply, restarts>>
    BY DEF ProcessBegins
  <1>2. /\ engines \in [Ids -> Engines] /\ Running = Present
        /\ pump \in [Pumps -> [id : 0 .. MaxId, object : 0 .. MaxEngines]]
    BY DEF EngineInv, Typed, Hosted
  <1>3. engines[i] \in Engines
    BY <1>2
  <1>4. /\ e \in Engines /\ e.art = engines[i].art /\ e.lineage = engines[i].lineage
        /\ e.object = engines[i].object /\ e.in = engines[i].in + 1 /\ e.done = engines[i].done
    <2>1. engines[i].in + 1 \in 0 .. MaxPackets
      <3>1. engines[i].in \in 0 .. MaxPackets /\ MaxPackets \in Nat
        BY <1>3, StatusAssumption DEF Engines
      <3> QED BY <1>1, <3>1
    <2> QED BY <1>3, <2>1 DEF Engines
  <1>5. engines' = [engines EXCEPT ![i] = e]
    BY <1>1, <1>2
  <1> HIDE DEF e
  <1>6. engines'[i] = e /\ \A j \in Ids : j # i => engines'[j] = engines[j]
    BY <1>2, <1>5
  <1>7. engines[i].object \in 1 .. created /\ created \in 0 .. MaxEngines /\ MaxEngines \in Nat
    BY <1>1, EngineFacts, StatusAssumption DEF EngineInv, Typed
  <1>8. [id |-> i, object |-> engines[i].object] \in [id : 0 .. MaxId, object : 0 .. MaxEngines]
    BY <1>7, StatusAssumption DEF Ids
  <1>9. Typed'
    BY <1>1, <1>2, <1>4, <1>5, <1>8 DEF EngineInv, Typed
  <1>10. Running' = Running /\ Present' = Present
    <2>1. e # NoEngine
      BY <1>4, <1>7, NoEngineFields
    <2> QED BY <1>1, <1>6, <2>1 DEF Running, Present
  <1>11. \A j \in Ids : /\ engines'[j].art = engines[j].art
                        /\ engines'[j].lineage = engines[j].lineage
                        /\ engines'[j].object = engines[j].object
    BY <1>4, <1>6
  <1>12. Running \subseteq Ids
    BY DEF Running
  <1>13. Hosted'
    BY <1>1, <1>10, <1>11 DEF EngineInv, Hosted
  <1>14. Registered'
    BY <1>1, <1>10, <1>11, <1>12 DEF EngineInv, Registered
  <1>15. Balanced'
    <2>1. \A p \in Pumps : pump'[p] = IF p = q THEN [id |-> i, object |-> engines[i].object]
                                     ELSE pump[p]
      BY <1>1, <1>2
    <2>2. \A p \in Pumps :
             pump'[p] = Outside \/ (pump'[p].id \in Ids /\ pump'[p].object \in 1 .. created')
      BY <1>1, <1>7, <2>1 DEF EngineInv, Balanced
    <2>3. In(i)' = In(i) \cup {q} /\ q \in Pumps \ In(i)
      <3>1. q \notin In(i)
        BY <1>1 DEF In, Outside, Ids
      <3> QED BY <1>11, <2>1, <3>1 DEF In
    <2>4. Cardinality(In(i)') = Cardinality(In(i)) + 1 /\ Cardinality(In(i)) \in Nat
      <3>1. In(i) \in SUBSET Pumps
        BY DEF In
      <3> QED BY <2>3, <3>1, PumpsIn
    <2>5. \A j \in Running : j # i => In(j)' = In(j)
      BY <1>1, <1>11, <1>12, <2>1 DEF In, Outside, Ids
    <2>6. \A j \in Running : engines'[j].done + Cardinality(In(j)') = engines'[j].in
      <3>1. TAKE j \in Running
      <3>2. engines[j].done + Cardinality(In(j)) = engines[j].in /\ j \in Ids
            /\ engines[j].in \in Int /\ engines[j].done \in Int
        BY EngineFacts
      <3>3. CASE j = i
        BY <1>4, <1>6, <2>4, <3>2, <3>3
      <3>4. CASE j # i
        BY <1>6, <2>5, <3>2, <3>4
      <3> QED BY <3>3, <3>4
    <2> QED BY <1>10, <2>2, <2>6 DEF Balanced
  <1> QED BY <1>9, <1>13, <1>14, <1>15 DEF EngineInv

LEMMA EngineEnds ==
    ASSUME EngineInv, NEW q \in Pumps, ProcessEnds(q)
    PROVE  EngineInv'
  <1> DEFINE i == pump[q].id
             e == [engines[i] EXCEPT !.done = @ + 1]
             hit == engines[i].object = pump[q].object
  <1>1. /\ pump[q] # Outside
        /\ engines' = IF hit THEN [engines EXCEPT ![i].done = @ + 1] ELSE engines
        /\ pump' = [pump EXCEPT ![q] = Outside]
        /\ UNCHANGED <<gens, active, epoch, prepared, created, conns, call, reply, restarts>>
    BY DEF ProcessEnds
  <1>2. /\ engines \in [Ids -> Engines] /\ Running = Present
        /\ pump \in [Pumps -> [id : 0 .. MaxId, object : 0 .. MaxEngines]]
        /\ created \in 0 .. MaxEngines /\ MaxEngines \in Nat
    BY StatusAssumption DEF EngineInv, Typed, Hosted
  <1>3. /\ i \in Ids /\ pump[q].object \in 1 .. created
        /\ pump[q] = [id |-> i, object |-> pump[q].object]
    BY <1>1, <1>2 DEF EngineInv, Balanced
  <1>4. hit => i \in Running /\ q \in In(i)
    <2>1. hit => engines[i] # NoEngine
      BY <1>2, <1>3, NoEngineFields
    <2> QED BY <1>3, <2>1 DEF Running, In
  <1>5. In(i) \in SUBSET Pumps /\ Cardinality(In(i)) \in Nat
        /\ (hit => Cardinality(In(i)) > 0 /\ Cardinality(In(i) \ {q}) = Cardinality(In(i)) - 1)
    <2>1. In(i) \in SUBSET Pumps
      BY DEF In
    <2> QED BY <1>4, <2>1, PumpsIn
  <1>6. engines[i] \in Engines
    BY <1>2, <1>3
  <1>7. hit => /\ e \in Engines /\ e.art = engines[i].art /\ e.lineage = engines[i].lineage
               /\ e.object = engines[i].object /\ e.in = engines[i].in
               /\ e.done = engines[i].done + 1
    <2>1. hit => engines[i].done + 1 \in 0 .. MaxPackets
      <3>1. /\ engines[i].in \in 0 .. MaxPackets /\ engines[i].done \in 0 .. MaxPackets
            /\ MaxPackets \in Nat
        BY <1>6, StatusAssumption DEF Engines
      <3>2. hit => engines[i].done + Cardinality(In(i)) = engines[i].in
        BY <1>4, EngineFacts
      <3> QED BY <1>5, <3>1, <3>2
    <2> QED BY <1>6, <2>1 DEF Engines
  <1>8. hit => engines' = [engines EXCEPT ![i] = e]
    BY <1>1, <1>2, <1>3
  <1> HIDE DEF e
  <1>9. /\ hit => engines'[i] = e
        /\ ~ hit => engines'[i] = engines[i]
        /\ \A j \in Ids : j # i => engines'[j] = engines[j]
    BY <1>1, <1>2, <1>3, <1>8
  <1>10. engines' \in [Ids -> Engines]
    BY <1>1, <1>2, <1>7, <1>8
  <1>11. Outside \in [id : 0 .. MaxId, object : 0 .. MaxEngines]
    BY StatusAssumption DEF Outside
  <1>12. Typed'
    <2>1. pump' \in [Pumps -> [id : 0 .. MaxId, object : 0 .. MaxEngines]]
      BY <1>1, <1>2, <1>11
    <2> QED BY <1>1, <1>10, <2>1 DEF EngineInv, Typed
  <1>13. \A j \in Ids : /\ engines'[j].art = engines[j].art
                        /\ engines'[j].lineage = engines[j].lineage
                        /\ engines'[j].object = engines[j].object
                        /\ engines'[j].in = engines[j].in
    BY <1>7, <1>9
  <1>14. Running \subseteq Ids
    BY DEF Running
  <1>15. Running' = Running /\ Present' = Present
    <2>1. hit => e # NoEngine /\ engines[i] # NoEngine
      BY <1>2, <1>3, <1>7, NoEngineFields
    <2> QED BY <1>1, <1>9, <2>1 DEF Running, Present
  <1>16. Hosted'
    BY <1>1, <1>13, <1>15 DEF EngineInv, Hosted
  <1>17. Registered'
    BY <1>1, <1>13, <1>14, <1>15 DEF EngineInv, Registered
  <1>18. Balanced'
    <2>1. \A p \in Pumps : pump'[p] = IF p = q THEN Outside ELSE pump[p]
      BY <1>1, <1>2
    <2>2. \A p \in Pumps :
             pump'[p] = Outside \/ (pump'[p].id \in Ids /\ pump'[p].object \in 1 .. created')
      BY <1>1, <2>1 DEF EngineInv, Balanced
    <2>3. \A j \in Running : In(j)' = In(j) \ {q}
      BY <1>13, <1>14, <2>1 DEF In, Outside, Ids
    <2>4. \A j \in Running : q \in In(j) => j = i /\ hit
      BY <1>3 DEF In
    <2>5. \A j \in Running : engines'[j].done + Cardinality(In(j)') = engines'[j].in
      <3>1. TAKE j \in Running
      <3>2. engines[j].done + Cardinality(In(j)) = engines[j].in /\ j \in Ids
            /\ engines[j].in \in Int /\ engines[j].done \in Int
        BY EngineFacts
      <3>3. CASE q \in In(j)
        <4>1. j = i /\ hit
          BY <2>4, <3>3
        <4>2. In(j)' = In(i) \ {q}
          BY <2>3, <4>1
        <4>3. Cardinality(In(j)') = Cardinality(In(j)) - 1 /\ Cardinality(In(j)) \in Nat
          BY <1>5, <4>1, <4>2
        <4>4. engines'[j].done = engines[j].done + 1 /\ engines'[j].in = engines[j].in
          BY <1>7, <1>9, <4>1
        <4> QED BY <3>2, <4>3, <4>4
      <3>4. CASE q \notin In(j)
        <4>1. In(j)' = In(j) /\ ~ (j = i /\ hit)
          BY <1>4, <2>3, <3>4
        <4>2. engines'[j] = engines[j]
          BY <1>9, <3>2, <4>1
        <4> QED BY <3>2, <4>1, <4>2
      <3> QED BY <3>3, <3>4
    <2> QED BY <1>15, <2>2, <2>5 DEF Balanced
  <1> QED BY <1>12, <1>16, <1>17, <1>18 DEF EngineInv

LEMMA EngineNext == EngineInv /\ [Next]_vars => EngineInv'
  <1> SUFFICES ASSUME EngineInv, [Next]_vars PROVE EngineInv'
    OBVIOUS
  <1>1. conns \in [Ids -> 0 .. MaxConns] /\ MaxConns \in Nat /\ active \in 0 .. MaxId
    BY StatusAssumption DEF EngineInv, Typed
  <1>2. CASE Syn
    <2>1. UNCHANGED <<lifecycleVars, pump, restarts>> /\ active # 0 /\ conns[active] < MaxConns
          /\ conns' = [conns EXCEPT ![active] = @ + 1]
      BY <1>2 DEF Syn
    <2>2. active \in Ids
      BY <1>1, <2>1, StatusAssumption DEF Ids
    <2>3. conns[active] + 1 \in 0 .. MaxConns
      BY <1>1, <2>1, <2>2
    <2> QED BY <1>1, <2>1, <2>2, <2>3, EngineRests
  <1>3. ASSUME NEW i \in Ids, FlowEnd(i) PROVE EngineInv'
    <2>1. UNCHANGED <<lifecycleVars, pump, restarts>> /\ conns[i] > 0
          /\ conns' = [conns EXCEPT ![i] = @ - 1]
      BY <1>3 DEF FlowEnd
    <2>2. conns[i] - 1 \in 0 .. MaxConns
      BY <1>1, <2>1
    <2> QED BY <1>1, <2>1, <2>2, EngineRests
  <1>4. CASE Pin \/ Before \/ ConnectionCounts \/ ConnectionCountsFail \/ After \/ ActivityLoads
             \/ Activity \/ UNCHANGED vars
    <2>1. UNCHANGED <<lifecycleVars, conns, pump, restarts>>
      BY <1>4 DEF Pin, Before, ConnectionCounts, ConnectionCountsFail, After, ActivityLoads,
                  Activity, vars
    <2> QED BY <1>1, <2>1, EngineRests
  <1>5. ASSUME NEW i \in Ids,
               \/ \E a \in Artifacts : Prepare(i, a)
               \/ Activate(i) \/ Drain(i) \/ Collect(i) \/ FlowEnd(i)
               \/ \E q \in Pumps : ProcessBegins(q, i)
        PROVE  EngineInv'
    BY <1>3, <1>5, EnginePrepare, EnginePhases, EngineCollect, EngineBegins
  <1>6. CASE Deactivate
    <2>1. active \in Ids
      BY <1>1, <1>6, StatusAssumption DEF Deactivate, Ids
    <2> QED BY <1>6, <2>1, EnginePhases
  <1> QED BY <1>2, <1>4, <1>5, <1>6, EngineRestart, EngineEnds DEF Next

-----------------------------------------------------------------------------
\* What a step may do to the engines that a call or an answer is about

\* An engine stays the object it is, and its counters grow; another has a number
\* of its own, and a lineage that no call has pinned.
Moves ==
    /\ created' >= created
    /\ \/ epoch' = epoch /\ prepared' >= prepared /\ created' - prepared' = created - prepared
       \/ epoch' > epoch /\ call' = NoCall
    /\ \A i \in Running' :
          \/ /\ i \in Running /\ epoch' = epoch
             /\ engines'[i].art = engines[i].art /\ engines'[i].lineage = engines[i].lineage
             /\ engines'[i].object = engines[i].object
             /\ engines'[i].in >= engines[i].in /\ engines'[i].done >= engines[i].done
          \/ /\ engines'[i].object > created
             /\ engines'[i].lineage[2] > prepared \/ epoch' > epoch

LEMMA RegistryMoves ==
    ASSUME EngineInv, UNCHANGED registryVars
    PROVE  Moves
  <1>1. UNCHANGED <<engines, epoch, prepared, created>>
    BY DEF registryVars
  <1>2. created \in Int /\ prepared \in Int /\ epoch \in Int
    BY DEF EngineInv, Typed
  <1>3. Running' = Running /\ \A i \in Running : engines[i].in \in Int /\ engines[i].done \in Int
    BY <1>1, EngineFacts DEF Running
  <1> QED BY <1>1, <1>2, <1>3 DEF Moves

LEMMA EnginesMove ==
    ASSUME EngineInv, [Next]_vars
    PROVE  Moves
  <1>1. /\ created \in 0 .. MaxEngines /\ prepared \in 0 .. MaxEngines /\ epoch \in 0 .. MaxRestarts
        /\ MaxEngines \in Nat /\ MaxRestarts \in Nat
        /\ engines \in [Ids -> Engines] /\ Running = Present
    BY StatusAssumption DEF EngineInv, Typed, Hosted
  <1>2. \A i \in Running : i \in Ids /\ engines[i].in \in Int /\ engines[i].done \in Int
    BY EngineFacts
  <1>3. ASSUME NEW i \in Ids, NEW a \in Artifacts, Prepare(i, a) PROVE Moves
    <2> DEFINE e == NewEngine(a, prepared + 1, created + 1)
    <2>1. /\ created < MaxEngines /\ engines' = [engines EXCEPT ![i] = e]
          /\ prepared' = prepared + 1 /\ created' = created + 1 /\ epoch' = epoch
      BY <1>3 DEF Prepare
    <2>2. e.lineage = <<epoch, prepared + 1>> /\ e.object = created + 1
      <3>1. /\ a \in OrNone(Artifacts)
            /\ prepared + 1 \in 0 .. MaxEngines /\ created + 1 \in 0 .. MaxEngines
        BY <1>1, <2>1 DEF OrNone, EngineInv, Registered
      <3> QED BY <1>1, <3>1, NewEngineFields
    <2> HIDE DEF e
    <2>3. engines'[i] = e /\ \A j \in Ids : j # i => engines'[j] = engines[j]
      BY <1>1, <2>1
    <2>4. \A j \in Running' : j # i => j \in Running /\ engines'[j] = engines[j]
      BY <2>3 DEF Running
    <2>5. engines'[i].object > created /\ engines'[i].lineage[2] > prepared
      BY <1>1, <2>2, <2>3
    <2>6. /\ created' >= created /\ prepared' >= prepared
          /\ created' - prepared' = created - prepared
      BY <1>1, <2>1
    <2>7. \A j \in Running' : j # i => /\ engines'[j].in >= engines[j].in
                                       /\ engines'[j].done >= engines[j].done
      BY <1>2, <2>4
    <2> QED BY <2>1, <2>4, <2>5, <2>6, <2>7 DEF Moves
  <1>4. ASSUME NEW i \in Ids, Collect(i) PROVE Moves
    <2>1. engines' = [engines EXCEPT ![i] = NoEngine] /\ UNCHANGED <<epoch, prepared, created>>
      BY <1>4 DEF Collect
    <2>2. \A j \in Running' : j \in Running /\ engines'[j] = engines[j]
      BY <1>1, <2>1 DEF Running
    <2> QED BY <1>1, <1>2, <2>1, <2>2 DEF Moves
  <1>5. CASE Restart
    <2>1. /\ epoch' = epoch + 1 /\ call' = NoCall /\ created' = created + prepared'
          /\ prepared' \in 0 .. MaxEngines
      BY <1>5, Restarted
    <2>2. \A i \in Running' : i \in Present /\ engines'[i].object = created + Rank(Present, i)
      BY <1>5, Restarted DEF Running
    <2>3. \A i \in Present : Rank(Present, i) \in 1 .. Cardinality(Present)
      BY Ranks DEF Present
    <2>4. \A i \in Running' : engines'[i].object > created
      <3>1. TAKE i \in Running'
      <3>2. engines'[i].object = created + Rank(Present, i) /\ i \in Present
        BY <2>2
      <3>3. Rank(Present, i) \in 1 .. Cardinality(Present)
        BY <2>3, <3>2
      <3> QED BY <1>1, <3>2, <3>3
    <2>5. epoch' > epoch /\ created' >= created
      <3>1. epoch \in Int /\ epoch' = epoch + 1
        BY <1>1, <2>1
      <3>2. created \in Int /\ created' = created + prepared'
        BY <1>1, <2>1
      <3>3. \A old \in Int, n \in Nat : old + n >= old
        OBVIOUS
      <3>4. created' >= created
        <4>1. prepared' \in Nat
          BY <1>1, <2>1
        <4> QED BY <3>2, <3>3, <4>1
      <3> QED BY <3>1, <3>4
    <2> QED BY <2>1, <2>4, <2>5 DEF Moves
  <1>6. ASSUME NEW q \in Pumps, NEW i \in Ids, ProcessBegins(q, i) PROVE Moves
    <2>1. /\ engines' = [engines EXCEPT ![i].in = @ + 1] /\ i \in Running
          /\ UNCHANGED <<epoch, prepared, created>>
      BY <1>6 DEF ProcessBegins
    <2>2. \A j \in Ids : j # i => engines'[j] = engines[j]
      BY <1>1, <2>1
    <2>3. /\ engines'[i].art = engines[i].art /\ engines'[i].lineage = engines[i].lineage
          /\ engines'[i].object = engines[i].object
          /\ engines'[i].in = engines[i].in + 1 /\ engines'[i].done = engines[i].done
      BY <1>1, <2>1 DEF Engines
    <2>4. \A j \in Running' : j # i => j \in Running /\ engines'[j] = engines[j]
      BY <2>2 DEF Running
    <2>5. engines[i].in \in Int /\ engines[i].done \in Int
      BY <1>2, <2>1
    <2> QED BY <1>1, <1>2, <2>1, <2>3, <2>4, <2>5 DEF Moves
  <1>7. ASSUME NEW q \in Pumps, ProcessEnds(q) PROVE Moves
    <2> DEFINE i == pump[q].id
    <2>1. /\ \/ engines' = engines
             \/ /\ engines' = [engines EXCEPT ![i].done = @ + 1]
                /\ engines[i].object = pump[q].object
          /\ pump[q] # Outside /\ UNCHANGED <<epoch, prepared, created>>
      BY <1>7 DEF ProcessEnds
    <2>2. CASE engines' = engines
      BY <2>1, <2>2, RegistryMoves DEF registryVars
    <2>3. CASE engines' = [engines EXCEPT ![i].done = @ + 1]
               /\ engines[i].object = pump[q].object
      <3>1. i \in Ids /\ pump[q].object \in 1 .. created
        BY <2>1 DEF EngineInv, Balanced
      <3> HIDE DEF i
      <3>2. i \in Running
        BY <1>1, <2>3, <3>1, NoEngineFields DEF Running
      <3>3. \A j \in Ids : j # i => engines'[j] = engines[j]
        BY <1>1, <2>3
      <3>4. /\ engines'[i].art = engines[i].art /\ engines'[i].lineage = engines[i].lineage
            /\ engines'[i].object = engines[i].object
            /\ engines'[i].in = engines[i].in /\ engines'[i].done = engines[i].done + 1
        BY <1>1, <2>3, <3>1 DEF Engines
      <3>5. \A j \in Running' : j # i => j \in Running /\ engines'[j] = engines[j]
        BY <3>3 DEF Running
      <3>6. engines[i].in \in Int /\ engines[i].done \in Int
        BY <1>2, <3>2
      <3> QED BY <1>1, <1>2, <2>1, <3>2, <3>4, <3>5, <3>6 DEF Moves
    <2> QED BY <2>1, <2>2, <2>3
  <1>8. UNCHANGED registryVars => Moves
    BY RegistryMoves
  <1>9. \/ UNCHANGED registryVars
        \/ \E i \in Ids : \/ \E a \in Artifacts : Prepare(i, a)
                          \/ Collect(i) \/ \E q \in Pumps : ProcessBegins(q, i)
        \/ Restart \/ \E q \in Pumps : ProcessEnds(q)
    BY DEF Next, vars, lifecycleVars, Activate, Deactivate, Drain, Syn, FlowEnd, Pin, Before,
           ConnectionCounts, ConnectionCountsFail, After, ActivityLoads, Activity
  <1> QED BY <1>3, <1>4, <1>5, <1>6, <1>7, <1>8, <1>9

-----------------------------------------------------------------------------
\* The call

LEMMA ViewFacts ==
    ASSUME EngineInv
    PROVE  /\ View \in Views /\ View.gens = gens /\ View.active = active
           /\ Serving(View) \subseteq Running /\ Draining(View) \subseteq Serving(View)
           /\ \A i \in Draining(View) : active # i
  <1>1. View \in Views /\ View.gens = gens /\ View.active = active
    BY DEF View, Views, EngineInv, Typed
  <1>2. \A i \in Ids : gens[i].phase \in {"active", "draining"} => i \in Present
    BY Named
  <1>3. Running = Present /\ \A i \in Ids : active = i <=> gens[i].phase = "active"
    BY DEF EngineInv, Hosted
  <1> QED BY <1>1, <1>2, <1>3 DEF Serving, Draining

LEMMA NoCallFields ==
    /\ NoCall \in Calls /\ NoCall.pc = "idle" /\ NoCall.view = NoView /\ NoCall.steady = {}
    /\ NoCall.pinned = [i \in Ids |-> <<0, 0>>]
    /\ Serving(NoView) = {} /\ Draining(NoView) = {}
  <1>1. NoView \in Views /\ \A i \in Ids : NoView.gens[i].phase = "absent"
    BY StatusAssumption DEF NoView, Views, Absent, Generations, OrNone
  <1>2. /\ Zero \in [Ids -> 0 .. MaxConns] /\ Zero \in [Ids -> 0 .. MaxPackets]
        /\ Zero \in [Ids -> Nat] /\ Zero \in [Ids -> 0 .. MaxEngines]
    BY StatusAssumption DEF Zero
  <1>3. NoEngine.lineage = <<0, 0>> /\ [i \in Ids |-> <<0, 0>>] \in [Ids -> Lineages]
    BY NoEngineFields
  <1>4. NoCall = [pc |-> "idle", pinned |-> [i \in Ids |-> <<0, 0>>], view |-> NoView,
                  counts |-> Zero, in |-> Zero, busy |-> Zero, objects |-> Zero, steady |-> {}]
    BY <1>3 DEF NoCall
  <1>5. NoCall \in Calls
    BY <1>1, <1>2, <1>3, <1>4 DEF Calls
  <1> QED BY <1>1, <1>4, <1>5 DEF Serving, Draining

\* A call that has not begun relies on nothing.
LEMMA NothingRelied ==
    ASSUME prepared \in Nat, call = NoCall
    PROVE  Relied
  BY NoCallFields DEF Relied

\* A step of someone else leaves a call what it relies on.
LEMMA ReliedRests ==
    ASSUME EngineInv, EngineInv', call \in Calls, Relied, Moves, epoch' = epoch,
           /\ call'.pc = call.pc /\ call'.pinned = call.pinned /\ call'.view = call.view
           /\ call'.counts = call.counts /\ call'.in = call.in /\ call'.busy = call.busy
           /\ call'.objects = call.objects /\ call'.steady \subseteq call.steady,
           call.pc = "loading" => UNCHANGED <<gens, active, created>>,
           \A i \in Draining(call.view) \cap call'.steady :
               active' # i /\ conns'[i] <= conns[i]
    PROVE  Relied'
  <1>1. /\ epoch \in Int /\ prepared \in Int /\ created \in Int /\ prepared' \in Int
        /\ conns \in [Ids -> 0 .. MaxConns] /\ conns' \in [Ids -> 0 .. MaxConns]
        /\ MaxConns \in Nat
    BY StatusAssumption DEF EngineInv, Typed
  <1>2. \A i \in Ids : call.pinned[i] \in Lineages /\ call.pinned[i][2] \in Int
    BY DEF Calls, Lineages
  <1>3. \A i \in Ids : call.pinned[i][2] <= prepared
    BY DEF Relied
  <1>4. prepared' >= prepared
    BY <1>1 DEF Moves
  <1>5. \A i \in Ids : call'.pinned[i][2] <= prepared'
    BY <1>1, <1>2, <1>3, <1>4
  <1>6. ASSUME NEW i \in Running'
        PROVE  \/ /\ i \in Running /\ engines'[i].lineage = engines[i].lineage
                  /\ engines'[i].object = engines[i].object
                  /\ engines'[i].in >= engines[i].in /\ engines'[i].done >= engines[i].done
               \/ engines'[i].object > created /\ engines'[i].lineage[2] > prepared
    BY <1>1 DEF Moves
  <1>7. ASSUME call.pc \in {"counted", "detailed"}, NEW i \in Serving(call.view) \cap Running',
               engines'[i].lineage = call.pinned[i]
        PROVE  engines'[i].object = call.objects[i]
    <2>1. i \in Ids /\ ~ (engines'[i].lineage[2] > prepared)
      BY <1>1, <1>2, <1>3, <1>7 DEF Serving
    <2>2. /\ i \in Running /\ engines'[i].lineage = engines[i].lineage
          /\ engines'[i].object = engines[i].object
      BY <1>6, <1>7, <2>1
    <2> QED BY <1>7, <2>2 DEF Relied
  <1>8. ASSUME call.pc = "loading"
        PROVE  /\ call.view = View'
               /\ \A i \in Serving(call.view) :
                     /\ engines'[i].object = call.objects[i]
                     /\ call.in[i] <= engines'[i].in
                     /\ call.in[i] <= engines'[i].done + call.busy[i]
    <2>1. call.view = View /\ View' = View /\ created' = created
      BY <1>8 DEF Relied, View
    <2>2. ASSUME NEW i \in Serving(call.view)
          PROVE  /\ engines'[i].object = engines[i].object
                 /\ engines'[i].in >= engines[i].in /\ engines'[i].done >= engines[i].done
                 /\ i \in Running /\ i \in Running'
      <3>1. i \in Running /\ gens' = gens /\ Running' = Present' /\ Running = Present
        BY <1>8, <2>1, <2>2, ViewFacts DEF EngineInv, Hosted
      <3>2. i \in Running'
        BY <3>1 DEF Present
      <3>3. engines'[i].object <= created'
        <4>1. /\ engines'[i].lineage[2] \in 1 .. prepared' /\ created' \in Int
              /\ engines'[i].object = created' - prepared' + engines'[i].lineage[2]
          BY <3>2 DEF EngineInv, Registered, Typed
        <4> QED BY <1>1, <4>1
      <3>4. engines'[i].object \in Int
        BY <3>2 DEF EngineInv, Typed, Engines, Running
      <3>5. ~ (engines'[i].object > created)
        BY <1>1, <2>1, <3>3, <3>4
      <3> QED BY <1>6, <3>1, <3>2, <3>5
    <2>3. ASSUME NEW i \in Serving(call.view)
          PROVE  /\ engines'[i].object = call.objects[i]
                 /\ call.in[i] <= engines'[i].in
                 /\ call.in[i] <= engines'[i].done + call.busy[i]
      <3>1. /\ engines[i].object = call.objects[i]
            /\ call.in[i] <= engines[i].in
            /\ call.in[i] <= engines[i].done + call.busy[i]
        BY <1>8 DEF Relied
      <3>2. call.in[i] \in Int /\ call.busy[i] \in Int /\ i \in Ids
        BY DEF Calls, Serving
      <3>3. /\ engines[i].in \in Int /\ engines[i].done \in Int
            /\ engines'[i].in \in Int /\ engines'[i].done \in Int
        BY <3>2 DEF EngineInv, Typed, Engines
      <3> QED BY <2>2, <3>1, <3>2, <3>3
    <2> QED BY <2>1, <2>3
  <1>9. ASSUME NEW i \in Draining(call.view) \cap call'.steady,
               call.pc \in {"counted", "detailed", "loading"}
        PROVE  conns'[i] <= call.counts[i]
    <2>1. i \in Draining(call.view) \cap call.steady /\ i \in Ids
      BY DEF Draining
    <2>2. conns[i] <= call.counts[i] /\ conns'[i] <= conns[i]
      BY <1>9, <2>1 DEF Relied
    <2>3. conns[i] \in Int /\ conns'[i] \in Int /\ call.counts[i] \in Int
      BY <1>1, <2>1 DEF Calls
    <2> QED BY <2>2, <2>3
  <1> QED BY <1>5, <1>7, <1>8, <1>9 DEF Relied

LEMMA CallInit == Init => call \in Calls /\ Relied /\ reply \subseteq Answers /\ Answered
  BY NoCallFields, NothingRelied DEF Init, Answered

\* Everything but the status.
LEMMA CallRests ==
    ASSUME EngineInv, EngineInv', call \in Calls, Relied, Moves, [Next]_vars,
           \/ UNCHANGED vars \/ Deactivate \/ Restart \/ Syn
           \/ \E i \in Ids : \/ \E a \in Artifacts : Prepare(i, a)
                             \/ Activate(i) \/ Drain(i) \/ Collect(i) \/ FlowEnd(i)
                             \/ \E q \in Pumps : ProcessBegins(q, i)
           \/ \E q \in Pumps : ProcessEnds(q)
    PROVE  call' \in Calls /\ Relied' /\ reply' = reply
  <1>1. conns \in [Ids -> 0 .. MaxConns] /\ MaxConns \in Nat /\ active \in 0 .. MaxId
        /\ \A i \in Ids : conns[i] \in Int /\ conns[i] <= conns[i] /\ conns[i] - 1 <= conns[i]
    BY StatusAssumption DEF EngineInv, Typed
  <1>2. \A i \in Draining(call.view) \cap call.steady : i \in Ids /\ active # i
    BY DEF Relied, Draining
  <1>3. CASE Restart
    <2>1. call' = NoCall /\ reply' = reply /\ prepared' \in Nat
      BY <1>3, Restarted
    <2>2. Relied'
      BY <2>1, NoCallFields DEF Relied
    <2> QED BY <2>1, <2>2, NoCallFields
  <1>4. ASSUME call' = call, epoch' = epoch, reply' = reply,
               call.pc = "loading" => UNCHANGED <<gens, active, created>>,
               \A i \in Draining(call.view) \cap call.steady :
                   active' # i /\ conns'[i] <= conns[i]
        PROVE  call' \in Calls /\ Relied' /\ reply' = reply
    BY <1>4, ReliedRests
  <1>5. CASE Syn
    <2>1. UNCHANGED <<gens, active, epoch, created, call, reply>>
          /\ conns' = [conns EXCEPT ![active] = @ + 1]
      BY <1>5 DEF Syn, lifecycleVars, registryVars
    <2>2. \A i \in Draining(call.view) \cap call.steady : active' # i /\ conns'[i] <= conns[i]
      BY <1>1, <1>2, <2>1
    <2> QED BY <1>4, <2>1, <2>2
  <1>6. ASSUME NEW j \in Ids, FlowEnd(j) PROVE call' \in Calls /\ Relied' /\ reply' = reply
    <2>1. UNCHANGED <<gens, active, epoch, created, call, reply>>
          /\ conns' = [conns EXCEPT ![j] = @ - 1]
      BY <1>6 DEF FlowEnd, lifecycleVars, registryVars
    <2>2. \A i \in Draining(call.view) \cap call.steady : active' # i /\ conns'[i] <= conns[i]
      BY <1>1, <1>2, <2>1
    <2> QED BY <1>4, <2>1, <2>2
  <1>7. ASSUME UNCHANGED <<active, epoch, conns, call, reply>>,
               call.pc = "loading" => UNCHANGED <<gens, created>>
        PROVE  call' \in Calls /\ Relied' /\ reply' = reply
    BY <1>1, <1>2, <1>4, <1>7
  <1>8. ASSUME NEW i \in Ids, NEW a \in Artifacts, Prepare(i, a)
        PROVE  call' \in Calls /\ Relied' /\ reply' = reply
    BY <1>7, <1>8 DEF Prepare, Unlocked
  <1>9. ASSUME NEW i \in Ids, Drain(i) \/ Collect(i)
        PROVE  call' \in Calls /\ Relied' /\ reply' = reply
    BY <1>7, <1>9 DEF Drain, Collect, Unlocked, registryVars
  <1>10. ASSUME NEW q \in Pumps, ProcessEnds(q) \/ \E i \in Ids : ProcessBegins(q, i)
         PROVE  call' \in Calls /\ Relied' /\ reply' = reply
    BY <1>7, <1>10 DEF ProcessEnds, ProcessBegins
  <1>11. CASE UNCHANGED vars
    BY <1>7, <1>11 DEF vars, lifecycleVars, registryVars
  <1>12. CASE Deactivate
    <2>1. UNCHANGED <<epoch, conns, call, reply>> /\ active' = 0 /\ call.pc # "loading"
      BY <1>12 DEF Deactivate, Unlocked, registryVars
    <2>2. \A i \in Draining(call.view) \cap call.steady : active' # i /\ conns'[i] <= conns[i]
      BY <1>1, <1>2, <2>1, StatusAssumption DEF Ids
    <2> QED BY <1>4, <2>1, <2>2
  <1>13. ASSUME NEW j \in Ids, Activate(j) PROVE call' \in Calls /\ Relied' /\ reply' = reply
    <2>1. UNCHANGED <<epoch, conns, reply>> /\ active' = j /\ call.pc # "loading"
          /\ call' = [call EXCEPT !.steady = @ \ {j}]
      BY <1>13 DEF Activate, Unlocked, registryVars
    <2>2. /\ call' \in Calls
          /\ call'.pc = call.pc /\ call'.pinned = call.pinned /\ call'.view = call.view
          /\ call'.counts = call.counts /\ call'.in = call.in /\ call'.busy = call.busy
          /\ call'.objects = call.objects /\ call'.steady = call.steady \ {j}
      BY <2>1 DEF Calls
    <2>3. \A i \in Draining(call.view) \cap call'.steady : active' # i /\ conns'[i] <= conns[i]
      BY <1>1, <2>1, <2>2 DEF Draining
    <2> QED BY <2>1, <2>2, <2>3, ReliedRests
  <1> QED BY <1>3, <1>5, <1>6, <1>8, <1>9, <1>10, <1>11, <1>12, <1>13

-----------------------------------------------------------------------------
\* The status

LEMMA OfFacts ==
    ASSUME NEW S, NEW f, NEW d, NEW i \in Ids
    PROVE  Of(S, f, d)[i] = IF i \in S THEN f[i] ELSE d
  BY DEF Of

\* The pumps in an engine that a view serves are a number.
LEMMA BusyType ==
    ASSUME EngineInv, NEW i \in Ids
    PROVE  Busy(i) = Cardinality(In(i)) /\ Busy(i) \in Nat
  <1>1. In(i) \in SUBSET Pumps
    BY DEF In
  <1>2. Cardinality(In(i)) \in Nat
    BY <1>1, PumpsIn
  <1> QED BY <1>2 DEF Busy, In

LEMMA StatusRests ==
    ASSUME Pin \/ Before \/ ConnectionCounts \/ ConnectionCountsFail \/ After \/ ActivityLoads
           \/ Activity
    PROVE  UNCHANGED <<gens, active, engines, epoch, prepared, created, conns, pump, restarts>>
  BY DEF Pin, Before, ConnectionCounts, ConnectionCountsFail, After, ActivityLoads, Activity,
         lifecycleVars, registryVars

\* What the invariant gives of the registry and the connections.
LEMMA CallTypes ==
    ASSUME EngineInv
    PROVE  /\ engines \in [Ids -> Engines] /\ conns \in [Ids -> 0 .. MaxConns]
           /\ prepared \in Nat /\ created \in Nat /\ epoch \in Nat /\ prepared <= created
           /\ MaxPackets \in Nat /\ MaxEngines \in Nat /\ MaxConns \in Nat /\ MaxRestarts \in Nat
           /\ \A i \in Ids : /\ engines[i].lineage \in Lineages /\ engines[i].object \in 0 .. MaxEngines
                             /\ engines[i].in \in 0 .. MaxPackets /\ engines[i].done \in 0 .. MaxPackets
                             /\ conns[i] \in 0 .. MaxConns
           /\ \A i \in Ids : engines[i].lineage[2] <= prepared
  <1>1. /\ engines \in [Ids -> Engines] /\ conns \in [Ids -> 0 .. MaxConns]
        /\ prepared \in Nat /\ created \in Nat /\ epoch \in Nat /\ prepared <= created
        /\ MaxPackets \in Nat /\ MaxEngines \in Nat /\ MaxConns \in Nat /\ MaxRestarts \in Nat
    BY StatusAssumption DEF EngineInv, Typed, Registered
  <1>2. \A i \in Ids : /\ engines[i].lineage \in Lineages /\ engines[i].object \in 0 .. MaxEngines
                       /\ engines[i].in \in 0 .. MaxPackets /\ engines[i].done \in 0 .. MaxPackets
                       /\ conns[i] \in 0 .. MaxConns
    BY <1>1 DEF Engines
  <1>3. \A i \in Ids : engines[i].lineage[2] <= prepared
    <2>1. TAKE i \in Ids
    <2>2. CASE i \in Running
      BY <1>1, <2>2, EngineFacts
    <2>3. CASE i \notin Running
      BY <1>1, <2>3, NoEngineFields DEF Running
    <2> QED BY <2>2, <2>3
  <1> QED BY <1>1, <1>2, <1>3

LEMMA StatusPins ==
    ASSUME EngineInv, call \in Calls, Relied, Pin
    PROVE  call' \in Calls /\ Relied' /\ reply' = {}
  <1> DEFINE pinned == [i \in Ids |-> engines[i].lineage]
  <1>1. call' = [NoCall EXCEPT !.pc = "pinned", !.pinned = pinned] /\ reply' = {}
    BY DEF Pin
  <1>2. pinned \in [Ids -> Lineages]
    BY CallTypes
  <1>3. \A i \in Ids : pinned[i][2] <= prepared'
    BY CallTypes, StatusRests
  <1> HIDE DEF pinned
  <1>4. /\ call' \in Calls /\ call'.pc = "pinned" /\ call'.pinned = pinned
        /\ call'.view = NoView /\ call'.steady = {}
    BY <1>1, <1>2, NoCallFields DEF Calls
  <1>5. Relied'
    BY <1>3, <1>4, NoCallFields DEF Relied
  <1> QED BY <1>1, <1>4, <1>5

LEMMA StatusViews ==
    ASSUME EngineInv, call \in Calls, Relied, Before
    PROVE  call' \in Calls /\ Relied' /\ reply' = reply
  <1> DEFINE pinned == Of(Serving(View), call.pinned, NoEngine.lineage)
  <1>1. /\ call' = [call EXCEPT !.pc = "viewed", !.view = View, !.pinned = pinned,
                                !.steady = Serving(View)]
        /\ reply' = reply
    BY DEF Before, Calls
  <1>2. pinned \in [Ids -> Lineages]
    BY NoEngineFields DEF Of, Calls
  <1>3. \A i \in Ids : pinned[i][2] <= prepared
    <2>1. TAKE i \in Ids
    <2>2. pinned[i] = call.pinned[i] \/ pinned[i] = <<0, 0>>
      BY NoEngineFields, OfFacts
    <2>3. <<0, 0>>[2] = 0 /\ 0 <= prepared
      BY CallTypes
    <2> QED BY <2>2, <2>3 DEF Relied
  <1> HIDE DEF pinned
  <1>4. Serving(View) \in SUBSET Ids /\ View \in Views
    BY ViewFacts DEF Serving
  <1>5. /\ call' \in Calls /\ call'.pc = "viewed" /\ call'.pinned = pinned
        /\ call'.view = View /\ call'.steady = Serving(View)
    BY <1>1, <1>2, <1>4 DEF Calls
  <1>6. UNCHANGED <<active, prepared>>
    BY StatusRests
  <1>7. Relied'
    BY <1>3, <1>5, <1>6, ViewFacts DEF Relied
  <1> QED BY <1>1, <1>5, <1>7

LEMMA StatusCounts ==
    ASSUME EngineInv, call \in Calls, Relied, ConnectionCounts
    PROVE  call' \in Calls /\ Relied' /\ reply' = reply
  <1> DEFINE counts == Of(Serving(call.view), conns, 0)
             objects == Of(Serving(call.view), [i \in Ids |-> engines[i].object], 0)
  <1>1. /\ call' = [call EXCEPT !.pc = "counted", !.counts = counts, !.objects = objects]
        /\ reply' = reply
    BY DEF ConnectionCounts
  <1>2. counts \in [Ids -> 0 .. MaxConns] /\ objects \in [Ids -> 0 .. MaxEngines]
    BY CallTypes DEF Of
  <1>3. \A i \in Serving(call.view) : i \in Ids /\ counts[i] = conns[i]
                                      /\ objects[i] = engines[i].object
    BY DEF Of, Serving
  <1> HIDE DEF counts, objects
  <1>4. /\ call' \in Calls /\ call'.pc = "counted" /\ call'.pinned = call.pinned
        /\ call'.view = call.view /\ call'.steady = call.steady
        /\ call'.counts = counts /\ call'.objects = objects
    BY <1>1, <1>2 DEF Calls
  <1>5. UNCHANGED <<gens, active, engines, prepared, conns>>
    BY StatusRests
  <1>6. \A i \in Draining(call.view) : i \in Serving(call.view) /\ conns[i] <= counts[i]
    <2>1. TAKE i \in Draining(call.view)
    <2>2. i \in Serving(call.view)
      BY DEF Draining, Serving
    <2>3. conns[i] \in Int /\ counts[i] = conns[i]
      BY <1>3, <2>2, CallTypes
    <2> QED BY <2>2, <2>3
  <1>7. Relied'
    BY <1>3, <1>4, <1>5, <1>6 DEF Relied
  <1> QED BY <1>1, <1>4, <1>7

\* A status that gives up.
LEMMA StatusStops ==
    ASSUME EngineInv, call' = NoCall, prepared' = prepared
    PROVE  call' \in Calls /\ Relied'
  <1>1. prepared' \in Nat
    BY CallTypes
  <1> QED BY <1>1, NoCallFields DEF Relied

LEMMA StatusCompares ==
    ASSUME EngineInv, call \in Calls, Relied, After
    PROVE  call' \in Calls /\ Relied' /\ reply' = reply
  <1> DEFINE counts == Of(Draining(View), call.counts, 0)
             steady == call.steady \cap Draining(View)
  <1>1. /\ call.pc = "counted" /\ reply' = reply
        /\ \/ call' = NoCall
           \/ /\ SameView
              /\ call' = [call EXCEPT !.pc = "detailed", !.view = View, !.counts = counts,
                                      !.steady = steady]
    BY DEF After
  <1>2. UNCHANGED <<gens, active, engines, prepared, conns>>
    BY StatusRests
  <1>3. CASE call' = NoCall
    BY <1>1, <1>2, <1>3, StatusStops
  <1>4. CASE /\ SameView
             /\ call' = [call EXCEPT !.pc = "detailed", !.view = View, !.counts = counts,
                                     !.steady = steady]
    <2>1. call.view = View
      BY <1>4 DEF SameView
    <2>2. counts \in [Ids -> 0 .. MaxConns] /\ steady \in SUBSET Ids
      BY CallTypes DEF Of, Calls
    <2>3. \A i \in Draining(View) : i \in Ids /\ counts[i] = call.counts[i]
      BY DEF Of, Draining
    <2>4. steady \subseteq call.steady
      OBVIOUS
    <2> HIDE DEF counts, steady
    <2>5. /\ call' \in Calls /\ call'.pc = "detailed" /\ call'.pinned = call.pinned
          /\ call'.view = call.view /\ call'.steady = steady
          /\ call'.counts = counts /\ call'.objects = call.objects
      BY <1>4, <2>1, <2>2, ViewFacts DEF Calls
    <2>6. /\ \A i \in Ids : call.pinned[i][2] <= prepared
          /\ \A i \in Serving(call.view) \cap Running :
                engines[i].lineage = call.pinned[i] => engines[i].object = call.objects[i]
          /\ \A i \in Draining(call.view) \cap call.steady :
                active # i /\ conns[i] <= call.counts[i]
      BY <1>1 DEF Relied
    <2>7. \A i \in Draining(call.view) \cap steady : active # i /\ conns[i] <= counts[i]
      BY <2>1, <2>3, <2>4, <2>6
    <2>8. Running' = Running
      BY <1>2 DEF Running
    <2>9. Relied'
      BY <1>2, <2>5, <2>6, <2>7, <2>8 DEF Relied
    <2> QED BY <1>1, <2>5, <2>9
  <1> QED BY <1>1, <1>3, <1>4

LEMMA StatusLoads ==
    ASSUME EngineInv, call \in Calls, Relied, ActivityLoads
    PROVE  call' \in Calls /\ Relied' /\ reply' = reply
  <1> DEFINE in == Of(Serving(call.view), [i \in Ids |-> engines[i].in], 0)
             busy == Of(Serving(call.view), [i \in Ids |-> Busy(i)], 0)
             next == [call EXCEPT !.pc = "loading", !.pinned = NoCall.pinned, !.in = in,
                                  !.busy = busy]
  <1>1. /\ call.pc = "detailed" /\ reply' = reply
        /\ \/ call' = NoCall
           \/ SameView /\ LineagesStand /\ call' = next
    BY DEF ActivityLoads
  <1>2. UNCHANGED <<gens, active, engines, prepared, conns>>
    BY StatusRests
  <1>3. CASE call' = NoCall
    BY <1>1, <1>2, <1>3, StatusStops
  <1>4. CASE SameView /\ LineagesStand /\ call' = next
    <2>1. call.view = View
      BY <1>4 DEF SameView
    <2>2. in \in [Ids -> 0 .. MaxPackets] /\ busy \in [Ids -> Nat]
      BY CallTypes, BusyType DEF Of
    <2>3. \A i \in Serving(call.view) : i \in Ids /\ in[i] = engines[i].in /\ busy[i] = Busy(i)
      BY DEF Of, Serving
    <2> HIDE DEF in, busy
    <2>4. /\ call' \in Calls /\ call'.pc = "loading" /\ call'.pinned = NoCall.pinned
          /\ call'.view = call.view /\ call'.steady = call.steady /\ call'.in = in
          /\ call'.busy = busy /\ call'.counts = call.counts /\ call'.objects = call.objects
      BY <1>4, <2>2, NoCallFields DEF Calls
    <2>5. \A i \in Ids : call'.pinned[i][2] <= prepared
      <3>1. \A i \in Ids : call'.pinned[i] = <<0, 0>>
        BY <2>4, NoCallFields
      <3>2. 0 <= prepared
        BY CallTypes
      <3> QED BY <3>1, <3>2
    <2>6. View' = View
      BY <1>2 DEF View
    <2>7. ASSUME NEW i \in Serving(call.view)
          PROVE  /\ engines[i].object = call.objects[i]
                 /\ in[i] <= engines[i].in /\ in[i] <= engines[i].done + busy[i]
      <3>1. i \in Running /\ engines[i].lineage = call.pinned[i]
        BY <1>4, <2>1, ViewFacts DEF LineagesStand
      <3>2. engines[i].object = call.objects[i]
        BY <1>1, <3>1 DEF Relied
      <3>3. /\ engines[i].done + Cardinality(In(i)) = engines[i].in
            /\ engines[i].in \in Int /\ i \in Ids
        BY <3>1, EngineFacts
      <3>4. in[i] = engines[i].in /\ busy[i] = Cardinality(In(i))
        BY <2>3, <3>3, BusyType
      <3> QED BY <3>2, <3>3, <3>4
    <2>8. \A i \in Draining(call.view) \cap call.steady : active # i /\ conns[i] <= call.counts[i]
      BY <1>1 DEF Relied
    <2>9. Relied'
      BY <1>2, <2>1, <2>4, <2>5, <2>6, <2>7, <2>8 DEF Relied
    <2> QED BY <1>1, <2>4, <2>9
  <1> QED BY <1>1, <1>3, <1>4

LEMMA StatusAnswers ==
    ASSUME EngineInv, call \in Calls, Relied, Activity
    PROVE  call' \in Calls /\ Relied' /\ reply' \subseteq Answers /\ Answered'
  <1> DEFINE answer(i) ==
                 [id |-> i, identity |-> call.view.gens[i].art, lineage |-> engines[i].lineage,
                  in |-> call.in[i], busy |-> call.busy[i], done |-> engines[i].done,
                  object |-> engines[i].object, countedOf |-> call.objects[i]]
  <1>1. /\ call.pc = "loading" /\ call' = NoCall
        /\ reply' = {answer(i) : i \in Serving(call.view)}
    BY DEF Activity
  <1>2. UNCHANGED <<engines, epoch, prepared, created>>
    BY StatusRests
  <1>3. call' \in Calls /\ Relied'
    BY <1>1, <1>2, StatusStops
  <1>4. call.view = View /\ View.gens = gens /\ Serving(View) \subseteq Running
    BY <1>1, ViewFacts DEF Relied
  <1>5. ASSUME NEW i \in Serving(call.view)
        PROVE  /\ answer(i) \in Answers
               /\ engines[i].object \in 1 .. created /\ engines[i].lineage[1] <= epoch
               /\ engines[i].object = created - prepared + engines[i].lineage[2]
               /\ engines[i].object = call.objects[i] /\ call.view.gens[i].art \in Artifacts
               /\ call.in[i] <= engines[i].done + call.busy[i]
               /\ \A j \in Running : engines[j].object = engines[i].object =>
                     engines[j].art = call.view.gens[i].art /\ call.in[i] <= engines[j].in
    <2>1. i \in Running /\ i \in Ids
      BY <1>4 DEF Running
    <2>2. /\ engines[i].art = gens[i].art /\ gens[i].art \in Artifacts
          /\ engines[i].lineage \in Lineages /\ engines[i].lineage[1] = epoch
          /\ engines[i].object \in 1 .. created
          /\ engines[i].object = created - prepared + engines[i].lineage[2]
      BY <2>1, EngineFacts
    <2>3. /\ engines[i].object = call.objects[i]
          /\ call.in[i] <= engines[i].in
          /\ call.in[i] <= engines[i].done + call.busy[i]
      BY <1>1 DEF Relied
    <2>4. \A j \in Running : engines[j].object = engines[i].object => j = i
      BY <2>1 DEF EngineInv, Registered
    <2>5. answer(i) \in Answers
      <3>1. /\ call.in[i] \in 0 .. MaxPackets /\ call.busy[i] \in Nat
            /\ call.objects[i] \in 0 .. MaxEngines
        BY <2>1 DEF Calls
      <3>2. /\ engines[i].done \in 0 .. MaxPackets /\ engines[i].object \in 0 .. MaxEngines
        BY <2>1, CallTypes
      <3>3. call.view.gens[i].art \in OrNone(Artifacts)
        BY <1>4, <2>2 DEF OrNone
      <3> QED BY <2>1, <2>2, <3>1, <3>2, <3>3 DEF Answers
    <2>6. engines[i].lineage[1] <= epoch
      BY <2>2, CallTypes
    <2> HIDE DEF answer
    <2> QED BY <1>4, <2>2, <2>3, <2>4, <2>5, <2>6
  <1>6. reply' \subseteq Answers
    BY <1>1, <1>5
  <1>7. ASSUME NEW a \in reply'
        PROVE  /\ a.object \in 1 .. created /\ a.lineage[1] <= epoch
               /\ a.object = created - prepared + a.lineage[2]
               /\ a.object = a.countedOf /\ a.identity \in Artifacts
               /\ a.in <= a.done + a.busy
               /\ \A j \in Running : engines[j].object = a.object =>
                     engines[j].art = a.identity /\ a.in <= engines[j].in
    <2>1. PICK i \in Serving(call.view) : a = answer(i)
      BY <1>1, <1>7
    <2> QED BY <1>5, <2>1
  <1>8. Running' = Running
    BY <1>2 DEF Running
  <1>9. Answered'
    BY <1>2, <1>7, <1>8 DEF Answered
  <1> QED BY <1>3, <1>6, <1>9

\* An answer that stands keeps its meaning.
LEMMA AnswersStand ==
    ASSUME EngineInv, EngineInv', Moves, reply \subseteq Answers, Answered, reply' = reply
    PROVE  Answered'
  <1>1. /\ epoch \in Int /\ epoch' \in Int /\ created \in Int /\ created' \in Int
        /\ prepared \in Int /\ prepared' \in Int
    BY DEF EngineInv, Typed
  <1>2. created' >= created /\ epoch' >= epoch
        /\ (epoch' = epoch => created' - prepared' = created - prepared)
    <2>1. /\ created' >= created
          /\ \/ epoch' = epoch /\ created' - prepared' = created - prepared
             \/ epoch' > epoch
      BY DEF Moves
    <2>2. epoch \in Int /\ epoch' \in Int /\ (epoch' = epoch \/ epoch' > epoch)
      BY <1>1, <2>1
    <2>3. epoch' >= epoch /\ (epoch' > epoch => epoch' # epoch)
      BY <2>2
    <2> QED BY <2>1, <2>2, <2>3
  <1>3. ASSUME NEW a \in reply
        PROVE  /\ a.object \in 1 .. created' /\ a.lineage[1] <= epoch'
               /\ a.lineage[1] = epoch' => a.object = created' - prepared' + a.lineage[2]
               /\ a.object = a.countedOf /\ a.identity \in Artifacts
               /\ a.in <= a.done + a.busy
               /\ \A i \in Running' : engines'[i].object = a.object =>
                     engines'[i].art = a.identity /\ a.in <= engines'[i].in
    <2>1. /\ a.object \in 1 .. created /\ a.lineage[1] <= epoch
          /\ a.lineage[1] = epoch => a.object = created - prepared + a.lineage[2]
          /\ a.object = a.countedOf /\ a.identity \in Artifacts
          /\ a.in <= a.done + a.busy
          /\ \A i \in Running : engines[i].object = a.object =>
                engines[i].art = a.identity /\ a.in <= engines[i].in
      BY DEF Answered
    <2>2. a \in Answers
      OBVIOUS
    <2>3. a.lineage[1] \in Int /\ a.lineage[2] \in Int /\ a.in \in Int
      BY <2>2 DEF Answers, Lineages
    <2>4. /\ a.object \in 1 .. created' /\ a.lineage[1] <= epoch'
          /\ a.lineage[1] = epoch' => a.object = created' - prepared' + a.lineage[2]
      <3>1. a.object \in 1 .. created'
        BY <1>1, <1>2, <2>1
      <3>2. a.lineage[1] <= epoch'
        BY <1>1, <1>2, <2>1, <2>3
      <3>3. a.lineage[1] = epoch' => epoch' = epoch
        BY <1>1, <1>2, <2>1, <2>3
      <3> QED BY <1>2, <2>1, <3>1, <3>2, <3>3
    <2>5. ASSUME NEW i \in Running', engines'[i].object = a.object
          PROVE  engines'[i].art = a.identity /\ a.in <= engines'[i].in
      <3>1. ~ (engines'[i].object > created)
        BY <1>1, <2>1, <2>5
      <3>2. /\ i \in Running
            /\ engines'[i].art = engines[i].art /\ engines'[i].object = engines[i].object
            /\ engines'[i].in >= engines[i].in
        BY <3>1 DEF Moves
      <3>3. engines[i].art = a.identity /\ a.in <= engines[i].in
        BY <2>1, <2>5, <3>2
      <3>4. engines[i].in \in Int /\ engines'[i].in \in Int
        BY <3>2 DEF EngineInv, Typed, Engines, Running
      <3> QED BY <2>3, <3>2, <3>3, <3>4
    <2> QED BY <2>1, <2>4, <2>5
  <1> QED BY <1>3 DEF Answered

LEMMA StatusInvInit == Init => StatusInv
  BY EngineInit, CallInit DEF StatusInv

LEMMA StatusInvNext == StatusInv /\ [Next]_vars => StatusInv'
  <1> SUFFICES ASSUME StatusInv, [Next]_vars PROVE StatusInv'
    OBVIOUS
  <1>1. EngineInv /\ call \in Calls /\ Relied /\ reply \subseteq Answers /\ Answered
    BY DEF StatusInv
  <1>2. EngineInv'
    BY <1>1, EngineNext
  <1>3. Moves
    BY <1>1, EnginesMove
  <1>4. ASSUME call' \in Calls, Relied', reply' = reply PROVE StatusInv'
    BY <1>1, <1>2, <1>3, <1>4, AnswersStand DEF StatusInv
  <1>5. CASE Pin
    <2>1. call' \in Calls /\ Relied' /\ reply' = {}
      BY <1>1, <1>5, StatusPins
    <2>2. reply' \subseteq Answers /\ Answered'
      BY <2>1 DEF Answered
    <2> QED BY <1>2, <2>1, <2>2 DEF StatusInv
  <1>6. CASE Before \/ ConnectionCounts \/ After \/ ActivityLoads
    BY <1>1, <1>4, <1>6, StatusViews, StatusCounts, StatusCompares, StatusLoads
  <1>7. CASE ConnectionCountsFail
    <2>1. call' = NoCall /\ reply' = reply /\ prepared' = prepared
      BY <1>7, StatusRests DEF ConnectionCountsFail
    <2> QED BY <1>1, <1>4, <2>1, StatusStops
  <1>8. CASE Activity
    BY <1>1, <1>2, <1>8, StatusAnswers DEF StatusInv
  <1>9. CASE \/ UNCHANGED vars \/ Deactivate \/ Restart \/ Syn
             \/ \E i \in Ids : \/ \E a \in Artifacts : Prepare(i, a)
                               \/ Activate(i) \/ Drain(i) \/ Collect(i) \/ FlowEnd(i)
                               \/ \E q \in Pumps : ProcessBegins(q, i)
             \/ \E q \in Pumps : ProcessEnds(q)
    BY <1>1, <1>2, <1>3, <1>4, <1>9, CallRests
  <1> QED BY <1>5, <1>6, <1>7, <1>8, <1>9 DEF Next

LEMMA StatusInvHolds == Spec => []StatusInv
  BY StatusInvInit, StatusInvNext, PTL DEF Spec

-----------------------------------------------------------------------------
\* Every reachable state has its type: in particular the registry has an engine
\* for each generation and no other, with its artifact, and no engine has more
\* outcomes than packets (Registry.Prepare, Remove, ProcessGeneration).
THEOREM StatusTypeCorrect == Spec => []TypeOK
  <1>1. StatusInv => TypeOK
    <2> SUFFICES ASSUME StatusInv PROVE TypeOK
      OBVIOUS
    <2>1. /\ call.pc \in {"idle", "pinned", "viewed", "counted", "detailed", "loading"}
          /\ call.counts \in [Ids -> 0 .. MaxConns] /\ call.in \in [Ids -> 0 .. MaxPackets]
          /\ call.steady \subseteq Ids
      BY DEF StatusInv, Calls
    <2> QED BY <2>1 DEF StatusInv, EngineInv, Typed, Hosted, TypeOK
  <1> QED BY <1>1, StatusInvHolds, PTL

\* A status never mixes engines: the activity under an identity is of an engine
\* prepared for it, and of the one whose connections were counted, whatever was
\* collected and prepared while the lock was not held (Status, activityFor).
THEOREM ActivityIsOneEngine == Spec => []ActivityIsItsOwn
  <1>1. StatusInv => ActivityIsItsOwn
    <2> SUFFICES ASSUME StatusInv, NEW a \in reply
                 PROVE  /\ a.object = a.countedOf /\ a.identity # None
                        /\ \A i \in Running : engines[i].object = a.object =>
                              engines[i].art = a.identity
      BY DEF ActivityIsItsOwn
    <2> QED BY StatusAssumption DEF StatusInv, Answered
  <1> QED BY <1>1, StatusInvHolds, PTL

\* A lineage is never given to two engines, so whoever polls sees its counters
\* only grow, over reuse of identifiers and identities and over restarts
\* (Registry.Prepare, GenerationSnapshot).
THEOREM LineagesNameEngines == Spec => []LineagesGrow
  <1>1. StatusInv => LineagesGrow
    <2> SUFFICES ASSUME StatusInv, NEW a \in reply, NEW i \in Running,
                        engines[i].lineage = a.lineage
                 PROVE  engines[i].object = a.object /\ engines[i].in >= a.in
      BY DEF LineagesGrow
    <2>1. /\ engines[i].lineage[1] = epoch /\ engines[i].in \in Int
          /\ engines[i].object = created - prepared + engines[i].lineage[2]
      BY EngineFacts DEF StatusInv
    <2>2. /\ a.lineage[1] = epoch => a.object = created - prepared + a.lineage[2]
          /\ engines[i].object = a.object => a.in <= engines[i].in
      BY DEF StatusInv, Answered
    <2>3. a \in Answers
      BY DEF StatusInv
    <2>4. a.in \in Int
      BY <2>3 DEF Answers
    <2>5. engines[i].object = a.object
      BY <2>1, <2>2
    <2> QED BY <2>1, <2>2, <2>4, <2>5
  <1> QED BY <1>1, StatusInvHolds, PTL

\* The order of the loads loses no outcome, for any number of pumps that count
\* meanwhile (Stats.snapshot, record).
THEOREM NoOutcomeIsMissing == Spec => []PacketsAccountedFor
  <1>1. StatusInv => PacketsAccountedFor
    BY DEF StatusInv, Answered, PacketsAccountedFor
  <1> QED BY <1>1, StatusInvHolds, PTL

\* What a status says remains on a generation that drains is an upper bound when
\* it says so, unless the generation was activated meanwhile (DetailedStatus).
THEOREM DrainCountsAreBounds == Spec => DrainCountsStand
  <1>1. StatusInv /\ [Next]_vars =>
            [reply' # {} /\ reply' # reply =>
                \A d \in Remaining : d.id \in call.steady => conns[d.id] <= d.remaining]_vars
    <2> SUFFICES ASSUME StatusInv, [Next]_vars, reply' # {}, reply' # reply,
                        NEW d \in Remaining, d.id \in call.steady
                 PROVE  conns[d.id] <= d.remaining
      OBVIOUS
    <2>1. Activity
      BY DEF Next, vars, Prepare, Activate, Deactivate, Drain, Collect, Restart, Syn, FlowEnd,
             ProcessBegins, ProcessEnds, Pin, Before, ConnectionCounts, ConnectionCountsFail,
             After, ActivityLoads
    <2>2. PICK i \in Draining(call.view) : d = [id |-> i, remaining |-> call.counts[i]]
      BY DEF Remaining
    <2>3. i \in call.steady /\ d.id = i /\ d.remaining = call.counts[i]
      BY <2>2
    <2>4. conns[i] <= call.counts[i]
      BY <2>1, <2>2, <2>3 DEF StatusInv, Relied, Activity
    <2> QED BY <2>3, <2>4
  <1> QED BY <1>1, StatusInvHolds, PTL DEF Spec, DrainCountsStand
=============================================================================
