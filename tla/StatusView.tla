----------------------------- MODULE StatusView -----------------------------
(***************************************************************************)
(* GET /v1/adapter/status: Controller.Status and DetailedStatus            *)
(* (internal/steering/controller.go) over the engine registry and its      *)
(* counters (internal/engine).  A status takes the controller's lock four  *)
(* times around a conntrack pass that runs without it; artifacts are       *)
(* prepared, activated, drained and collected in between, identifiers are  *)
(* reused, and the pumps count packets all the time.                       *)
(*                                                                         *)
(* Abstractions.  Status sees the controller only under the lock, so each  *)
(* lifecycle operation is one step here; module Lifecycle has their        *)
(* steps, failures and the tables they install.  A collection may meet     *)
(* connections, since the count before it skips idle ones.  An engine's    *)
(* counters are the packets in and the sum of the five outcomes; all       *)
(* serving engines' first counters are loaded before all second ones.      *)
(***************************************************************************)
EXTENDS Integers, FiniteSets

CONSTANTS
    Artifacts,    \* immutable artifacts, with their identities
    None,         \* no artifact
    MaxId,        \* the largest generation
    Pumps,        \* the goroutines that process packets
    MaxConns,     \* bound: connections per mark
    MaxPackets,   \* bound: packets per engine
    MaxEngines,   \* bound: engines ever created
    MaxRestarts   \* bound: restarts of the process

ASSUME StatusAssumption ==
    /\ None \notin Artifacts
    /\ {MaxId, MaxConns, MaxPackets, MaxEngines, MaxRestarts} \subseteq Nat
    /\ IsFiniteSet(Pumps)

VARIABLES
    gens,      \* Controller.generations: artifact and phase
    active,    \* Controller.activeNew
    engines,   \* Registry.byID
    epoch,     \* Registry.epoch: differs from process to process
    prepared,  \* Registry.prepared
    created,   \* history: engines ever created, in any process
    conns,     \* conntrack entries per generation mark
    pump,      \* the engine each pump is in, by generation and object
    call,      \* the status call's locals
    reply,     \* Status.Activity of the last answer, until the next call
    restarts   \* restarts so far

registryVars == <<engines, epoch, prepared, created>>
lifecycleVars == <<gens, active, registryVars>>
vars == <<lifecycleVars, conns, pump, call, reply, restarts>>

Ids == 1 .. MaxId
OrNone(S) == S \cup {None}
Generations == [art : OrNone(Artifacts), phase : {"absent", "prepared", "active", "draining", "drained"}]
Absent == [art |-> None, phase |-> "absent"]

\* An engine: its artifact, its lineage, which object it is (history), and its
\* counters Stats.PacketsIn and Unchanged + Dropped + Tampered + Expanded + Errors.
Lineages == (0 .. MaxRestarts) \X (0 .. MaxEngines)
Engines ==
    [art : OrNone(Artifacts), lineage : Lineages, object : 0 .. MaxEngines,
     in : 0 .. MaxPackets, done : 0 .. MaxPackets]
NoEngine == [art |-> None, lineage |-> <<0, 0>>, object |-> 0, in |-> 0, done |-> 0]

Present == {i \in Ids : gens[i] # Absent}
Running == {i \in Ids : engines[i] # NoEngine}
Serving(view) == {i \in Ids : view.gens[i].phase \in {"active", "draining"}}
Draining(view) == {i \in Ids : view.gens[i].phase = "draining"}

\* What the call uses of f: its values on S.
Of(S, f, default) == [i \in Ids |-> IF i \in S THEN f[i] ELSE default]

View == [gens |-> gens, active |-> active]
NoView == [gens |-> [i \in Ids |-> Absent], active |-> 0]
Zero == [i \in Ids |-> 0]

NoCall ==
    [pc |-> "idle", pinned |-> [i \in Ids |-> NoEngine.lineage], view |-> NoView,
     counts |-> Zero, in |-> Zero, busy |-> Zero, objects |-> Zero, steady |-> {}]

TypeOK ==
    /\ gens \in [Ids -> Generations] /\ active \in 0 .. MaxId
    /\ engines \in [Ids -> Engines]
    /\ epoch \in 0 .. MaxRestarts /\ restarts \in 0 .. MaxRestarts
    /\ prepared \in 0 .. MaxEngines /\ created \in 0 .. MaxEngines
    /\ conns \in [Ids -> 0 .. MaxConns]
    /\ pump \in [Pumps -> [id : 0 .. MaxId, object : 0 .. MaxEngines]]
    /\ call.pc \in {"idle", "pinned", "viewed", "counted", "detailed", "loading"}
    /\ call.counts \in [Ids -> 0 .. MaxConns] /\ call.in \in [Ids -> 0 .. MaxPackets]
    /\ call.steady \subseteq Ids
    \* engines are prepared and removed with their generations
    /\ Running = Present /\ \A i \in Ids : engines[i].art = gens[i].art
    /\ \A i \in Ids : active = i <=> gens[i].phase = "active"

Outside == [id |-> 0, object |-> 0]

Init ==
    /\ gens = [i \in Ids |-> Absent] /\ active = 0
    /\ engines = [i \in Ids |-> NoEngine]
    /\ epoch = 0 /\ prepared = 0 /\ created = 0
    /\ conns = Zero
    /\ pump = [q \in Pumps |-> Outside]
    /\ call = NoCall /\ reply = {}
    /\ restarts = 0

-----------------------------------------------------------------------------
(* Lifecycle operations, under the lock *)

\* The status does not hold the lock, which it does while it loads counters.
Unlocked == call.pc # "loading"

\* New, and the engine's place in the registry: Registry.Prepare names its
\* lineage from the epoch and the number of engines prepared.
\* (Mutant: from the epoch alone.)
NewEngineUnnumbered(a, n, object) ==
    [NoEngine EXCEPT !.art = a, !.lineage = <<epoch, 1>>, !.object = object]

NewEngine(a, n, object) ==
    [NoEngine EXCEPT !.art = a, !.lineage = <<epoch, n>>, !.object = object]

\* nextGenerationLocked
Lowest(i) == i \notin Present /\ \A j \in 1 .. i - 1 : j \in Present

Prepare(i, a) ==
    /\ Unlocked
    /\ Lowest(i) /\ \A j \in Ids : gens[j].art # a
    /\ created < MaxEngines
    /\ gens' = [gens EXCEPT ![i] = [art |-> a, phase |-> "prepared"]]
    /\ engines' = [engines EXCEPT ![i] = NewEngine(a, prepared + 1, created + 1)]
    /\ prepared' = prepared + 1 /\ created' = created + 1
    /\ UNCHANGED <<active, epoch, conns, pump, call, reply, restarts>>

\* activateLocked: the generation that was active drains.  call.steady is history:
\* the generations that nobody has activated since a status took its first view.
Activate(i) ==
    /\ Unlocked
    /\ i \in Present /\ active # i
    /\ gens' = [j \in Ids |->
                  IF j = i THEN [gens[j] EXCEPT !.phase = "active"]
                  ELSE IF j = active THEN [gens[j] EXCEPT !.phase = "draining"]
                  ELSE gens[j]]
    /\ active' = i
    /\ call' = [call EXCEPT !.steady = @ \ {i}]
    /\ UNCHANGED <<registryVars, conns, pump, reply, restarts>>

\* deactivateLocked
Deactivate ==
    /\ Unlocked
    /\ active # 0
    /\ gens' = [gens EXCEPT ![active].phase = "draining"]
    /\ active' = 0
    /\ UNCHANGED <<registryVars, conns, pump, call, reply, restarts>>

\* DrainGeneration.  Its count, taken without the mutex, may skip idle
\* connections and be older than the phase it decides.
Drain(i) ==
    /\ Unlocked
    /\ i \in Present /\ active # i
    /\ \E phase \in {"drained", "draining"} : gens' = [gens EXCEPT ![i].phase = phase]
    /\ UNCHANGED <<active, registryVars, conns, pump, call, reply, restarts>>

\* GarbageCollectGeneration and Registry.Remove.  (Mutant: without the latter.)
CollectKeepsEngine(i) ==
    /\ Unlocked
    /\ i \in Present /\ active # i
    /\ gens' = [gens EXCEPT ![i] = Absent]
    /\ UNCHANGED <<active, registryVars, conns, pump, call, reply, restarts>>

Collect(i) ==
    /\ Unlocked
    /\ i \in Present /\ active # i
    /\ gens' = [gens EXCEPT ![i] = Absent]
    /\ engines' = [engines EXCEPT ![i] = NoEngine]
    /\ UNCHANGED <<active, epoch, prepared, created, conns, pump, call, reply, restarts>>

\* The process ends, with the status it was answering, and its successor
\* prepares every retained generation again, in order.
Restart ==
    /\ restarts < MaxRestarts
    /\ created + Cardinality(Present) <= MaxEngines
    /\ restarts' = restarts + 1
    /\ epoch' = restarts + 1
    /\ LET rank(i) == Cardinality({j \in Present : j <= i})
       IN  engines' = [i \in Ids |->
               IF i \in Present
               THEN [NewEngine(gens[i].art, rank(i), created + rank(i))
                        EXCEPT !.lineage[1] = restarts + 1]
               ELSE NoEngine]
    /\ prepared' = Cardinality(Present) /\ created' = created + Cardinality(Present)
    /\ pump' = [q \in Pumps |-> Outside]
    /\ call' = NoCall
    /\ UNCHANGED <<gens, active, conns, reply>>

-----------------------------------------------------------------------------
(* Traffic *)

Syn ==
    /\ active # 0 /\ conns[active] < MaxConns
    /\ conns' = [conns EXCEPT ![active] = @ + 1]
    /\ UNCHANGED <<lifecycleVars, pump, call, reply, restarts>>

FlowEnd(i) ==
    /\ conns[i] > 0
    /\ conns' = [conns EXCEPT ![i] = @ - 1]
    /\ UNCHANGED <<lifecycleVars, pump, call, reply, restarts>>

\* ProcessGeneration: PacketsIn is counted first.
ProcessBegins(q, i) ==
    /\ pump[q] = Outside
    /\ i \in Running /\ conns[i] > 0
    /\ engines[i].in < MaxPackets
    /\ engines' = [engines EXCEPT ![i].in = @ + 1]
    /\ pump' = [pump EXCEPT ![q] = [id |-> i, object |-> engines[i].object]]
    /\ UNCHANGED <<gens, active, epoch, prepared, created, conns, call, reply, restarts>>

\* record, or an error: one outcome, on the engine the packet went to, which
\* the registry may have forgotten.  (Mutant: an error has no outcome.)
ProcessEndsUncounted(q) ==
    /\ pump[q] # Outside
    /\ pump' = [pump EXCEPT ![q] = Outside]
    /\ UNCHANGED <<lifecycleVars, conns, call, reply, restarts>>

ProcessEnds(q) ==
    /\ pump[q] # Outside
    /\ pump' = [pump EXCEPT ![q] = Outside]
    /\ LET i == pump[q].id
       IN  engines' = IF engines[i].object = pump[q].object
                      THEN [engines EXCEPT ![i].done = @ + 1] ELSE engines
    /\ UNCHANGED <<gens, active, epoch, prepared, created, conns, call, reply, restarts>>

-----------------------------------------------------------------------------
(* Status *)

\* lineagesLocked
Pin ==
    /\ call.pc = "idle"
    /\ call' = [NoCall EXCEPT !.pc = "pinned",
                              !.pinned = [i \in Ids |-> engines[i].lineage]]
    /\ reply' = {}
    /\ UNCHANGED <<lifecycleVars, conns, pump, restarts>>

\* DetailedStatus takes its first view.
Before ==
    /\ call.pc = "pinned"
    /\ call' = [call EXCEPT !.pc = "viewed", !.view = View,
                            !.pinned = Of(Serving(View), @, NoEngine.lineage),
                            !.steady = Serving(View)]
    /\ UNCHANGED <<lifecycleVars, conns, pump, reply, restarts>>

\* connectionCounts, without the lock.
ConnectionCounts ==
    /\ call.pc = "viewed"
    /\ call' = [call EXCEPT !.pc = "counted",
                            !.counts = Of(Serving(call.view), conns, 0),
                            !.objects = Of(Serving(call.view), [i \in Ids |-> engines[i].object], 0)]
    /\ UNCHANGED <<lifecycleVars, conns, pump, reply, restarts>>

\* The dump fails or misses its deadline: no status.
ConnectionCountsFail ==
    /\ call.pc = "viewed"
    /\ call' = NoCall
    /\ UNCHANGED <<lifecycleVars, conns, pump, reply, restarts>>

\* sameStatusGenerationView.  (Mutant: the artifacts alone.)
SameArtifacts == \A i \in Ids : call.view.gens[i].art = gens[i].art

SameView == call.view = View

\* DetailedStatus takes its second view and compares.
After ==
    /\ call.pc = "counted"
    /\ call' = IF SameView THEN [call EXCEPT !.pc = "detailed", !.view = View,
                                              !.counts = Of(Draining(View), @, 0),
                                              !.steady = @ \cap Draining(View)]
               ELSE NoCall
    /\ UNCHANGED <<lifecycleVars, conns, pump, reply, restarts>>

\* activityFor refuses a view or a lineage that moved.  (Mutant: only a view.)
LineagesIgnored == TRUE

LineagesStand == \A i \in Serving(call.view) : engines[i].lineage = call.pinned[i]

\* The packets that pumps are processing with the engine of a generation.
Busy(i) == Cardinality({q \in Pumps : pump[q] = [id |-> i, object |-> engines[i].object]})

\* activityFor, under the lock: Stats.snapshot loads PacketsIn first...
ActivityLoads ==
    /\ call.pc = "detailed"
    /\ call' = IF SameView /\ LineagesStand
               THEN [call EXCEPT !.pc = "loading",
                                 !.pinned = NoCall.pinned,
                                 !.in = Of(Serving(call.view), [i \in Ids |-> engines[i].in], 0),
                                 !.busy = Of(Serving(call.view), [i \in Ids |-> Busy(i)], 0)]
               ELSE NoCall
    /\ UNCHANGED <<lifecycleVars, conns, pump, reply, restarts>>

\* Status.Draining: the connections that remain on the generations that drain.
Remaining ==
    {[id |-> i, remaining |-> call.counts[i]] : i \in Draining(call.view)}

\* ... and then the outcomes.  The status is answered with its activity and with
\* Remaining.  object and countedOf (history) are the engines whose counters and
\* whose connections it reports, busy the packets in hand at the first load.
Activity ==
    /\ call.pc = "loading"
    /\ reply' =
           {[id |-> i, identity |-> call.view.gens[i].art, lineage |-> engines[i].lineage,
             in |-> call.in[i], busy |-> call.busy[i], done |-> engines[i].done,
             object |-> engines[i].object, countedOf |-> call.objects[i]] :
                i \in Serving(call.view)}
    /\ call' = NoCall
    /\ UNCHANGED <<lifecycleVars, conns, pump, restarts>>

Next ==
    \/ \E i \in Ids : \/ \E a \in Artifacts : Prepare(i, a)
                      \/ Activate(i) \/ Drain(i) \/ Collect(i) \/ FlowEnd(i)
                      \/ \E q \in Pumps : ProcessBegins(q, i)
    \/ Deactivate \/ Restart \/ Syn
    \/ \E q \in Pumps : ProcessEnds(q)
    \/ Pin \/ Before \/ ConnectionCounts \/ ConnectionCountsFail
    \/ After \/ ActivityLoads \/ Activity

Spec == Init /\ [][Next]_vars

-----------------------------------------------------------------------------
\* The activity a status reports under an identity is of an engine prepared for
\* it, and of the very engine whose connections it counted, although the pass
\* that counted them ran without the lock (Status, activityFor).
ActivityIsItsOwn ==
    \A a \in reply :
        /\ a.object = a.countedOf
        /\ a.identity # None
        /\ \A i \in Running : engines[i].object = a.object => engines[i].art = a.identity

\* Whoever polls sees counters of one lineage only grow, over collections that
\* reuse an identifier or an identity and over restarts (GenerationSnapshot).
LineagesGrow ==
    \A a \in reply, i \in Running :
        engines[i].lineage = a.lineage =>
            engines[i].object = a.object /\ engines[i].in >= a.in

\* A packet that a status has counted in and that has no outcome in it is one
\* that a pump had in hand when the counters were first loaded: the order of the
\* loads loses no outcome (Stats.snapshot, record).
PacketsAccountedFor == \A a \in reply : a.in <= a.done + a.busy

\* A generation that a status reports as draining has no more connections left
\* than the status says, unless it was activated while the status was being made
\* (a return to the same phases is not noticed: DetailedStatus compares views).
DrainCountsStand ==
    [][reply' # {} /\ reply' # reply =>
         \A d \in Remaining : d.id \in call.steady => conns[d.id] <= d.remaining]_vars
=============================================================================
