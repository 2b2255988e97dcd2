# Verification of geneva-server

geneva-server applies Geneva strategies to the server side of TCP connections.
A controller installs one nftables table that marks each new connection with
the *generation* (a small integer) of the strategy that will treat it, and
queues its packets to NFQUEUE; user space runs the generation's engine on each
packet.  A mark never changes while its connection lasts, so every connection
must keep the strategy it started with while generations are prepared,
activated, rolled back, drained and collected, and while nft, ethtool,
conntrack, the state file and the process itself fail.

These modules model that system, TLC checks them on small instances, and TLAPS
proves forty theorems for every instance.  Paths are relative to the
repository; `PROJECT.json` maps each definition to the lines it models.

## The system

| Part | State it keeps | Operations | Here |
|---|---|---|---|
| Steering controller, `internal/steering/controller.go` | generations and their phases, active and previous one, `unsafe`, offload ownership (persisted); fault latch, repair guard, fault epoch, remediation gate, reserved identifiers, `steeringInstalled` (not persisted) | Prepare, ActivateForNewConnections, DeactivateForNewConnections, Drain, Rollback, GarbageCollect, IntegrityFailure, Start, Close; Status, Verify (read only) | `Controller`, `Lifecycle`, `StatusView` |
| Kernel steering table, `internal/nftables/manager.go` | one table: queue rules per generation, assignment of unowned SYNs, classification counters | atomic replacement, readback | `Steering`, `Controller`, `Scope`, `CensorCounters` |
| Connection ownership, `internal/flowtrack`, `internal/generation` | conntrack marks; the dump slot | Count, Counts, Neutralize | `Steering`, `Lifecycle`, `Flowtrack` |
| Engine registry, `internal/engine/registry.go` | engine per generation with its lineage, active generation | Prepare, Activate, Remove, GenerationSnapshot | `Controller`, `Lifecycle`, `StatusView` |
| NIC offloads, `internal/netdev/offload.go` | ethtool features | Capture, Disable, Restore | `Lifecycle` |
| Process, `cmd/geneva-server/run_linux.go` | context, fatal cause, exit status | boot, Run, teardown | `Lifecycle`, `QueueRuntime` |
| NFQUEUE pump, `internal/nfqueue` | deferred accept, queues' descriptors, contexts | read, accept, verdict, inject; Run, interrupt, Close | `VerdictQueue`, `QueueRuntime` |
| Control plane, `internal/control`, `internal/adapter` | none | HTTP requests to the controller | `Lifecycle`, `StatusView` (the requests) |
| Steering scope, `internal/steering/scope.go` | none (a function of the strategy) | Of, widen | `Scope`, `CensorCounters` |
| Packet engine, `internal/engine/engine.go` | counters | Process, Snapshot | `StatusView`; its outcomes in `VerdictQueue` |
| Censor counters, `internal/censor`, `internal/nftables/counters.go` | totals, last reading, single-flight flag; the observer's counts | refresh, Count, Snapshot, Observe | `CensorCounters` |
| Canary pool, telemetry, command line, test harnesses | see `PROJECT.json` | | not modelled |

How they interact:

* The control plane *calls* the controller.  `Controller.mu` serializes the
  calls, except that Drain, GarbageCollect and a Rollback to an artifact that is
  not retained drop it around a conntrack dump.  Only the operations of the
  adapter interface are reachable over HTTP.
* The controller *calls* out to nft, ethtool, conntrack and the file system with
  the mutex held.  Each call can fail; a failing nft call may still have
  committed; a rename of the state file may or may not survive a failed
  directory sync.
* The pump *calls back* `IntegrityFailure` without waiting for the mutex; it sets
  atomics and leaves the rest to a goroutine, the reconciler, that nobody joins.
* The kernel *shares state* with everyone: it marks SYNs by whatever table is
  installed, at any instant, and marks and table outlive the process.
* Metric exports, health probes and status requests *read* engines' counters, the
  kernel's counters and conntrack while all of the above goes on, mostly without
  the controller's mutex.
* Config.Fatal and the control listener *report* through buffered channels, and
  cancel the context the pumps run under.
* systemd restarts the process on failure (`deploy/geneva-server.service`).

What is hard here, and what makes each part correct:

* **Controller.**  Every operation is several external calls, any of which fails,
  with compensations that fail too; integrity signals and packets come between
  any two; a crash leaves kernel, NIC and file as they are.  Correct: nobody is
  queued to the wrong engine or to none; the file can always rebuild what the
  kernel uses; the kernel assigns what the controller believes; a latched fault
  ends in nothing assigned; an identifier is reused only when no mark carries it.
* **Steering table and marks.**  The order of two transactions and a sweep decides
  whether a half-open connection can join a strategy halfway.
* **Offloads.**  Ownership must be durable before a feature changes, and features
  come back only when nothing is queued.
* **Pump.**  A batch verdict covers every earlier packet, so the order of deferred
  accepts and single verdicts matters; every message can fail.
* **Runtime.**  Two readers, an interrupt that looks like an idle queue, three ways
  to stop and one exit status.

* **Flowtrack.**  Netlink calls take no context: a caller leaves at its deadline and
  its goroutine stays.  Correct: one goroutine at a time, whose late marks cannot
  touch a connection that has an owner; a boundary that is reported complete is.
* **Counters.**  The kernel's restart whenever the table is replaced, and they are
  read without a lock.  Correct: the exported series never overcounts.
* **Status.**  Four lock holds, a dump and running counters become one answer.
  Correct: every figure belongs to the identity it is reported under.
* **Scope.**  What the kernel does not queue no strategy can act on.  Correct: it
  queues what some trigger fires on, and no more where it can tell.

The list of hazards in `PROJECT.json` names each of these at its line.

## Modules

| Module | Models | Composes |
|---|---|---|
| `Steering` | the nftables table and the conntrack entries; the environment's packets | |
| `Controller` | the controller's state, registry, state file and NIC; the operators shared by the operations; outcomes of external calls | extends `Steering` |
| `Lifecycle` | every operation, integrity failures, start, shutdown, crash; the properties | extends `Controller` |
| `MCLifecycle` | the symmetry set of connections for TLC | extends `Lifecycle` |
| `Connections` | abstract: what connections are promised | refined by `Lifecycle` (`Contract`) |
| `Scope` | from triggers to selectors, and what selectors queue | |
| `CensorCounters` | classification chain, observer, `KernelSource` | extends `Scope` |
| `Meter` | abstract: what an exported counter promises | refined by `CensorCounters` (`ExportedMeter`) |
| `MCCensorCounters` | strategies and packets for TLC | extends `CensorCounters` |
| `Flowtrack` | the dump slot, the sweep flow by flow, idle flows | |
| `StatusView` | Status over controller, registry, engines and conntrack | |
| `MCStatusView` | the symmetry set of artifacts for TLC | extends `StatusView` |
| `VerdictQueue` | one queue and its pump | |
| `QueueRuntime` | Run, its two pumps, the process around them | |
| `TypeCorrectness` | that every operator's result has its type; `TypeCorrect` | extends `Lifecycle`, `TLAPS` |
| `DurabilityProofs` | `StateFileSuffices`, `SteeringIsHonest`, `StateFileLoads`, `RulesHaveEngines` | extends `TypeCorrectness` |
| `LifecycleProofs` | `TableAndRegistryAgree`, `UnsafeIsUnassigned`, `BoundaryIsNeutral`; of the marks `MarksNameTheirStrategy`, `EveryMarkIsAccountedFor`, `CollectsAtZeroFlows`, `SerialMarksNameTheirStrategy`, `SerialMarksAreAccountedFor`; of the contract `LifecycleKeepsContract`, `DrainsAtZeroFlows`, `SerialLifecycleKeepsContract`; of the NIC `OffloadsStayDown`, `SerialOffloadsStayDown` | extends `DurabilityProofs` |
| `VerdictQueueProofs` | `VerdictTypeCorrect`, `DecisionsAreKept`, `DoubledOnlyWhenRefusedTwice`, `NothingIsLeftWaiting` | extends `VerdictQueue`, `TLAPS` |
| `QueueRuntimeProofs` | `RuntimeTypeCorrect`, `QueuesCloseLast`, `CleanExitsAreRequested` | extends `QueueRuntime`, `TLAPS` |
| `CensorProofs` | `CensorTypeCorrect`, `SourceImplementsMeter`, `ClassifierWithinChain`, `ScopesAreExact` | extends `CensorCounters`, `TLAPS` |
| `FlowtrackProofs` | `OneOperationAtATime`, `BoundaryIsComplete`, `AssignmentFollowsSweeps`, `LateSweepsStop`, `RecentFlowsCount`, `OwnersAreKept` | extends `Flowtrack`, `TLAPS` |
| `StatusViewProofs` | `StatusTypeCorrect`, `ActivityIsOneEngine`, `LineagesNameEngines`, `NoOutcomeIsMissing`, `DrainCountsAreBounds` | extends `StatusView`, `TLAPS` |

### Lifecycle and its two layers

*State.*  `rules` is the installed table: `scope` maps a generation to the
artifact its queue rules were rendered from, `active` and `neutral` say how an
unowned SYN is marked.  `mark` is the adapter bits of each conntrack tuple, where
`Unmarked` (an entry without an owner) stands for a connection that is still half
open and whose SYN can be retransmitted; `born` is a history variable, the
artifact in force when the mark was set.  `mem` is the structure `persistLocked`
writes, `disk` the file.  An absent generation has artifact `None`.  The remaining
variables carry the names of the controller's fields, shortened.

*Steps.*  An operation runs as one step per call that leaves the process.  `pc`
is the step the holder of the mutex takes next and `op` its locals, which include
the values the code saves to restore them.  Everything between two calls happens
in the step that ends with the next one.  Between two steps packets arrive, a
signal is raised, the process may crash.  A request that drops the mutex lives in
`pend[c]` meanwhile.

| Code | Actions |
|---|---|
| `Prepare`, `establishRemediationGateLocked` | `Prepare`, `PrepareGateFails`, `PrepareInterrupted`, `PreparePersists`, `PreparePersistFails` |
| `ActivateForNewConnections`, `activateLocked` | `ActivateForNewConnections`, `ActivatePersists`, offload steps, `StageInstalls`, `SweepSucceeds`, `FlipInstalls`, `ActivateDone`; `ActivatePersistFails`, `TransactionFails`, `SweepFails` and the compensation steps |
| `ensureOffloadsDown`, `restoreOffloads` | `Offloads*`, `Claim*`, `Disable*`, `Unclaim*`; `Restore*` |
| `Rollback` | `Rollback` (artifact retained), `RollbackBegin`, `CountSucceeds`, `RollbackCountFails`, `RollbackFinish`, `PreparePersists`, `RollbackActivate` |
| `deactivateLocked` | `DeactivateForNewConnections`, `Deactivate*` |
| `Drain`, `DrainGeneration` | `DrainBegin`, `CountBegin`, `CountSucceeds`, `CountFails`, `DrainFinish`, `DrainPersist*` |
| `GarbageCollect`, `GarbageCollectGeneration` | `GcList`, `GcBegin`, `CountBegin`, `CountSucceeds`, `CountFails`, `GcFinish`, `GcInstalls`, `GcInstallFails`, `DrainPersist*` |
| `IntegrityFailure`, its goroutine, `integrityFailureLocked` | `IntegrityFailure`, `ReconcileStart`, `ReconcileBegin`, `ReconcileInstalls`, `ReconcileInstallFails`, `ReconcilePersist*`, `ReconcileEnd`; `IntegrityFailureLocked` |
| `Start`, `loadLocked`, `restoreActiveAfterRestartLocked` | `Boot`, `Start*`, offload steps |
| `Close`, teardown, crash | `Shutdown`, `CloseRemoves`, `CloseFails`, `Restore*`, `Exit`, `Crash` |

*Abstractions.*  An artifact stands for identity, metadata, DNA and scope, so the
code's comparisons of them are equality; a generation number keeps its bound
`MaxId` because running out of identifiers matters.  A conntrack dump is one
atomic read; a sweep that fails may have marked any subset of the unowned entries.
A state file, an interface and a conntrack counter are configured and nft is in
use.  The failure text is dropped.  After `Shutdown` only the reconciler is still
around: HTTP handlers that the listener abandoned are not modelled.

### VerdictQueue

Packets are numbered in the order the kernel queued them; what `handle` sees in a
packet is a choice among its outcomes (accept, drop, replace, with extra packets
to inject when outbound).  `pending` is `pendingAccept`.  One action per message
sent and one per way it fails: `flush` (`Flush`, `FlushBefore`, `FlushFails`), the
individual verdict (`VerdictSent`, `DropFails`, `ReplaceFails*`), the raw socket
(`Inject`, `Fallback*`).  A batch verdict settles every packet queued no later
than the one it names, by serial-number comparison as the kernel does.  Packets
that never reach user space (fail-open, `ENOBUFS`) and the statistics are not
modelled.

### QueueRuntime

`main` is the program counter of `runServer` and `Run`, `pump[q]` of each pump;
`errs`, the WaitGroup, the two contexts, the read deadlines, the descriptors and
the two reporting channels are variables.  It begins when `Start` has returned.

### Connections, the contract of the lifecycle

`Connections` has three variables: whether packets are steered at all, each
connection's owner and the strategy its packets are given to.  A connection gets
its owner with its first SYN or never (`Open`, `Exclude`), keeps it until it ends,
and loses its service only when steering is withdrawn for everybody (`Withdraw`).
`Contract` in `Lifecycle` maps `rules`, `mark` and `born` to them, and
`KeepsContract` says that every step of the controller, of a failure and of a
restart is one of these or a stutter.

### Scope and CensorCounters

`Scope` keeps the names of `scope.go`: `flagMatchOf`, `canonicalFlags`,
`selectorOf`, `Of`, `Idle`, `widen`.  A byte of flags is the set of its bits, so a
masked comparison is an intersection.  `Queued` is what the rules rendered by
`generationQueueRules` do with a packet, `Fires` (external) what the strategy
library's triggers do; `ScopeExact` compares the two on *every* packet.

`CensorCounters` has the kernel's side (`count`, restarted by `Program`), the
observer in user space (`observed`, of queued packets only, any of which a full
queue may let pass), and `KernelSource` with its fields' names.  `refresh` is
three steps of a caller: `Ask` under the lock, `Answer` or `AnswerFails` without
it, `Complete` under it again; packets arrive and tables are replaced in between.
`counted` is a history variable: what the chain has counted in all tables.

### Flowtrack

`caller` is where each caller of `dump` or `updateNeutral` stands, `worker` the
goroutine at the netlink socket with the flows it has yet to mark, `slot` is
`dumpSlot`.  The sweep is one step per check of the context and one per `Update`;
`SocketCloses` is `context.AfterFunc`.  Around it stand the controller's steps
that matter to marks: the boundary program, the flip or the return after a
failure, deactivation.  `armed` and `silent` are a conntrack entry's timer, from
which `live` computes as the code does.  `Lifecycle` has all this as one step; the
two meet in `BoundaryComplete` and `OwnersStand`, which are what `Lifecycle`
assumes of `SweepSucceeds` and of a failed sweep.

### StatusView

Status sees the controller under its mutex only, so an operation of the lifecycle
is one step here.  `call` is what a status has collected: `Pin` (lineages), `Before`,
`ConnectionCounts` (no lock), `After` (compare the views), `ActivityLoads` and
`Activity` (one lock hold, in which pumps go on counting).  Engines have an
`object` (history: which Go object they are), so that a reuse of the identifier
or of the identity is told apart.  `ActivityIsItsOwn` and `DrainCountsStand` speak
of the answer.

## Runs

Each was sized so that the hazards named for its properties happen inside the
bounds, and each property is broken by a mutant under the run's own bounds.  Where
a hazard does not happen there `PROJECT.json` says so at the hazard: the interleaving
of a collection's count (`lifecycle_serial` has one request at a time;
`lifecycle_gc_race` shows it), a late commit under `NeutralBoundary` and
`AssignmentAgrees` (those runs have clean failures; with late commits the first fails,
Observations, and the second is proved), a signal under `UnsafeAssignsNothing`
(`lifecycle_signal_window`), a second identifier for one artifact under
`DiskLoadable` (proved), a reserved identifier between two free ones (proved), and a
second signal under `SignalStopsAssignment`, which then fails (Observations).

`--drain-idle-timeout` is on by default (5m, `deploy/README.md:223`).
`lifecycle_serial` has no idle timeout, so what it says of connections that keep
their strategy is about a deployment that sets the flag to 0; for the default one
there are `lifecycle_idle_reuse`, which ends in a counterexample, the runs with idle
connections (`lifecycle_hostile`, `flowtrack`), and the theorems without the
hypothesis `~ IdleDrain`.

| Run | Bounds | Distinct states | Question |
|---|---|---|---|
| `lifecycle_serial` | 2 artifacts, 2 identifiers, 2 connections (symmetric), 1 failing call, 1 crash or shutdown, serial requests, clean nft failures | 1,165,216 | do two strategies ever mix, and does the lifecycle keep the contract? `TypeOK`, `Affinity`, `EveryMarkAccountedFor`, `NeutralBoundary`, `OffloadsDownWhileSteering`, `EngineCoverage`, `AssignmentAgrees`, `KeepsContract` |
| `lifecycle_hostile` | 2 artifacts (1 inert), 2 identifiers, a budget of 1 generation, overlapping requests, failing nft calls may commit, idle connections, 2 failing calls, 1 crash | 2,959,986 | can the file always rebuild what the kernel uses, and will the loader take it? `DurableCoverage`, `DiskLoadable`, `UnsafeAssignsNothing`, `SteeringHonest` |
| `lifecycle_live` | 1 artifact, 2 failing calls, 1 crash, 1 signal, `LiveSpec` | 490,244 | after a signal and failures anywhere, do table, registry and controller agree, does the signal end assignment, does every operation end? `AssignmentAgrees`, `SignalStopsAssignment`, `OperationsEnd` |
| `verdict_queue` | 4 packets, up to 2 extra replacements each, 3 failures, both directions | 391,506 | does a batch swallow a verdict? when is a replaced packet dropped, or doubled? `TypeOK`, `DecisionsStand`, `NothingLeftWaiting`, `ReplacedOrOriginal` |
| `queue_runtime` | 3 failures | 10,938 | does the process end, in order, with the right status? `TypeOK`, `ReadersBeforeClose`, `CleanExitOnRequest`, `ProcessEnds` |
| `censor_counters` | 3 strategies (none; repeated and subsumed triggers in both directions; unexpressible), 6 packets (SYN, SYN-ACK, RST-ACK, FIN with a payload, a long and a short payload), 3 arrivals, 2 tables, 1 failing read, 2 callers, `LiveSpec` | 1,054,358 | is a packet ever counted twice, do the counts catch up, do scopes lose or add packets? `TypeOK`, `ScopeExact`, `ObserverWithinChain`, `NeverOvercounts`, `CatchesUp` |
| `flowtrack` | 2 connections, a drain and a sweeper, timeouts 4, 1 and 2, idle after 2, `LiveSpec` | 298,317 | what may an abandoned sweep still do? `OneOperation`, `BoundaryComplete`, `AssignsAfterSweep`, `LateSweepMarksOne`, `LiveFlowsCount`, `OwnersStand`, `CallsEnd` |
| `status_view` | 2 artifacts (symmetric), 2 identifiers, 1 pump, 1 connection per mark, 1 packet per engine, 3 engines, 1 restart | 3,567,449 | does a status mix two engines' figures? `TypeOK`, `ActivityIsItsOwn`, `LineagesGrow`, `PacketsAccountedFor`, `DrainCountsStand` |

Why these bounds.  The controller relates at most two generations at a time (old
and new, or target and other), so two artifacts over two identifiers give every
relation of active, draining and candidate; with one of the two reserved the
identifiers are exhausted.  In `lifecycle_hostile` a budget below the number of
identifiers lets two requests meet at the limit.  Connections do not interact: one gives every property that quantifies
over them, the second gives a dump or a sweep that sees one and not the other.  Two
failing calls are a failure and the failure of its compensation, after which the
code latches.  `MaxSignals` counts the signals of one process, not the faults the
controller records itself.  One crash gives crash, restart, and a start that finds any state a
first process leaves.  Four packets give a deferred accept, a verdict after it,
another accept, and a second read.  A pump has one failure in its life, so three
failures are both pumps' and a reporter's.  Two tables are one replacement, before
which three packets give a reading, a packet it missed and one after the restart;
a second replacement adds nothing to what differencing can confuse.  Two
connections in `flowtrack` give a sweep that has marked one and not the other;
the timeouts keep the order the code's remark relies on and leave a remaining
time strictly between the short and the idle ones.  Three engines are the two a
status can confuse (a reuse of the identifier, of the identity) and another; the
counters of one engine matter only as zero, counted, and finished.

Deadlock is checked in every run but the two queue runs, where a cancelled pump
and an exited process really stop.

### Fairness

`LiveSpec` assumes weak fairness of the lock holder's steps, because every
external call has a deadline or is a file operation; strong fairness of requests
and of the reconciler that wait for `Controller.mu`, because a `sync.Mutex` in
starvation mode hands itself to its oldest waiter; weak fairness of goroutines
that are runnable, and of `Boot`, because systemd restarts a failed process; and
that Config.Fatal makes main shut down (strong, since it waits for the mutex).
Nothing is assumed of the kernel's packets, of requests, or of signals.
`QueueRuntime` assumes weak fairness of main, of context propagation, of
reporters, and of each pump's steps other than a successful read: no packet need
ever come.  `CensorCounters` assumes that somebody keeps asking, that a read ends
(its context has two seconds) and that time passes.  `Flowtrack` assumes only that
contexts end and their callers notice; a netlink operation may never return.

### Where the code and its comments disagree

Four runs end in a counterexample.  Each states what the repository says; the
finding in `PROJECT.json` quotes the line.

| Run | What happens |
|---|---|
| `lifecycle_idle_reuse` | With `--drain-idle-timeout` a generation whose only connection is idle is collected, and its identifier goes to another artifact while the connection still carries the mark. |
| `lifecycle_gc_race` | While a collection counts without the mutex, another client activates the generation (a connection is marked) and deactivates it; the collection's checks then pass. |
| `lifecycle_signal_window` | A Rollback between the two statements of `IntegrityFailure` clears the latch; the reconciler then sets `unsafe` with the latch clear, and an ordinary activation succeeds. |
| `verdict_wrap` | When packet identifiers wrap inside one read, "the highest identifier" is the last before the wrap, and the accepts after it are never sent. |

`lifecycle_serial` excludes what the first two need (an idle timeout, overlap),
ambiguous nft failures, and a second failure after a second restart (Observations);
`lifecycle_hostile` excludes signals.  Their properties say what holds *without*
those.  The first two are why the theorems about marks and the contract have the
proviso `CollectsUnused`, or the hypotheses `Serial` and `~ IdleDrain`; the last
two are why `UnsafeIsUnassigned` and `NothingIsLeftWaiting` have a hypothesis.

### Observations

What the models show and no run of its own states:

* *A compensated deactivation.*  With `CommitOnError`, `NeutralBoundary` fails: a
  deactivation that committed but was reported as failed is answered by assigning
  again (`controller.go:1024`), without a sweep of the connections opened in
  between.  README.md:143-146 says that no half-open connection crosses an
  activation.
* *The late reconciler.*  Nobody waits for the reconciler's goroutine
  (`controller.go:1261`).  It may take the mutex after `Close` has read back the
  absence of steering and install the draining generations' rules again
  (`ReconcileBegin` needs only the free mutex), just before the queues are closed.
* *A repair without an audit.*  Two failures and two restarts break `Affinity`
  with serial requests and no idle timeout (TLC finds it within 4.6 million states).  A
  corrupt state file is quarantined while a connection carries mark 1; the audit
  reserves 1, and an artifact is prepared under 2.  At the next start the audit
  fails, so nothing is reserved and the fault is latched.  `Rollback` to the
  retained artifact clears the latch (`controller.go:710`) without the dump that
  `establishRemediationGateLocked` and a `Rollback` to an absent artifact make, and the
  next ordinary `Prepare` takes 1: the old connection goes to another strategy.
  `controller.go:175-177` says that such identifiers "cannot be reused until a later
  authoritative full dump proves the ID has no flows".  With a startup audit that
  never fails, `Affinity`, `EveryMarkAccountedFor`, `NeutralBoundary` and
  `OffloadsDownWhileSteering` hold at the same bounds (8,667,509 states).
* *A collection after Config.Fatal.*  One signal and three failures break `Affinity`
  and `EveryMarkAccountedFor` with serial requests.  A `Rollback` in the window of
  `lifecycle_signal_window` clears the latch; the reconciler then fails both of its
  transactions, so the fault is fatal, memory assigns nothing and the table still
  assigns a generation.  Until the process has ended requests are served:
  `Drain` and `GarbageCollect` find the generation unassigned in memory and without
  connections, and collect it while the table goes on marking connections for it.
* *Offloads under a prepared generation.*  `OffloadsDownWhileSteering` can fail only
  through a Drain that finds connections of a generation the table has no rules for:
  it turns one that is only prepared, or drained already, into a draining one; the
  next program installs its rules, and unlike an activation nothing calls
  `ensureOffloadsDown`.  An identifier prepared again while a connection still carries
  it leads there (as above, or with overlap).  So does, with serial requests, a late
  commit (two failures), and so does a drain after Config.Fatal (one signal): both
  leave connections marked for a generation that memory no longer serves.
* *A Drain between two artifacts.*  `Drain` looks the identity up, drops the mutex
  and drains by number (`controller.go:1121`): when the number is collected and
  prepared again in between, it sets the phase of, and answers for, another
  artifact.
* *Status and a return to the same phases.*  `sameStatusGenerationView` compares
  two views; a generation activated and put back to draining between them is not
  noticed, and its count may be too low.  `DrainCountsStand` makes that exception.
* *The observer and the chain* differ on short payloads (`manager.go:168-178` says
  so) and on an inbound SYN-ACK, which the chain takes for what its other flags and
  its length say and the observer for a connection attempt; "a listening port never
  receives" one (`manager.go:193`), but any host can send it.
  `ObserverWithinChain` therefore adds `data` and `ack_only`, and allows as many
  attempts more as SYN-ACKs arrived.
* *Two refused verdicts.*  When the kernel refuses a replacement and the replacement
  goes out through the raw socket instead, the original must be dropped.  A drop
  that cannot be sent is only logged (`runtime.go:425-429`): the original stays in
  the queue and the next batch of accepts lets it out behind its replacement.
  `ReplacedOrOriginal` says that it takes these two refusals.
* *A second signal while the reconciler leaves.*  The reconciler's goroutine gives the
  mutex back before it clears `integrityReconciling` (deferred calls run in reverse
  order, `controller.go:1262-1264`).  A signal in between fails the exchange at
  `controller.go:1258`: the fault is latched, but no reconciler runs for it.  When an
  activation was accepted since the mutex was released, which takes the window of
  `lifecycle_signal_window` for the first signal, its assignment then stays, and
  `SignalStopsAssignment` fails (TLC finds it in `lifecycle_live` with `MaxSignals =
  2`).
* *An entry that ends under the sweep.*  The `Update` of a connection that has just
  gone fails the whole sweep (`counter_linux.go:303`), and with it the activation,
  which can be retried.
* *The registry's aggregate* (`registry.go:175`) sums the engines that are left, so
  it shrinks when a generation is collected; `KernelSource` was written to avoid
  this for its series (`kernel.go:33-37`).
* *Health and the mutex.*  `CensorCounts` takes the controller's mutex before its
  two-second context is looked at, so that a read may wait for a whole operation.

## Proofs

All of them are of the form `Spec => ...` and hold for every value of the
constants that satisfies the named assumptions below: any number of artifacts,
connections, clients, packets, pumps, faults, restarts. Where a theorem needs
more, it says so: a hypothesis on a switch (`Serial`, `~ IdleDrain`, `~
CommitOnError`, `MaxSignals = 0`), or a proviso `Spec /\ [][P]_vars => ...`, which
restricts the behaviours to those in which no step does one particular thing. The
paragraph on the theorem says what its hypotheses and provisos exclude and why.
`~ IdleDrain` excludes the default deployment, whose `--drain-idle-timeout` is 5m.
Each inductive invariant was checked by TLC on small instances before it was
proved.

* `TypeCorrect` (`TypeCorrectness`): `Spec => []TypeOK`.  `TypeOK` is inductive as
  it stands.  It is not only bookkeeping: it
  holds because the allocation of identifiers stays inside `1 .. MaxId`
  (`NextGenerationType` rests on `LeastExists`, the least element of a nonempty
  set of identifiers, proved from its finiteness), because every compensation
  restores a well-formed state (`RestoredType`, `CompensatedType`), and because
  what a restart loads was well formed when it was written (`DiskType`).  One
  lemma per operator, then one per action.
* `SteeringIsHonest` (`DurabilityProofs`): `Spec => []SteeringHonest`.
  `SteeringHonest` is inductive on its own: a step installs a table and records
  what it steers (`HonestInstalls`), fails and clears the flag (`HonestFails`),
  ends the process (`HonestGone`), or leaves table and flag alone (`HonestKept`).

* `StateFileSuffices` (`DurabilityProofs`): `Spec => []DurableCoverage`.  The
  invariant says that the file names the artifact of every generation the table
  has rules for; it is not inductive, since a transaction renders its rules from
  memory and a compensation from a copy, and neither is the file.  `DurableInv`
  relates the four:
  - `MemoryRecorded`: the file records every retained generation, but the one
    Prepare has not persisted yet (`Fresh`), which has no rules;
  - `TableKnown`: the table has rules of generations in memory only, except in a
    collection (memory has forgotten the generation, the table not yet) and in a
    process that has not yet removed its predecessor's table;
  - `SavedRecorded`: the copy a failed activation or deactivation returns to has
    memory's artifacts; a collection's copy is wholly recorded and has the one
    artifact more, whose rules a failure leaves in place;
  - `StepOfOperation`: which operation each step belongs to, so that the two
    facts above are available where a compensation uses them; a process between
    two lives has an empty memory.

  From the first two follows `Settled`: at every other `pc`, table and file both
  agree with memory.  It is what an action needs on entry (`SettledBefore`) and
  mostly what it has to give back (`SettledAfter`, `SettledTable`,
  `SettledFile`): a transaction renders from memory (`TableScope`), so no clean
  or ambiguous outcome leaves rules the file does not know.  One lemma per
  action or group of actions, then `DurableNext`.  TLC checked `DurableInv`
  under the bounds of `lifecycle_hostile` and under two more (overlap, signals,
  ambiguous failures; about 2.9 million states each) before the proof.
* `StateFileLoads` (`DurabilityProofs`): `Spec => []DiskLoadable`.  A file is a
  copy of memory, memory is at times a copy of an operation's saved state or of the
  file, and a request was computed on a memory that may have changed since.
  `LoadInv` therefore says it of all of them: memory, `op.saved` and the file are
  `Sound` (the loader would take them, and an inert artifact is not assigned); a
  pending request names an artifact or an identifier (`Asked`); and the generation
  Prepare forgets when its first write fails is never the assigned one.
* `RulesHaveEngines` (`DurabilityProofs`): `Spec => []EngineCoverage`.  Every retained
  generation has its engine, and `DurableInv` says which rules are not memory's: in
  a collection those of `op.saved`, whose engines are then still there.  Where an
  operation rebuilds the registry, from memory or from a copy, `EngineInv` has to
  know that the result has them all; so it also says that an assigned table has
  the assignment's rules and that an activation's copy knows the phase its
  assignment had.
* `TableAndRegistryAgree` (`LifecycleProofs`): `Spec => []AssignmentAgrees`.  The
  property speaks of states at rest only.  `Agreement` says of the steps between
  what each operation knows: at which steps the three already or still agree
  (`Resting`, `AtRest`), what table and registry still have elsewhere (`InStep`),
  and what has been assigned in memory before the transaction (`Assigning`).  It is
  void once the process has met a fatal fault, for such a process only has to end.
* `UnsafeIsUnassigned` (`LifecycleProofs`): `MaxSignals = 0` implies `Spec =>
  []UnsafeAssignsNothing`.  `Latching` says that memory is marked unsafe only
  with the fault latched, and with nothing assigned but where a failed operation is
  about to be reconciled; and that a repair clears the mark before it assigns.
  With a signal it is false (`lifecycle_signal_window`), because
  `IntegrityFailure` latches and its goroutine withdraws the assignment later.
* `BoundaryIsNeutral` (`LifecycleProofs`): `~ CommitOnError` implies `Spec =>
  []NeutralBoundary`, with signals, overlap, failures and restarts.  `BoundaryInv`
  says that whenever table and memory disagree in such a way that an operation may
  yet assign, the neutral boundary is installed, and after the sweep that no
  connection is unowned (`Owned`): while the table assigns nothing, no compensation
  brings an assignment back.  That is what a late commit breaks (Observations).
* *The marks* (`LifecycleProofs`): `MarksNameTheirStrategy` (`Affinity`) and
  `EveryMarkIsAccountedFor` hold for overlapping requests, signals, idle
  connections, late commits and any number of failures and restarts, under two
  provisos.  `CollectsUnused`: a generation is collected only when the table does
  not assign it and no connection carries it, which is what the code intends and
  `lifecycle_gc_race` and `lifecycle_idle_reuse` show it does not always do.
  `AuditComplete`: a startup audit fails only when there is no orphan to miss ("A
  repair without an audit").  `Affinity` is about memory and table at rest; the
  invariant, `MarkInv`, has to follow the mark through every place a strategy may
  come back from:
  - `Named`: table, memory and file each name the strategy a connection's mark was
    set under (`Fits`), or have no artifact for it;
  - `Collecting`: the copy a failed collection returns to differs from memory in the
    one generation that no connection carries;
  - `Preparing`: nor does any carry the generation that Prepare may still forget;
  - `Accounted` and `Unasked`: once a startup audit is over, each mark is of a
    generation in memory or reserved (`Covers`), and is in the count that a Rollback
    has taken without the mutex, so that no identifier in use is allocated.

  TLC checked `MarkInv`, with the provisos built into the actions, with overlap and
  late commits under one and under two failures (4.7 and 8.1 million states).
* `CollectsAtZeroFlows` (`LifecycleProofs`): `Serial` and `~ IdleDrain` imply
  `Spec => [][CollectsUnusedUnlessFatal]_vars`, that is, the first proviso is then a
  fact, but between Config.Fatal and the end of the process.  The count is taken
  without the mutex, so `SerialInv` is about what happens meanwhile: no connection
  is idle (`NeverIdle`), no other request is under way (`Lone`), only the reconciler or
  Close take the mutex (`Standing`), and the table does not assign the generation,
  so that it gets no connection after the count (`Unneeded`).  With it follow
  `SerialMarksNameTheirStrategy` and `SerialMarksAreAccountedFor`, whose proviso
  `FatalCollectsNothing` excludes "A collection after Config.Fatal".
* `LifecycleKeepsContract` (`LifecycleProofs`): `~ CommitOnError` implies that
  `Spec`, under the two provisos and `DrainsUnused` (a drain ends with a
  generation that nothing assigns and no connection carries), implements
  `Connections`: the initial states map to an initial state and every step to
  `Open`, `End`, `Exclude`, `Withdraw`, `Serve` or a stutter. Steps of the kernel
  map one to one (`ContractKernel`), the sweep excludes (`ContractSweep`); the
  work is in the steps that install a table (`ContractTable`), which must take the
  rules from no connection that has them, or from all. A table is rendered from
  memory, from the file after a restart or from a copy after a failure, so
  `PhaseInv` says of all three that a generation they do not serve is vacant
  (`AllVacated`), that what is or may again be assigned is served by all of them
  (`AllServe`), and that no inert artifact has rules (`Rendered`). A late commit
  breaks `AllVacated`: memory takes back an assignment that the table has already
  made, and the next table has no rules for the connections it got. TLC checked
  `PhaseInv` under five sets of bounds, up to 5.7 million states.
* `DrainsAtZeroFlows`, `SerialLifecycleKeepsContract` (`LifecycleProofs`): the same
  argument about counts makes `DrainsUnused` a fact of serial requests without an
  idle timeout, but after Config.Fatal (`FatalDrainsNothing`).
* `OffloadsStayDown` (`LifecycleProofs`): `OffloadsDownWhileSteering` under overlap,
  signals, late commits, failures and restarts, with the one proviso `DrainsServed`:
  a drain that still finds connections finds them of a generation the table has
  rules for ("Offloads under a prepared generation").  The property is about the
  table; offloads are lowered for what memory will serve, and raised by what a
  compensation goes back to.  `NicInv` says, unless the table is on its way out
  (`Ending`) or the process is: that offloads are down from the moment an activation
  has lowered them (`LoweredPcs`), that between operations memory serves nothing
  they are not down for (`Lowered`), that the copy of a failed activation which is to
  raise them serves nothing, and that the table steers nothing else unless a call
  has failed whose consequence is to remove it (`Doubt`).  TLC checked it, with
  late commits and two failures and with an idle timeout and a signal (0.8 and 1.2
  million states).
* `SerialOffloadsStayDown` (`LifecycleProofs`): serial requests without an idle
  timeout satisfy `DrainsServed` under the provisos of
  `SerialLifecycleKeepsContract`: `PhaseInv` says that a generation which is not
  served has no connections, `DrainInv` carries this through a drain's count.
* `VerdictTypeCorrect`, `DecisionsAreKept`, `DoubledOnlyWhenRefusedTwice`
  (`VerdictQueueProofs`), whether or not packet identifiers wrap, and
  `NothingIsLeftWaiting`, where they do not (`FirstId + MaxPackets < IdModulus`;
  `verdict_wrap` is the other case).  `VerdictInv` says of the packets the pump is
  done with that the kernel did what was decided, will with the batch, or was never
  told (`Decided`), of the others that nothing has happened to them (`Untouched`),
  and of the one at hand what has been injected for it (`OnTheWire`).
  A batch is harmless because it names a packet already handled, and every earlier
  one that still waits was accepted: `SerialOrder` shows that serial number
  arithmetic orders the packets as they came, over the wrap as well.  `Deferred`,
  that the batch reaches every packet that waits for it, is what wrapping breaks.
* `RuntimeTypeCorrect` and `QueuesCloseLast` (`QueueRuntimeProofs`):
  `Spec => []TypeOK` and `Spec => []ReadersBeforeClose`, from `PumpInv`: the
  WaitGroup counts the pumps that have not returned, so that Run returns only
  when none is left, and the descriptors are closed later than that.  The bounds
  on the WaitGroup in `TypeOK` themselves need `PumpInv`.
* `CleanExitsAreRequested` (`QueueRuntimeProofs`): `Spec =>
  []CleanExitOnRequest`, from `CauseInv`: the context is cancelled exactly when
  somebody did it, a reporter that cancels has left its error in its channel
  first, and until Run gives up a pump ends with a cancellation only when the
  process's own context was cancelled.

* `CensorTypeCorrect`, `SourceImplementsMeter` (`CensorProofs`).  The first
  includes single flight: `reading` holds exactly while one caller is past its
  first lock hold.  The second is the refinement `Spec => ExportedMeter!Spec`.  Its
  invariant, `Books`, says of every event that the total, plus what a reading taken
  now would add, is within what was counted; and while a reading is in flight, that
  the total, plus what its answer adds to the last reading, plus what the chain's
  counter adds to that answer, still is.  It needs single flight, without which two
  readings would be differenced against the same last one.
* `ClassifierWithinChain` (`CensorProofs`): `Spec => []ObserverWithinChain`, inductive
  with the types, from `ClassifiersAgree`: the two classifiers differ on no packet
  but a short payload and a SYN-ACK.
* `ScopesAreExact` (`CensorProofs`): for any flags, letters and strategies.  The
  step that is not propositional is that every match has a broader *minimal* one
  left by `canonicalFlags`: subsumption is a strict order on a finite set, of
  which the proof picks the match with the smallest mask.
* Six theorems of `FlowtrackProofs`, from one invariant: `Slots` (whose the
  goroutine is, and that it holds the slot), `Boundaries` (the boundary's program is
  installed exactly during an activation), `Unswept` (what a sweep still has to
  mark covers every unowned connection, since the boundary's program makes no new
  ones), `Unassigned` (while a sweep holds a list, abandoned or not, no program
  assigns anything and none can start to, for want of the slot), `Late` (an ended
  context lets at most the update in hand through).  `OwnersAreKept` is an action
  property: what a sweep overwrites was never owned.
* Five theorems of `StatusViewProofs`, from `StatusInv`; an answer says nothing of
  how its numbers came about, so none of the properties is inductive.
  `Registered`: an engine's lineage is the process and its number in it, and its
  object that number after all earlier processes' engines, so that equal lineages
  are one object (after a restart by `Ranks`: the successor numbers the retained
  generations one by one).  `Balanced`: packets in are outcomes and packets in
  pumps' hands, counted with the cardinality of the set of pumps.  `Relied`: what a
  call may still count on while artifacts come and go: no engine prepared since the call
  pinned has a pinned lineage, so while that stands the connections counted
  without the lock are that engine's; a generation that drained in the view and
  has not been activated gets no connections; while counters are loaded nothing is
  prepared or collected.  `Answered`: what an answer means stays true of the
  engines that come later.  `Moves` is the one fact about a step the last two need.
  `DrainCountsAreBounds` is an action property.

Assumptions: `SteeringAssumption` and `LifecycleAssumption` for the lifecycle
(`MaxId` is a positive natural, `None` is no artifact, the artifact classes are
sets of artifacts, the bounds are naturals, the switches Booleans),
`RuntimeAssumption` for the queue runtime (the bound on failures is a natural),
`ScopeAssumption`, `StrategiesAssumption` and `CensorAssumption` (flags are a finite
set of letters; strategies are made of triggers; a long
packet has a payload), `FlowtrackAssumption` (timeouts are positive and the
established one is the longest), `VerdictAssumption` (the packets of a run are fewer
than half the identifiers, as serial-number comparison needs), `StatusAssumption`
(the pumps are finitely many).  TLC evaluates them in every run of these modules.

Only model-checked are the liveness properties (`SignalStopsAssignment`,
`OperationsEnd`, `ProcessEnds`, `CatchesUp`, `CallsEnd`): liveness under fairness and
`ENABLED` are beyond the prover.  Every invariant, every action property and both
refinements of the passing runs are stated by a theorem.

No module uses a recursive operator, so each can be proved about later.

## Not modelled

* The `*Deployment`, `ActivateNew`, `DeactivateNew` and `RollbackGeneration`
  variants of the controller: no HTTP handler calls them, and they share
  `activateLocked` and `deactivateLocked`.
* Verify and Descriptor: they compare and change nothing.
* Netlink, nft and ethtool encodings; the bits of a mark that belong to others.
* Fragments and undecodable packets in the censor counts; packet parsing and the
  execution of strategies (the external geneva library).
* Telemetry and the canary pool: output, and a capped set under one lock.  Flags and
  harnesses.
* Hazards without a property, each with its reason: a Drain whose number was
  collected and reused between its two lock holds; a crash between quarantine and
  the first write, which loses offload ownership; a Drain while latched, after
  which the remediation gate's readback cannot match; cancellation inside a read,
  whose unhandled packets the kernel releases only when the queue is unbound.

## Plan

Done: 1. `Steering`, `Controller`, `Lifecycle` and their runs; 2. type correctness,
`SteeringHonest` and `DurableCoverage`, proved; 3. `VerdictQueue`, `QueueRuntime`;
4. the safety of `QueueRuntime`, proved; 5. `Connections` as the contract of the
lifecycle; 6. `Scope`, `CensorCounters`, `Flowtrack`, `StatusView`; 7. the meter,
the scopes and all safety properties of `Flowtrack`, proved; 8. the state file, the
engines, the assignment and the boundary of `Lifecycle`, proved; 9. all safety
properties of `VerdictQueue`, `CensorCounters` and `StatusView`, proved; 10. the
marks, the contract and the offloads of `Lifecycle`, proved.

Next, in this order:

1. **Remediation always reachable**: a liveness property of the gate, which a Drain
   while latched breaks.
2. **Ownership over a restart**: a property that relates the NIC's features to the
   ownership record when a corrupt state file has been quarantined.
3. **The answer of a Drain**: which artifact it speaks of when its number was
   collected and prepared again between its two lock holds.

A run is kept for each question; when a question is settled or another run covers
it, its run makes way for the next one.
