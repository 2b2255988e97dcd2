------------------------------ MODULE Flowtrack ------------------------------
(***************************************************************************)
(* Reading and sweeping the conntrack table (internal/flowtrack): the one  *)
(* netlink operation at a time that callers wait for and abandon, the      *)
(* neutral sweep flow by flow, and which ESTABLISHED flows hold a drain    *)
(* open.  Module Lifecycle has the same calls as single steps.             *)
(*                                                                         *)
(* Abstractions.  There is one generation; its program and the boundary's  *)
(* stand for the controller around the sweep.  The controller's own wait   *)
(* (connectionCounts, neutralizeConnections) has the deadline of the call  *)
(* it wraps and is one with it.  A goroutine sends its result and gives    *)
(* the slot back in one step.  Time passes in whole ticks for all          *)
(* ESTABLISHED flows at once; a half-open flow may end at any time.        *)
(***************************************************************************)
EXTENDS Integers

CONSTANTS
    Conns,           \* conntrack tuples to the proxy port
    Readers,         \* callers that count: Drain, GarbageCollect, Status
    Established,     \* nf_conntrack_tcp_timeout_established, in ticks
    MaxRetrans,      \* nf_conntrack_tcp_timeout_max_retrans
    Unacknowledged,  \* nf_conntrack_tcp_timeout_unacknowledged
    IdleAfter,       \* Counter.IdleAfter, 0 when idle flows always count
    Readable         \* the three timeouts can be read

ASSUME FlowtrackAssumption ==
    /\ Established \in Nat \ {0} /\ MaxRetrans \in Nat \ {0}
    /\ Unacknowledged \in Nat \ {0} /\ IdleAfter \in Nat
    /\ MaxRetrans <= Established /\ Unacknowledged <= Established
    /\ Readable \in BOOLEAN
    /\ "sweeper" \notin Readers /\ "none" \notin Readers

VARIABLES
    mark,     \* each tuple's adapter mark bits, or Absent
    est,      \* ESTABLISHED tuples
    armed,    \* the timeout each entry's last packet restarted it at
    silent,   \* ticks since that packet
    program,  \* what the installed table marks a SYN with
    caller,   \* what each caller does next
    expired,  \* callers whose context has ended
    slot,     \* is dumpSlot taken?
    worker,   \* the goroutine at the netlink socket
    late      \* history: entries the sweep marked after its context ended

flowVars == <<mark, est, armed, silent>>
callVars == <<caller, expired>>
vars == <<flowVars, program, callVars, slot, worker, late>>

Callers == Readers \cup {"sweeper"}
Timers == {Established, MaxRetrans, Unacknowledged}

Absent == -2
Unmarked == -1
Neutral == 0
Owned == 1

\* The goroutine at the socket: for whom, what next, the flows it has yet to
\* mark, and whether its socket has been closed.
Workers ==
    [by : Callers \cup {"none"}, pc : {"none", "dump", "check", "update", "ok", "failed"},
     todo : SUBSET Conns, closed : BOOLEAN]
NoWorker == [by |-> "none", pc |-> "none", todo |-> {}, closed |-> FALSE]

TypeOK ==
    /\ mark \in [Conns -> {Absent, Unmarked, Neutral, Owned}]
    /\ est \in [Conns -> BOOLEAN]
    /\ armed \in [Conns -> Timers]
    /\ silent \in [Conns -> 0 .. Established] /\ \A c \in Conns : silent[c] < armed[c]
    /\ program \in {Unmarked, Neutral, Owned}
    /\ caller \in [Callers -> {"idle", "waiting", "in", "ok", "failed"}]
    /\ expired \subseteq Callers
    /\ slot \in BOOLEAN
    /\ worker \in Workers
    /\ late \in Nat

Init ==
    /\ mark = [c \in Conns |-> Absent]
    /\ est = [c \in Conns |-> FALSE]
    /\ armed = [c \in Conns |-> Established]
    /\ silent = [c \in Conns |-> 0]
    /\ program = Unmarked
    /\ caller = [k \in Callers |-> "idle"] /\ expired = {}
    /\ slot = FALSE /\ worker = NoWorker /\ late = 0

-----------------------------------------------------------------------------
(* Connections, and the kernel's timers *)

Syn(c) ==
    /\ mark[c] \in {Absent, Unmarked} /\ ~ est[c]
    /\ mark[c] # program
    /\ mark' = [mark EXCEPT ![c] = program]
    /\ UNCHANGED <<est, armed, silent, program, callVars, slot, worker, late>>

\* A packet restarts the entry's timer: at the established timeout, or at a
\* shorter one while the flow retransmits or has data outstanding.
Packet(c, timer) ==
    /\ mark[c] # Absent
    /\ est' = [est EXCEPT ![c] = TRUE]
    /\ armed' = [armed EXCEPT ![c] = timer]
    /\ silent' = [silent EXCEPT ![c] = 0]
    /\ UNCHANGED <<mark, program, callVars, slot, worker, late>>

\* The entries in gone disappear.
Forget(gone, ages) ==
    /\ mark' = [c \in Conns |-> IF c \in gone THEN Absent ELSE mark[c]]
    /\ est' = [c \in Conns |-> est[c] /\ c \notin gone]
    /\ armed' = [c \in Conns |-> IF c \in gone THEN Established ELSE armed[c]]
    /\ silent' = [c \in Conns |-> IF c \in gone THEN 0 ELSE ages[c]]
    /\ UNCHANGED <<program, callVars, slot, worker, late>>

FlowEnd(c) == mark[c] # Absent /\ Forget({c}, silent)

Tick ==
    LET ages == [c \in Conns |-> IF est[c] THEN silent[c] + 1 ELSE 0]
    IN  /\ \E c \in Conns : est[c]
        /\ Forget({c \in Conns : est[c] /\ ages[c] >= armed[c]}, ages)

-----------------------------------------------------------------------------
(* Which flows hold a drain open *)

\* newLiveness: shortTimer.  (Mutant: the shorter of the two.)
ShortestTimer == IF MaxRetrans >= Unacknowledged THEN Unacknowledged ELSE MaxRetrans

ShortTimer == IF MaxRetrans >= Unacknowledged THEN MaxRetrans ELSE Unacknowledged

\* liveness.live
live(c) ==
    LET remaining == armed[c] - silent[c]
    IN  \/ IdleAfter = 0 \/ ~ Readable
        \/ ~ est[c]
        \/ remaining >= Established \/ remaining <= ShortTimer
        \/ Established - remaining < IdleAfter

-----------------------------------------------------------------------------
(* The dump slot: dump, updateNeutral *)

\* A call of Count or Counts.
Call(k) ==
    /\ k \in Readers
    /\ caller[k] = "idle"
    /\ caller' = [caller EXCEPT ![k] = "waiting"]
    /\ UNCHANGED <<flowVars, program, expired, slot, worker, late>>

\* activateLocked, when nothing is assigned, installs the boundary program and
\* calls Neutralize.
Activate ==
    /\ caller["sweeper"] = "idle"
    /\ program = Unmarked
    /\ caller' = [caller EXCEPT !["sweeper"] = "waiting"]
    /\ program' = Neutral
    /\ UNCHANGED <<flowVars, expired, slot, worker, late>>

\* dumpSlot <- struct{}{}, even when the context has just ended as well.
Acquire(k) ==
    /\ caller[k] = "waiting"
    /\ ~ slot
    /\ slot' = TRUE
    /\ caller' = [caller EXCEPT ![k] = "in"]
    /\ worker' = [by |-> k, pc |-> "dump", todo |-> {}, closed |-> FALSE]
    /\ UNCHANGED <<flowVars, program, expired, late>>

\* The deadline passes, or the client goes away.
Expire(k) ==
    /\ caller[k] \in {"waiting", "in"}
    /\ k \notin expired
    /\ expired' = expired \cup {k}
    /\ UNCHANGED <<flowVars, program, caller, slot, worker, late>>

\* How a caller goes on: a reader has its answer, the sweeper acts on it.
Ends(k, result) == [caller EXCEPT ![k] = IF k \in Readers THEN "idle" ELSE result]

\* <-ctx.Done(): the caller leaves; its goroutine keeps the slot.
\* (Mutants: the caller gives the slot back; a caller waits for its goroutine.)
LeaveWithSlot(k) ==
    /\ caller[k] \in {"waiting", "in"}
    /\ k \in expired
    /\ caller' = Ends(k, "failed")
    /\ expired' = expired \ {k}
    /\ slot' = (slot /\ caller[k] # "in")
    /\ UNCHANGED <<flowVars, program, worker, late>>

LeaveWaiting(k) ==
    /\ caller[k] = "waiting"
    /\ k \in expired
    /\ caller' = Ends(k, "failed")
    /\ expired' = expired \ {k}
    /\ UNCHANGED <<flowVars, program, slot, worker, late>>

Leave(k) ==
    /\ caller[k] \in {"waiting", "in"}
    /\ k \in expired
    /\ caller' = Ends(k, "failed")
    /\ expired' = expired \ {k}
    /\ UNCHANGED <<flowVars, program, slot, worker, late>>

\* activateLocked flips the program, or goes back to the one before when the
\* sweep or the flip fails.  (Mutant: the sweep's error is only logged.)
FlipAnyway ==
    /\ caller["sweeper"] \in {"ok", "failed"}
    /\ program' \in {Unmarked, Owned}
    /\ caller' = [caller EXCEPT !["sweeper"] = "idle"]
    /\ UNCHANGED <<flowVars, expired, slot, worker, late>>

Flip ==
    /\ caller["sweeper"] \in {"ok", "failed"}
    /\ program' = Unmarked \/ (caller["sweeper"] = "ok" /\ program' = Owned)
    /\ caller' = [caller EXCEPT !["sweeper"] = "idle"]
    /\ UNCHANGED <<flowVars, expired, slot, worker, late>>

\* Steering is withdrawn between activations.
Deactivate ==
    /\ caller["sweeper"] = "idle"
    /\ program = Owned
    /\ program' = Unmarked
    /\ UNCHANGED <<flowVars, callVars, slot, worker, late>>

-----------------------------------------------------------------------------
(* The goroutine: dumpNetlink, neutralizeNetlinkTransaction *)

\* Its context has ended: its caller has left, or is about to.
Ended == caller[worker.by] # "in" \/ worker.by \in expired

Worker(w) == worker' = w /\ UNCHANGED <<flowVars, program, callVars, slot>>

\* A reader's dump; the count is taken from it.
Dump ==
    /\ worker.pc = "dump" /\ worker.by \in Readers
    /\ Worker([worker EXCEPT !.pc = "ok"])
    /\ UNCHANGED late

\* A sweep's dump: the flows to mark, unless the context ended first.
\* (Mutant: every flow.)
SweepDumpsAll ==
    /\ worker.pc = "dump" /\ worker.by = "sweeper"
    /\ ~ Ended
    /\ Worker([worker EXCEPT !.pc = "check", !.todo = {c \in Conns : mark[c] # Absent}])
    /\ UNCHANGED late

SweepDumps ==
    /\ worker.pc = "dump" /\ worker.by = "sweeper"
    /\ ~ Ended
    /\ Worker([worker EXCEPT !.pc = "check", !.todo = {c \in Conns : mark[c] = Unmarked}])
    /\ UNCHANGED late

DumpFails ==
    /\ worker.pc = "dump"
    /\ Worker([worker EXCEPT !.pc = "failed"])
    /\ UNCHANGED late

\* context.AfterFunc closes the socket of a sweep whose context has ended.
SocketCloses ==
    /\ worker.by = "sweeper" /\ worker.pc # "none"
    /\ Ended /\ ~ worker.closed
    /\ Worker([worker EXCEPT !.closed = TRUE])
    /\ UNCHANGED late

\* The head of the loop over the flows.  (Mutant: the context is not looked at.)
SweepChecksNothing ==
    /\ worker.pc = "check"
    /\ Worker([worker EXCEPT !.pc = IF worker.todo = {} THEN "ok" ELSE "update"])
    /\ UNCHANGED late

SweepChecks ==
    /\ worker.pc = "check"
    /\ Worker([worker EXCEPT !.pc =
                  IF worker.todo = {} THEN "ok" ELSE IF Ended THEN "failed" ELSE "update"])
    /\ UNCHANGED late

\* Update writes the mark computed from the dump, whatever the entry's mark is now.
SweepUpdates(c) ==
    /\ worker.pc = "update" /\ c \in worker.todo
    /\ ~ worker.closed
    /\ mark[c] # Absent
    /\ mark' = [mark EXCEPT ![c] = Neutral]
    /\ worker' = [worker EXCEPT !.pc = "check", !.todo = @ \ {c}]
    /\ late' = IF Ended THEN late + 1 ELSE late
    /\ UNCHANGED <<est, armed, silent, program, callVars, slot>>

\* Update fails: a closed socket, an entry that is gone, any other error.
\* (Mutant: the error ends the sweep as if it were complete.)
UpdateFailsQuietly ==
    /\ worker.pc = "update"
    /\ Worker([worker EXCEPT !.pc = "ok"])
    /\ UNCHANGED late

UpdateFails ==
    /\ worker.pc = "update"
    /\ Worker([worker EXCEPT !.pc = "failed"])
    /\ UNCHANGED late

\* The goroutine ends: the result goes to the caller, if it still waits, and
\* the slot is given back.
WorkerEnds ==
    /\ worker.pc \in {"ok", "failed"}
    /\ slot' = FALSE
    /\ worker' = NoWorker
    /\ caller' = IF caller[worker.by] = "in"
                 THEN Ends(worker.by, worker.pc) ELSE caller
    /\ expired' = IF caller[worker.by] = "in" THEN expired \ {worker.by} ELSE expired
    /\ late' = 0
    /\ UNCHANGED <<flowVars, program>>

-----------------------------------------------------------------------------
Next ==
    \/ \E c \in Conns : Syn(c) \/ FlowEnd(c) \/ SweepUpdates(c)
    \/ \E c \in Conns, timer \in Timers : Packet(c, timer)
    \/ Tick
    \/ \E k \in Callers : Call(k) \/ Acquire(k) \/ Expire(k) \/ Leave(k)
    \/ Activate \/ Flip \/ Deactivate
    \/ Dump \/ SweepDumps \/ DumpFails \/ SocketCloses
    \/ SweepChecks \/ UpdateFails \/ WorkerEnds

Spec == Init /\ [][Next]_vars

\* Contexts have deadlines and goroutines that can run do.  Nothing is assumed
\* of the kernel: a netlink operation may never return.
LiveSpec ==
    /\ Spec
    /\ \A k \in Callers : WF_vars(Expire(k)) /\ WF_vars(Leave(k))

-----------------------------------------------------------------------------
\* However long the kernel holds an operation and however many callers give
\* up, there is one goroutine at the socket, and it holds the slot (dumpSlot).
OneOperation == worker # NoWorker => slot

\* When a sweep has succeeded, and until the program is flipped, no connection
\* is left without an owner: no retransmitted SYN can join the generation
\* (Neutralize, activateLocked).
BoundaryComplete == caller["sweeper"] = "ok" => \A c \in Conns : mark[c] # Unmarked

\* While the table assigns, every connection has an owner or the neutral mark,
\* and no sweep is at the socket, not even one whose caller left it there: the
\* activation that would flip the program needs the slot that one still holds
\* (activateLocked, updateNeutral).
AssignsAfterSweep ==
    program = Owned => worker.by # "sweeper" /\ \A c \in Conns : mark[c] # Unmarked

\* A sweep marks at most one more connection once its context has ended
\* (neutralizeNetlinkTransaction).
LateSweepMarksOne == late <= 1

\* No sweep takes a connection away from its generation, not even one that goes
\* on after its caller has left and the program has been put back: the next
\* activation cannot assign anything before that sweep has returned the slot.
OwnersStand ==
    [][\A c \in Conns : mark[c] = Owned => mark'[c] \in {Owned, Absent}]_vars

\* A flow that had a packet within IdleAfter holds its drain open, whichever
\* timeout that packet restarted the entry at (liveness.live).
LiveFlowsCount ==
    \A c \in Conns : mark[c] = Owned /\ silent[c] < IdleAfter => live(c)

\* Every call ends, even when the netlink operation it waits for never does.
CallsEnd == \A k \in Callers : caller[k] \in {"waiting", "in"} ~> caller[k] \notin {"waiting", "in"}
=============================================================================
