--------------------------- MODULE CensorCounters ---------------------------
(***************************************************************************)
(* The counts of inbound packets: the classification chain of the steering *)
(* table (internal/nftables), the source that accumulates its counters     *)
(* (internal/censor/kernel.go), and the classifier in user space that      *)
(* replaces it where the chain is turned off (internal/censor/observer.go). *)
(*                                                                         *)
(* The counters live in the table, so they restart whenever it is          *)
(* replaced; the source reads them without its lock, and any number of     *)
(* metric exports and health probes ask it at once.                        *)
(*                                                                         *)
(* Abstractions.  A packet is its flags, whether it has a payload and      *)
(* whether it is longer than censorDataMinLength.  Fragments and           *)
(* undecodable packets, which the chain cannot count, are left out, as are *)
(* the diagnostic counts of reads.  Both classifiers run here, so that     *)
(* they can be compared; a box has one of them.  Every packet belongs to a *)
(* connection of the installed generation.                                 *)
(***************************************************************************)
EXTENDS Scope, Integers

CONSTANTS
    Strategies,   \* the strategies that may be installed
    Packets,      \* the packets that may arrive on the proxy port
    Observing,    \* ObserveInbound on an evaluation box
    Callers,      \* goroutines that ask the source for counts
    MaxArrivals,  \* bound: packets that arrive
    MaxPrograms,  \* bound: replacements of the table
    MaxFailures   \* bound: reads that fail

ASSUME StrategiesAssumption ==
    Strategies \subseteq [Outbound : SUBSET Trigger, Inbound : SUBSET Trigger]

ASSUME CensorAssumption ==
    /\ Observing \in BOOLEAN
    /\ MaxArrivals \in Nat /\ MaxPrograms \in Nat /\ MaxFailures \in Nat
    \* headers alone are no longer than censorDataMinLength (manager.go)
    /\ \A p \in Packets : p.long => p.payload

VARIABLES
    strategy,  \* the strategy whose table is installed
    table,     \* does the table exist?
    count,     \* the table's named counters
    observed,  \* Observer.counts
    total,     \* KernelSource.total
    lastRaw,   \* KernelSource.lastRaw
    reading,   \* KernelSource.reading
    fresh,     \* lastRead is younger than the ttl
    call,      \* what each caller's refresh does next
    raw,       \* what its read returned
    counted,   \* history: packets the chain ever counted
    synAcks,   \* history: how many of them answer a SYN
    arrivals, programs, failures  \* how many there have been

kernelVars == <<strategy, table, count>>
sourceVars == <<total, lastRaw, reading, fresh, call, raw>>
bounds == <<arrivals, programs, failures>>
histories == <<counted, synAcks>>
vars == <<kernelVars, observed, sourceVars, histories, bounds>>

\* censor.KernelEvents, which name the table's counters.
Events == {"rst", "syn", "fin", "data", "ack_only"}
Zero == [e \in Events |-> 0]
Counts == [Events -> Nat]

Scoped(s) == widen(Of(s), Observing)

TypeOK ==
    /\ strategy \in Strategies /\ table \in BOOLEAN
    /\ count \in Counts /\ observed \in Counts /\ counted \in Counts
    /\ total \in Counts /\ lastRaw \in Counts
    /\ synAcks \in Nat
    /\ reading \in BOOLEAN /\ fresh \in BOOLEAN
    /\ call \in [Callers -> {"idle", "reading", "counts", "missing", "failed"}]
    /\ raw \in [Callers -> Counts]
    /\ reading <=> \E c \in Callers : call[c] # "idle"
    /\ \A c, d \in Callers : call[c] # "idle" /\ call[d] # "idle" => c = d
    /\ arrivals \in 0 .. MaxArrivals
    /\ programs \in 0 .. MaxPrograms
    /\ failures \in 0 .. MaxFailures

Init ==
    /\ strategy \in Strategies /\ table = FALSE
    /\ count = Zero /\ observed = Zero
    /\ counted = Zero /\ synAcks = 0
    /\ total = Zero /\ lastRaw = Zero
    /\ reading = FALSE /\ fresh = FALSE
    /\ call = [c \in Callers |-> "idle"]
    /\ raw = [c \in Callers |-> Zero]
    /\ arrivals = 0 /\ programs = 0 /\ failures = 0

-----------------------------------------------------------------------------
\* The chain censor_in: the rules in order, each of which returns.  (Mutant:
\* without the one for RST.)
KernelEventNoReset(p) ==
    CASE "S" \in p.flags /\ "A" \notin p.flags -> "syn"
      [] ~ ("S" \in p.flags /\ "A" \notin p.flags) /\ "F" \in p.flags -> "fin"
      [] {"S", "F"} \cap p.flags = {} /\ p.long -> "data"
      [] OTHER -> "ack_only"

KernelEvent(p) ==
    CASE "R" \in p.flags -> "rst"
      [] "R" \notin p.flags /\ "S" \in p.flags /\ "A" \notin p.flags -> "syn"
      [] {"R", "S"} \cap p.flags = {} /\ "F" \in p.flags -> "fin"
      [] {"R", "S", "F"} \cap p.flags = {} /\ p.long -> "data"
      [] OTHER -> "ack_only"

\* classify, of a packet whose headers can be read.
ObserverEvent(p) ==
    CASE "R" \in p.flags -> "rst"
      [] "R" \notin p.flags /\ "S" \in p.flags -> "syn"
      [] {"R", "S"} \cap p.flags = {} /\ "F" \in p.flags -> "fin"
      [] {"R", "S", "F"} \cap p.flags = {} /\ p.payload -> "data"
      [] OTHER -> "ack_only"

\* The chain takes an inbound SYN-ACK for what its other flags and its length
\* say, classify for a SYN: "a listening port never receives" one (manager.go).
SynAck(p) == {"S", "A"} \subseteq p.flags /\ "R" \notin p.flags

Bump(counts, e) == [counts EXCEPT ![e] = @ + 1]

\* A packet arrives: it is counted first, and then queued when the generation's
\* selector matches; a queue that is full lets it pass without user space.
Arrive(p) ==
    /\ table
    /\ arrivals < MaxArrivals
    /\ arrivals' = arrivals + 1
    /\ count' = Bump(count, KernelEvent(p))
    /\ counted' = Bump(counted, KernelEvent(p))
    /\ synAcks' = IF SynAck(p) THEN synAcks + 1 ELSE synAcks
    /\ \/ Queued(Scoped(strategy).Inbound, p) /\ observed' = Bump(observed, ObserverEvent(p))
       \/ UNCHANGED observed
    /\ UNCHANGED <<strategy, table, sourceVars, programs, failures>>

\* A strategy is installed: the table is replaced, its counters with it, or
\* removed when there is nothing to steer.
Program(s) ==
    /\ programs < MaxPrograms
    /\ programs' = programs + 1
    /\ strategy' = s
    /\ table' = ~ Idle(Scoped(s))
    /\ count' = Zero
    /\ UNCHANGED <<observed, sourceVars, histories, arrivals, failures>>

-----------------------------------------------------------------------------
\* refresh marks a read in flight.  A call that finds one, or counts younger
\* than the ttl, changes nothing.  (Mutant: reads may overlap.)
AskAnyway(c) ==
    /\ call[c] = "idle"
    /\ ~ fresh
    /\ reading' = TRUE
    /\ call' = [call EXCEPT ![c] = "reading"]
    /\ UNCHANGED <<kernelVars, observed, total, lastRaw, fresh, raw, histories, bounds>>

Ask(c) ==
    /\ call[c] = "idle"
    /\ ~ reading
    /\ ~ fresh
    /\ reading' = TRUE
    /\ call' = [call EXCEPT ![c] = "reading"]
    /\ UNCHANGED <<kernelVars, observed, total, lastRaw, fresh, raw, histories, bounds>>

\* CensorCounts and ReadCounters: the counters, or none when there is no table.
Answer(c) ==
    /\ call[c] = "reading"
    /\ call' = [call EXCEPT ![c] = IF table THEN "counts" ELSE "missing"]
    /\ raw' = [raw EXCEPT ![c] = count]
    /\ UNCHANGED <<kernelVars, observed, total, lastRaw, reading, fresh, histories, bounds>>

\* The read fails, or does not return within its two seconds.
AnswerFails(c) ==
    /\ call[c] = "reading"
    /\ failures < MaxFailures
    /\ failures' = failures + 1
    /\ call' = [call EXCEPT ![c] = "failed"]
    /\ UNCHANGED <<kernelVars, observed, total, lastRaw, reading, fresh, raw, histories,
                   arrivals, programs>>

\* What a reading adds: all of it when the counter went backwards.
\* (Mutant: the difference, always.)
AddedSigned(last, v) == v - last

Added(last, v) == IF v >= last THEN v - last ELSE v

\* refresh takes its lock again.  (Mutant: a reading that went
\* backwards is discarded.)
CompleteForward(c) ==
    /\ call[c] \in {"counts", "missing", "failed"}
    /\ call' = [call EXCEPT ![c] = "idle"]
    /\ reading' = FALSE
    /\ fresh' = TRUE
    /\ IF call[c] = "counts" /\ \A e \in Events : raw[c][e] >= lastRaw[e]
       THEN /\ total' = [e \in Events |-> total[e] + Added(lastRaw[e], raw[c][e])]
            /\ lastRaw' = raw[c]
       ELSE UNCHANGED <<total, lastRaw>>
    /\ raw' = [raw EXCEPT ![c] = Zero]
    /\ UNCHANGED <<kernelVars, observed, histories, bounds>>

Complete(c) ==
    /\ call[c] \in {"counts", "missing", "failed"}
    /\ call' = [call EXCEPT ![c] = "idle"]
    /\ reading' = FALSE
    /\ fresh' = TRUE
    /\ IF call[c] = "counts"
       THEN /\ total' = [e \in Events |-> total[e] + Added(lastRaw[e], raw[c][e])]
            /\ lastRaw' = raw[c]
       ELSE UNCHANGED <<total, lastRaw>>
    /\ raw' = [raw EXCEPT ![c] = Zero]
    /\ UNCHANGED <<kernelVars, observed, histories, bounds>>

\* The ttl runs out.
Expire ==
    /\ fresh
    /\ fresh' = FALSE
    /\ UNCHANGED <<kernelVars, observed, total, lastRaw, reading, call, raw, histories, bounds>>

Next ==
    \/ \E p \in Packets : Arrive(p)
    \/ \E s \in Strategies : Program(s)
    \/ \E c \in Callers : Ask(c) \/ Answer(c) \/ AnswerFails(c) \/ Complete(c)
    \/ Expire

Spec == Init /\ [][Next]_vars

\* Exports and health probes keep coming; a read ends, by its own deadline at
\* the latest; time passes.
Fairness ==
    /\ WF_vars(\E c \in Callers : Ask(c))
    /\ \A c \in Callers : WF_vars(Answer(c) \/ AnswerFails(c)) /\ WF_vars(Complete(c))
    /\ WF_vars(Expire)

LiveSpec == Spec /\ Fairness

-----------------------------------------------------------------------------
\* What a selector owes the triggers it was made from.
Exact(sel, triggers) ==
    LET canFire(p) == \E t \in triggers : Fires(t, p)
    IN  /\ \A p \in Packet : canFire(p) => Queued(sel, p)
        /\ sel.Any \/ \A p \in Packet : Queued(sel, p) => canFire(p)
        /\ \A m, n \in sel.Flags : m # n =>
               \E p \in Packet : Matches(m, p.flags) /\ ~ Matches(n, p.flags)

ExactStrategies ==
    {s \in Strategies : \A d \in {"Outbound", "Inbound"} : Exact(Of(s)[d], s[d])}

\* A packet some trigger can act on is queued; when every trigger can be
\* expressed no other packet is; and no rule repeats what a broader one does
\* (Of, canonicalFlags).  Holds for both directions of the installed strategy.
ScopeExact == strategy \in ExactStrategies

\* Whatever is queued, each kind of packet the classifier in user space has
\* seen the chain has counted at least as often, except that the chain takes a
\* short payload for a bare acknowledgement and does not count a SYN-ACK as a
\* connection attempt (censorRules, classify).
ObserverWithinChain ==
    /\ \A e \in {"rst", "fin", "ack_only"} : observed[e] <= counted[e]
    /\ observed["syn"] <= counted["syn"] + synAcks
    /\ observed["data"] + observed["ack_only"] <= counted["data"] + counted["ack_only"]

\* The exported totals never go backwards and never report a packet twice,
\* whatever tables come and go between and during the reads (refresh).
ExportedMeter == INSTANCE Meter WITH
    Names <- Events, arrived <- counted, reported <- total
NeverOvercounts == ExportedMeter!Spec

\* Reads that fail, tables that go and callers that race never leave the source
\* stuck: in the end the latest table's counters have been read, and if there
\* was only ever one table every packet has been reported (refresh).
CatchesUp ==
    <>[](table => /\ lastRaw = count
                  /\ programs = 1 => total = counted)
=============================================================================
