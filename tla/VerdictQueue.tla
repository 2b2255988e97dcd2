---------------------------- MODULE VerdictQueue ----------------------------
(***************************************************************************)
(* One NFQUEUE and the goroutine that pumps it (internal/nfqueue): packets *)
(* read in batches, a fate chosen for each (Runtime.handle), and verdicts  *)
(* that go back one by one or, for runs of accepts, as one batch message.  *)
(*                                                                         *)
(* Abstractions.  Packets are numbered in the order the kernel queued      *)
(* them; what handle sees in one (mark, truncation, the engine's answer)   *)
(* is a choice among its outcomes.  The kernel is modelled by the messages *)
(* of this code: a verdict settles one packet, a batch accept every packet *)
(* queued no later than the one it names.  Packets the kernel accepts      *)
(* without queueing them are not modelled.                                 *)
(***************************************************************************)
EXTENDS Integers, FiniteSets

CONSTANTS
    IdModulus,   \* packet identifiers are unsigned: 2^32 of them
    FirstId,     \* the identifier before the first modelled packet's
    MaxPackets,  \* bound: packets
    MaxExtras,   \* bound: packets a strategy makes besides the last one
    MaxFaults    \* bound: sends, reads and injections that fail

ASSUME VerdictAssumption ==
    /\ IdModulus \in Nat /\ FirstId \in 0 .. IdModulus - 1
    /\ MaxPackets \in Nat /\ 2 * MaxPackets < IdModulus
    /\ MaxExtras \in Nat /\ MaxFaults \in Nat

VARIABLES
    dir,        \* the queue's direction
    queued,     \* kernel: packets queued so far
    settled,    \* kernel: each packet's verdict, or "waiting"
    pc,         \* what the pump does next
    next, last, \* the packets of the current read not yet handled
    extras,     \* replacements of the packet at hand still to be injected
    pending,    \* pendingAccept when hasPending, else NoId
    cancelled,  \* the pump's context is cancelled
    result,     \* history: the engine's answer for each packet
    fate,       \* history: the verdict user space last chose
    wire,       \* history: replacements injected through the raw socket
    lost,       \* history: packets whose verdict message was not sent
    refused,    \* history: how many verdicts of its own failed for each packet
    faults      \* failures left

kernelVars == <<queued, settled>>
readVars == <<next, last>>
historyVars == <<result, fate, wire, lost, refused>>
vars == <<dir, kernelVars, pc, readVars, extras, pending, cancelled, historyVars, faults>>

Packets == 1 .. MaxPackets
Id(n) == (FirstId + n) % IdModulus
NoId == -1

Verdicts == {"original", "dropped", "replaced"}
Results == {"pass", "drop", "replace"}

\* Every variable has a value of its type (queue, Runtime.handle).
TypeOK ==
    /\ dir \in {"outbound", "inbound"}
    /\ queued \in 0 .. MaxPackets
    /\ settled \in [Packets -> Verdicts \cup {"waiting"}]
    /\ pc \in {"poll", "walk", "inject", "replace", "drop", "fallback", "flush", "stopped"}
    /\ next \in 1 .. MaxPackets + 1 /\ last \in 0 .. MaxPackets
    /\ extras \in 0 .. MaxExtras
    /\ pending \in {NoId} \cup (0 .. IdModulus - 1)
    /\ cancelled \in BOOLEAN
    /\ result \in [Packets -> Results \cup {"none"}]
    /\ fate \in [Packets -> Verdicts \cup {"none"}]
    /\ wire \in [Packets -> 0 .. MaxExtras + 1]
    /\ lost \in SUBSET Packets
    /\ refused \in [Packets -> 0 .. 2]
    /\ faults \in 0 .. MaxFaults

Fails == faults > 0 /\ faults' = faults - 1
Succeeds == UNCHANGED faults

-----------------------------------------------------------------------------
\* The kernel's queue

\* Serial number arithmetic: a was assigned after b.
After(a, b) == LET d == (a - b) % IdModulus IN d > 0 /\ 2 * d < IdModulus

\* The packets a batch verdict for an identifier settles.
Covered(id) == {n \in 1 .. queued : settled[n] = "waiting" /\ ~ After(Id(n), id)}

SettleBatch(id) ==
    settled' = [n \in Packets |-> IF n \in Covered(id) THEN "original" ELSE settled[n]]

SettleOne(n, v) == settled' = [settled EXCEPT ![n] = IF @ = "waiting" THEN v ELSE @]

Arrive ==
    /\ queued < MaxPackets
    /\ queued' = queued + 1
    /\ UNCHANGED <<dir, settled, pc, readVars, extras, pending, cancelled, historyVars, faults>>

-----------------------------------------------------------------------------
\* Accepts held back and verdicts (queue.accept, flush and verdict)

\* Defer an accept: the batch covers every identifier below the highest.
\* (Mutant: defer it for the whole read.)
AcceptRead(n) == pending' = Id(last)
Accept(n) == pending' = IF pending = NoId \/ Id(n) > pending THEN Id(n) ELSE pending

\* A verdict for a later identifier flushes the deferred accepts first.
\* (Mutant: it only forgets them.)
FlushesBeforeNever(n) == FALSE
FlushesBefore(n) == pending # NoId /\ pending < Id(n)

\* flush forgets the batch before it sends it.
FlushSent == SettleBatch(pending) /\ pending' = NoId /\ Succeeds /\ UNCHANGED lost
FlushLost ==
    /\ Fails
    /\ pending' = NoId
    /\ lost' = lost \cup {n \in Covered(pending) : fate[n] = "original"}
    /\ UNCHANGED settled

\* The packet at hand is dealt with: the next one, unless the context ended.
NextPacket ==
    /\ next' = next + 1
    /\ pc' = IF next = last \/ cancelled THEN "flush" ELSE "walk"
    /\ UNCHANGED last

-----------------------------------------------------------------------------
\* The pump

Cancel ==
    /\ ~ cancelled /\ cancelled' = TRUE
    /\ UNCHANGED <<dir, kernelVars, pc, readVars, extras, pending, historyVars, faults>>

PumpStops ==
    /\ pc = "poll" /\ cancelled
    /\ pc' = "stopped"
    /\ UNCHANGED <<dir, kernelVars, readVars, extras, pending, cancelled, historyVars, faults>>

\* One recvmsg returns some of the packets the kernel has queued.
Read ==
    /\ pc = "poll" /\ ~ cancelled
    /\ next <= queued
    /\ last' \in next .. queued
    /\ pc' = "walk"
    /\ UNCHANGED <<dir, kernelVars, next, extras, pending, cancelled, historyVars, faults>>

\* recvmsg fails for good, or a message is malformed: accepts stay deferred.
ReadFails ==
    /\ pc \in {"poll", "walk"} /\ Fails
    /\ pc' = "stopped"
    /\ UNCHANGED <<dir, kernelVars, readVars, extras, pending, cancelled, historyVars>>

\* The end of a read.
Flush ==
    /\ pc = "flush" /\ pending # NoId
    /\ FlushSent
    /\ pc' = "poll"
    /\ UNCHANGED <<dir, queued, readVars, extras, cancelled, result, fate, wire, refused>>

FlushNothing ==
    /\ pc = "flush" /\ pending = NoId
    /\ pc' = "poll"
    /\ UNCHANGED <<dir, kernelVars, readVars, extras, pending, cancelled, historyVars, faults>>

\* The pump survives ENOBUFS, and no other error.
FlushFails ==
    /\ pc = "flush" /\ pending # NoId
    /\ FlushLost
    /\ pc' \in {"poll", "stopped"}
    /\ UNCHANGED <<dir, queued, readVars, extras, cancelled, result, fate, wire, refused>>

\* The packet at hand needs no verdict of its own: no generation, truncated,
\* empty, an engine error, unchanged, or a fan-out of an inbound packet.
HandlePass ==
    /\ pc = "walk"
    /\ Accept(next)
    /\ result' = [result EXCEPT ![next] = "pass"]
    /\ fate' = [fate EXCEPT ![next] = "original"]
    /\ NextPacket
    /\ UNCHANGED <<dir, kernelVars, extras, cancelled, wire, lost, refused, faults>>

HandleDrop ==
    /\ pc = "walk"
    /\ result' = [result EXCEPT ![next] = "drop"]
    /\ fate' = [fate EXCEPT ![next] = "dropped"]
    /\ pc' = "drop"
    /\ UNCHANGED <<dir, kernelVars, readVars, extras, pending, cancelled, wire, lost, refused, faults>>

\* A tampered packet, or outbound a fan-out.
HandleReplace ==
    /\ pc = "walk"
    /\ result' = [result EXCEPT ![next] = "replace"]
    /\ fate' = [fate EXCEPT ![next] = "replaced"]
    /\ extras' \in IF dir = "outbound" THEN 0 .. MaxExtras ELSE {0}
    /\ pc' = IF extras' = 0 THEN "replace" ELSE "inject"
    /\ UNCHANGED <<dir, kernelVars, readVars, pending, cancelled, wire, lost, refused, faults>>

\* All replacements but the last go out through the raw socket; one that does
\* not is skipped.  (Mutant: the last one is sent there as well.)
InjectLast ==
    /\ pc = "inject"
    /\ \/ Succeeds /\ wire' = [wire EXCEPT ![next] = @ + 1]
       \/ Fails /\ UNCHANGED wire
    /\ extras' = extras - 1
    /\ pc' = IF extras = 0 THEN "replace" ELSE "inject"
    /\ UNCHANGED <<dir, kernelVars, readVars, pending, cancelled, result, fate, lost, refused>>

Inject ==
    /\ pc = "inject"
    /\ \/ Succeeds /\ wire' = [wire EXCEPT ![next] = @ + 1]
       \/ Fails /\ UNCHANGED wire
    /\ extras' = extras - 1
    /\ pc' = IF extras = 1 THEN "replace" ELSE "inject"
    /\ UNCHANGED <<dir, kernelVars, readVars, pending, cancelled, result, fate, lost, refused>>

\* verdict, its first half: flush what an earlier accept deferred.
FlushBefore ==
    /\ pc \in {"drop", "replace"} /\ FlushesBefore(next)
    /\ FlushSent
    /\ UNCHANGED <<dir, queued, pc, readVars, extras, cancelled, result, fate, wire, refused>>

\* verdict, its second half.
VerdictSent ==
    /\ pc \in {"drop", "replace"} /\ ~ FlushesBefore(next)
    /\ Succeeds
    /\ SettleOne(next, IF pc = "drop" THEN "dropped" ELSE "replaced")
    /\ pending' = NoId
    /\ NextPacket
    /\ UNCHANGED <<dir, queued, extras, cancelled, historyVars>>

\* Either half fails: nothing is sent for the packet at hand.
Refused(n) == refused' = [refused EXCEPT ![n] = @ + 1]

VerdictLost ==
    IF FlushesBefore(next)
    THEN FlushLost
    ELSE Fails /\ pending' = NoId /\ UNCHANGED <<settled, lost>>

\* A drop that cannot be sent is logged.
DropFails ==
    /\ pc = "drop"
    /\ IF FlushesBefore(next)
       THEN lost' = lost \cup {next} \cup {n \in Covered(pending) : fate[n] = "original"}
       ELSE lost' = lost \cup {next}
    /\ Fails /\ pending' = NoId /\ Refused(next)
    /\ NextPacket
    /\ UNCHANGED <<dir, kernelVars, extras, cancelled, result, fate, wire>>

\* A replacement refused inbound: the original is accepted.
ReplaceFailsInbound ==
    /\ pc = "replace" /\ dir = "inbound"
    /\ Fails /\ Refused(next)
    /\ lost' = IF FlushesBefore(next)
               THEN lost \cup {n \in Covered(pending) : fate[n] = "original"} ELSE lost
    /\ pending' = Id(next)
    /\ fate' = [fate EXCEPT ![next] = "original"]
    /\ NextPacket
    /\ UNCHANGED <<dir, kernelVars, extras, cancelled, result, wire>>

\* Refused outbound: inject the replacement and drop the original instead.
ReplaceFailsOutbound ==
    /\ pc = "replace" /\ dir = "outbound"
    /\ VerdictLost /\ Refused(next)
    /\ pc' = "fallback"
    /\ UNCHANGED <<dir, queued, readVars, extras, cancelled, result, fate, wire>>

FallbackInjects ==
    /\ pc = "fallback"
    /\ wire' = [wire EXCEPT ![next] = @ + 1]
    /\ fate' = [fate EXCEPT ![next] = "dropped"]
    /\ pc' = "drop"
    /\ UNCHANGED <<dir, kernelVars, readVars, extras, pending, cancelled, result, lost, refused, faults>>

\* That fails too: when nothing reached the wire the original is accepted.
\* (Mutant: also when an earlier replacement is out.)
FallbackKeepsAlways(n) == TRUE
FallbackKeeps(n) == wire[n] = 0

FallbackFails ==
    /\ pc = "fallback" /\ Fails
    /\ IF FallbackKeeps(next)
       THEN /\ Accept(next) /\ NextPacket
            /\ fate' = [fate EXCEPT ![next] = "original"]
       ELSE /\ pc' = "drop" /\ UNCHANGED <<pending, readVars>>
            /\ fate' = [fate EXCEPT ![next] = "dropped"]
    /\ UNCHANGED <<dir, kernelVars, extras, cancelled, result, wire, lost, refused>>

-----------------------------------------------------------------------------
Init ==
    /\ dir \in {"outbound", "inbound"}
    /\ queued = 0 /\ settled = [n \in Packets |-> "waiting"]
    /\ pc = "poll" /\ next = 1 /\ last = 0
    /\ extras = 0 /\ pending = NoId /\ cancelled = FALSE
    /\ result = [n \in Packets |-> "none"] /\ fate = [n \in Packets |-> "none"]
    /\ wire = [n \in Packets |-> 0] /\ lost = {}
    /\ refused = [n \in Packets |-> 0]
    /\ faults = MaxFaults

Handle == HandlePass \/ HandleDrop \/ HandleReplace

Settle ==
    \/ Inject \/ FlushBefore \/ VerdictSent \/ DropFails
    \/ ReplaceFailsInbound \/ ReplaceFailsOutbound \/ FallbackInjects \/ FallbackFails

Pump ==
    \/ PumpStops \/ Read \/ ReadFails \/ Flush \/ FlushNothing \/ FlushFails
    \/ Handle \/ Settle

Next == Arrive \/ Cancel \/ Pump

Spec == Init /\ [][Next]_vars

-----------------------------------------------------------------------------
\* No packet suffers another packet's verdict: what the kernel does to it is
\* what handle decided, unless the message that said so was not sent.  "The
\* batch is flushed before any individual verdict for a later id, or a batch
\* would swallow a packet meant to be dropped or rewritten" (queue_linux.go).
DecisionsStand ==
    \A n \in Packets : settled[n] \in {"waiting", fate[n]} \/ n \in lost

\* Between two reads every packet handled has its verdict, unless the message
\* was not sent: "any accept verdicts fn defers are flushed before read returns,
\* so no packet is ever left waiting on the next read" (queue.read).
NothingLeftWaiting ==
    pc = "poll" => \A n \in 1 .. next - 1 : settled[n] # "waiting" \/ n \in lost

\* A replaced packet is dropped only once a replacement is on the wire: "the
\* original is accepted instead of dropped: dropping it would black-hole the
\* flow" (verdictOutbound).  And no single failure lets it through behind its
\* replacement.  Two do: the code only logs a drop that was not sent, so when the
\* kernel refuses the replacement and then the drop, the original is still queued
\* and the next batch of accepts takes it along.
ReplacedOrOriginal ==
    \A n \in Packets : result[n] = "replace" =>
        /\ settled[n] = "dropped" => wire[n] > 0
        /\ settled[n] = "original" /\ wire[n] > 0 => refused[n] = 2
=============================================================================
