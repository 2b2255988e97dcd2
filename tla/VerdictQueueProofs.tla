------------------------- MODULE VerdictQueueProofs -------------------------
(***************************************************************************)
(* Safety theorems about module VerdictQueue, for any number of packets,   *)
(* replacements and failures.                                              *)
(***************************************************************************)
EXTENDS VerdictQueue, TLAPS

-----------------------------------------------------------------------------
\* Identifiers

LEMMA Modulus ==
    ASSUME NEW m \in Nat, m > 0, NEW x \in Int
    PROVE  /\ x % m \in 0 .. m - 1
           /\ 0 <= x /\ x < m => x % m = x
           /\ m <= x /\ x < 2 * m => x % m = x - m
           /\ -m < x /\ x < 0 => x % m = x + m
  BY SMT

LEMMA IdType ==
    ASSUME NEW n \in Packets
    PROVE  /\ Id(n) \in 0 .. IdModulus - 1 /\ Id(n) # NoId
           /\ Id(n) = IF FirstId + n < IdModulus THEN FirstId + n ELSE FirstId + n - IdModulus
  <1>1. /\ IdModulus \in Nat /\ IdModulus > 0 /\ FirstId + n \in Int
        /\ 0 <= FirstId + n /\ FirstId + n < 2 * IdModulus
    BY VerdictAssumption DEF Packets
  <1>2. Id(n) \in 0 .. IdModulus - 1
    BY <1>1, Modulus DEF Id
  <1>3. \A x \in Int : 0 <= x /\ x < 2 * IdModulus =>
           x % IdModulus = IF x < IdModulus THEN x ELSE x - IdModulus
    BY <1>1, Modulus
  <1>4. Id(n) = IF FirstId + n < IdModulus THEN FirstId + n ELSE FirstId + n - IdModulus
    BY <1>1, VerdictAssumption DEF Id, Packets
  <1> QED BY <1>2, <1>4 DEF NoId

\* Serial number arithmetic tells the order of the packets, wrapping or not.
LEMMA SerialOrder ==
    ASSUME NEW a \in Packets, NEW b \in Packets
    PROVE  After(Id(a), Id(b)) <=> a > b
  <1> DEFINE d == Id(a) - Id(b)
  <1>1. /\ IdModulus \in Nat /\ IdModulus > 0 /\ MaxPackets \in Nat /\ 2 * MaxPackets < IdModulus
        /\ a \in 1 .. MaxPackets /\ b \in 1 .. MaxPackets
        /\ FirstId \in 0 .. IdModulus - 1
    BY VerdictAssumption DEF Packets
  <1>2. d \in Int /\ d \in {a - b, a - b - IdModulus, a - b + IdModulus}
    BY <1>1, IdType
  <1>3. -IdModulus < d /\ d < IdModulus
    BY <1>1, IdType
  <1>4. d % IdModulus = IF d >= 0 THEN d ELSE d + IdModulus
    BY <1>1, <1>2, <1>3, Modulus
  <1>5. d % IdModulus = IF a >= b THEN a - b ELSE a - b + IdModulus
    BY <1>1, <1>2, <1>3, <1>4
  <1> HIDE DEF d
  <1>6. d % IdModulus > 0 /\ 2 * (d % IdModulus) < IdModulus <=> a > b
    BY <1>1, <1>5
  <1> QED BY <1>6 DEF After, d

-----------------------------------------------------------------------------
\* The inductive invariant

\* The pump has a packet at hand whose verdict it has not sent.
InHand == pc \in {"inject", "replace", "drop", "fallback"}

Handled == 1 .. next - 1

\* The walk stays within the read, and the batch ends at a packet it handled.
Reading ==
    /\ next <= last + 1 /\ last <= queued
    /\ pc = "walk" \/ InHand => next <= last
    /\ pending # NoId => \E p \in Handled : pending = Id(p)
    /\ pc = "poll" => pending = NoId

\* Packets the pump has not come to.
Untouched ==
    /\ \A n \in Packets : n >= next => settled[n] = "waiting" /\ n \notin lost
    /\ \A n \in Packets : n > next \/ (n = next /\ ~ InHand) =>
          fate[n] = "none" /\ result[n] = "none" /\ wire[n] = 0 /\ refused[n] = 0

\* What has been injected for the packet at hand, and what may still be.
OnTheWire ==
    /\ dir = "inbound" => \A n \in Packets : wire[n] = 0
    /\ pc = "inject" => extras > 0 /\ wire[next] + extras <= MaxExtras /\ dir = "outbound"
    /\ pc = "fallback" => dir = "outbound"
    /\ pc \in {"inject", "replace", "fallback"} =>
          fate[next] = "replaced" /\ result[next] = "replace" /\ wire[next] <= MaxExtras
    /\ pc \in {"inject", "replace"} => refused[next] = 0
    /\ pc = "fallback" => refused[next] = 1
    /\ pc = "drop" => /\ fate[next] = "dropped" /\ result[next] \in {"drop", "replace"}
                      /\ refused[next] = IF result[next] = "replace" THEN 1 ELSE 0
    /\ pc = "drop" /\ result[next] = "replace" => wire[next] > 0

\* A packet the pump is done with: the kernel did what was decided, will do it
\* with the batch, or was never told.
DecidedOne(n) ==
    /\ settled[n] \in {"waiting", fate[n]} \/ n \in lost
    /\ settled[n] = "waiting" /\ n \notin lost => fate[n] = "original"
    /\ n \in lost => settled[n] \in {"waiting", "original"}
    /\ result[n] = "replace" /\ fate[n] = "dropped" => wire[n] > 0
    /\ result[n] = "replace" /\ fate[n] = "original" => wire[n] = 0
    /\ n \in lost => fate[n] \in {"original", "dropped"}
    /\ result[n] = "replace" /\ fate[n] = "dropped" /\ n \in lost => refused[n] = 2

Decided == \A n \in Handled : DecidedOne(n)

VerdictInv == TypeOK /\ Reading /\ Untouched /\ OnTheWire /\ Decided

\* Where identifiers do not wrap, the batch ends no earlier than any packet
\* that waits for it.
Deferred ==
    \A n \in Handled : settled[n] = "waiting" /\ n \notin lost =>
        \E p \in Handled : pending = Id(p) /\ n <= p

-----------------------------------------------------------------------------
\* Batches

LEMMA HandledPackets ==
    ASSUME VerdictInv
    PROVE  /\ Handled \subseteq Packets /\ Handled \subseteq 1 .. queued
           /\ pc = "walk" \/ InHand => next \in Packets
  BY VerdictAssumption DEF VerdictInv, TypeOK, Reading, Handled, Packets, InHand

\* A batch covers the packets up to the one it names.
LEMMA BatchCovers ==
    ASSUME VerdictInv, NEW p \in Handled
    PROVE  Covered(Id(p)) = {n \in 1 .. p : settled[n] = "waiting"}
  <1>1. /\ p \in Packets /\ queued \in Nat /\ 1 .. queued \subseteq Packets
        /\ p <= queued /\ p \in Nat
    BY HandledPackets, VerdictAssumption DEF VerdictInv, TypeOK, Packets
  <1>2. \A n \in 1 .. queued : ~ After(Id(n), Id(p)) <=> n <= p
    BY <1>1, SerialOrder DEF Packets
  <1> QED BY <1>1, <1>2 DEF Covered

LEMMA BatchCoversHandled ==
    ASSUME VerdictInv, pending # NoId
    PROVE  /\ Covered(pending) \subseteq Handled
           /\ \A n \in Covered(pending) : settled[n] = "waiting"
  <1>1. PICK p \in Handled : pending = Id(p)
    BY DEF VerdictInv, Reading
  <1>2. Covered(pending) = {n \in 1 .. p : settled[n] = "waiting"}
    BY <1>1, BatchCovers
  <1>3. next \in Nat /\ p \in 1 .. next - 1
    BY <1>1 DEF VerdictInv, TypeOK, Handled
  <1> QED BY <1>2, <1>3 DEF Handled

\* What a batch that is sent, or lost, makes of the packets.
LEMMA FlushSentKeeps ==
    ASSUME VerdictInv, pending # NoId, FlushSent
    PROVE  /\ settled' \in [Packets -> Verdicts \cup {"waiting"}] /\ lost' = lost /\ pending' = NoId
           /\ \A n \in Packets : n >= next => settled'[n] = settled[n]
           /\ \A n \in Handled :
                 \/ settled'[n] = settled[n]
                 \/ settled'[n] = "original" /\ settled[n] = "waiting"
  <1>1. /\ settled \in [Packets -> Verdicts \cup {"waiting"}] /\ next \in Nat
        /\ settled' = [n \in Packets |-> IF n \in Covered(pending) THEN "original" ELSE settled[n]]
        /\ lost' = lost /\ pending' = NoId
    BY DEF VerdictInv, TypeOK, FlushSent, SettleBatch
  <1>2. /\ Covered(pending) \subseteq Handled
        /\ \A n \in Covered(pending) : settled[n] = "waiting"
    BY BatchCoversHandled
  <1>3. \A n \in Packets : n >= next => n \notin Covered(pending)
    BY <1>1, <1>2 DEF Handled, Packets
  <1> QED BY <1>1, <1>2, <1>3, HandledPackets DEF Verdicts

LEMMA FlushLostKeeps ==
    ASSUME VerdictInv, pending # NoId,
           NEW l, l = lost \cup {n \in Covered(pending) : fate[n] = "original"}
    PROVE  /\ l \subseteq Packets
           /\ \A n \in Packets : n >= next => (n \in l <=> n \in lost)
           /\ \A n \in Handled : n \in l => n \in lost \/ (settled[n] = "waiting" /\ fate[n] = "original")
           /\ lost \subseteq l
  <1>1. Covered(pending) \subseteq Handled /\ \A n \in Covered(pending) : settled[n] = "waiting"
    BY BatchCoversHandled
  <1>2. \A n \in Packets : n >= next => n \notin Handled
    BY DEF VerdictInv, TypeOK, Handled, Packets
  <1>3. lost \subseteq Packets
    BY DEF VerdictInv, TypeOK
  <1> QED BY <1>1, <1>2, <1>3, HandledPackets

-----------------------------------------------------------------------------
\* Every step keeps the invariant

LEMMA VerdictInvRead ==
    ASSUME VerdictInv, Arrive \/ Cancel \/ PumpStops \/ Read \/ ReadFails \/ FlushNothing \/ UNCHANGED vars
    PROVE  VerdictInv'
  <1>1. UNCHANGED <<dir, settled, next, extras, pending, historyVars>>
    BY DEF Arrive, Cancel, PumpStops, Read, ReadFails, FlushNothing, vars, kernelVars, readVars
  <1>2. /\ queued' \in 0 .. MaxPackets /\ queued' >= queued /\ cancelled' \in BOOLEAN
        /\ faults' \in 0 .. MaxFaults
    <2>1. /\ queued \in 0 .. MaxPackets /\ cancelled \in BOOLEAN /\ faults \in 0 .. MaxFaults
          /\ MaxPackets \in Nat /\ MaxFaults \in Nat
      BY VerdictAssumption DEF VerdictInv, TypeOK
    <2>2. queued' = queued \/ (queued < MaxPackets /\ queued' = queued + 1)
      BY DEF Arrive, Cancel, PumpStops, Read, ReadFails, FlushNothing, vars, kernelVars
    <2>3. cancelled' = cancelled \/ cancelled' = TRUE
      BY DEF Arrive, Cancel, PumpStops, Read, ReadFails, FlushNothing, vars
    <2>4. faults' = faults \/ Fails
      BY DEF Arrive, Cancel, PumpStops, Read, ReadFails, FlushNothing, vars
    <2>5. queued' \in 0 .. MaxPackets /\ queued' >= queued
      BY <2>1, <2>2
    <2>6. faults' \in 0 .. MaxFaults
      BY <2>1, <2>4 DEF Fails
    <2> QED BY <2>1, <2>3, <2>5, <2>6
  <1>3. /\ last' \in 0 .. MaxPackets /\ next <= last' + 1 /\ last' <= queued'
        /\ \/ pc' = pc
           \/ pc' = "stopped" /\ pc \in {"poll", "walk"}
           \/ pc' = "walk" /\ pc = "poll" /\ next <= last'
           \/ pc' = "poll" /\ pc = "flush" /\ pending = NoId
        /\ pc' = "walk" \/ InHand' => next <= last'
    BY VerdictAssumption
       DEF Arrive, Cancel, PumpStops, Read, ReadFails, FlushNothing, vars, kernelVars, readVars,
           VerdictInv, TypeOK, Reading, InHand
  <1>4. TypeOK'
    BY <1>1, <1>2, <1>3 DEF VerdictInv, TypeOK, historyVars
  <1>5. Reading'
    BY <1>1, <1>3 DEF VerdictInv, Reading, Handled, Id
  <1>6. Untouched' /\ OnTheWire' /\ Decided'
    BY <1>1, <1>3 DEF VerdictInv, Untouched, OnTheWire, Decided, DecidedOne, Handled, historyVars, InHand
  <1> QED BY <1>4, <1>5, <1>6 DEF VerdictInv

LEMMA VerdictInvFlush ==
    ASSUME VerdictInv, Flush \/ FlushFails \/ FlushBefore
    PROVE  VerdictInv'
  <1>1. /\ UNCHANGED <<dir, queued, readVars, extras, cancelled, result, fate, wire, refused>>
        /\ pending # NoId /\ pending' = NoId
        /\ \/ pc = "flush" /\ pc' \in {"poll", "stopped"}
           \/ pc \in {"drop", "replace"} /\ pc' = pc
        /\ faults' \in 0 .. MaxFaults
    BY VerdictAssumption
       DEF Flush, FlushFails, FlushBefore, FlushSent, FlushLost, FlushesBefore, Fails, Succeeds, VerdictInv, TypeOK
  <1>2. /\ settled' \in [Packets -> Verdicts \cup {"waiting"}] /\ lost' \in SUBSET Packets
        /\ \A n \in Packets : n >= next => settled'[n] = settled[n] /\ (n \in lost' <=> n \in lost)
        /\ \A n \in Handled :
              \/ settled'[n] = settled[n] /\ (n \in lost' <=> n \in lost)
              \/ settled'[n] = "original" /\ settled[n] = "waiting" /\ (n \in lost' <=> n \in lost)
              \/ /\ settled'[n] = settled[n] /\ settled[n] = "waiting" /\ fate[n] = "original"
                 /\ n \in lost'
    <2>1. CASE FlushSent
      BY <1>1, <2>1, FlushSentKeeps DEF VerdictInv, TypeOK
    <2>2. CASE FlushLost
      <3> DEFINE l == lost \cup {n \in Covered(pending) : fate[n] = "original"}
      <3>1. lost' = l /\ settled' = settled
        BY <2>2 DEF FlushLost
      <3> HIDE DEF l
      <3>2. /\ l \subseteq Packets /\ lost \subseteq l
            /\ \A n \in Packets : n >= next => (n \in l <=> n \in lost)
            /\ \A n \in Handled : n \in l => n \in lost \/ (settled[n] = "waiting" /\ fate[n] = "original")
        BY <1>1, FlushLostKeeps DEF l
      <3> QED BY <3>1, <3>2 DEF VerdictInv, TypeOK
    <2> QED BY <2>1, <2>2 DEF Flush, FlushFails, FlushBefore
  <1>3. TypeOK'
    BY <1>1, <1>2 DEF VerdictInv, TypeOK, readVars
  <1>4. Reading' /\ OnTheWire'
    BY <1>1 DEF VerdictInv, Reading, OnTheWire, InHand, readVars
  <1>5. Untouched'
    BY <1>1, <1>2 DEF VerdictInv, Untouched, InHand, readVars
  <1>6. Decided'
    <2> SUFFICES ASSUME NEW n \in Handled PROVE DecidedOne(n)'
      BY <1>1 DEF Decided, Handled, readVars
    <2> QED BY <1>1, <1>2 DEF VerdictInv, Decided, DecidedOne
  <1> QED BY <1>3, <1>4, <1>5, <1>6 DEF VerdictInv

\* A packet's fate is chosen, and its verdict is still to be sent.
LEMMA VerdictInvBegin ==
    ASSUME VerdictInv, HandleDrop \/ HandleReplace
    PROVE  VerdictInv'
  <1>1. next \in Packets /\ next <= last
    BY HandledPackets DEF HandleDrop, HandleReplace, VerdictInv, Reading
  <1>2. /\ UNCHANGED <<dir, queued, settled, readVars, pending, cancelled, wire, lost, refused, faults>>
        /\ pc = "walk" /\ pc' \in {"drop", "replace", "inject"}
        /\ extras' \in 0 .. MaxExtras
        /\ \/ /\ pc' = "drop" /\ result' = [result EXCEPT ![next] = "drop"]
              /\ fate' = [fate EXCEPT ![next] = "dropped"]
           \/ /\ pc' # "drop" /\ result' = [result EXCEPT ![next] = "replace"]
              /\ fate' = [fate EXCEPT ![next] = "replaced"]
        /\ pc' = "inject" => extras' # 0 /\ dir = "outbound"
    BY VerdictAssumption DEF HandleDrop, HandleReplace, VerdictInv, TypeOK, kernelVars
  <1>3. wire[next] = 0 /\ refused[next] = 0 /\ MaxExtras \in Nat
    BY <1>1, <1>2, VerdictAssumption DEF VerdictInv, Untouched, InHand
  <1>4. TypeOK'
    BY <1>1, <1>2 DEF VerdictInv, TypeOK, readVars, Results, Verdicts
  <1>5. Reading'
    BY <1>1, <1>2 DEF VerdictInv, Reading, readVars, Handled, InHand
  <1>6. pc' = "inject" => extras' > 0 /\ wire[next] + extras' <= MaxExtras /\ dir = "outbound"
    <2>1. pc' = "inject" => extras' # 0 /\ dir = "outbound" /\ extras' \in 0 .. MaxExtras
      BY <1>2
    <2> QED BY <1>3, <2>1
  <1>7. /\ \A n \in Packets : n # next => fate'[n] = fate[n] /\ result'[n] = result[n]
        /\ pc' = "drop" => fate'[next] = "dropped" /\ result'[next] = "drop"
        /\ pc' # "drop" => fate'[next] = "replaced" /\ result'[next] = "replace"
    BY <1>1, <1>2 DEF VerdictInv, TypeOK
  <1>8. Untouched'
    <2>1. \A n \in Packets : n > next => n # next
      BY <1>1, VerdictAssumption DEF Packets
    <2> QED BY <1>1, <1>2, <1>7, <2>1 DEF VerdictInv, Untouched, readVars, InHand
  <1>9. OnTheWire'
    <2>1. dir = "inbound" => \A n \in Packets : wire[n] = 0
      BY DEF VerdictInv, OnTheWire
    <2>2. /\ pc' \in {"drop", "replace", "inject"} /\ UNCHANGED <<dir, wire, next, refused>>
          /\ wire[next] <= MaxExtras /\ refused[next] = 0
      BY <1>2, <1>3 DEF readVars
    <2> QED BY <1>7, <1>6, <2>1, <2>2 DEF OnTheWire
  <1>10. Decided'
    <2>1. \A n \in Handled : n \in Packets /\ fate'[n] = fate[n] /\ result'[n] = result[n]
      BY <1>2, HandledPackets DEF VerdictInv, TypeOK, Handled
    <2> QED BY <1>2, <2>1 DEF VerdictInv, Decided, DecidedOne, Handled, readVars
  <1> QED BY <1>4, <1>5, <1>8, <1>9, <1>10 DEF VerdictInv

\* A replacement is injected, or the last verdict becomes a drop.
LEMMA VerdictInvInject ==
    ASSUME VerdictInv, Inject \/ FallbackInjects \/ (FallbackFails /\ ~ FallbackKeeps(next))
    PROVE  VerdictInv'
  <1>1. next \in Packets /\ next <= last /\ InHand
    BY HandledPackets DEF Inject, FallbackInjects, FallbackFails, VerdictInv, Reading, InHand
  <1>2. /\ UNCHANGED <<dir, queued, settled, readVars, pending, cancelled, result, lost, refused>>
        /\ pc \in {"inject", "fallback"} /\ InHand'
        /\ wire' = wire \/ wire' = [wire EXCEPT ![next] = @ + 1]
        /\ fate' = fate \/ fate' = [fate EXCEPT ![next] = "dropped"]
    BY DEF Inject, FallbackInjects, FallbackFails, kernelVars, readVars, InHand
  <1>3. faults' \in 0 .. MaxFaults
    BY VerdictAssumption DEF Inject, FallbackInjects, FallbackFails, Fails, Succeeds, VerdictInv, TypeOK
  <1>4. /\ wire[next] \in 0 .. MaxExtras /\ result[next] = "replace" /\ dir = "outbound"
        /\ pc = "inject" => extras \in 1 .. MaxExtras /\ wire[next] + extras <= MaxExtras
        /\ extras \in 0 .. MaxExtras /\ MaxExtras \in Nat
    BY <1>1, <1>2, VerdictAssumption DEF VerdictInv, TypeOK, OnTheWire
  <1>5. /\ wire' \in [Packets -> 0 .. MaxExtras + 1]
        /\ \A n \in Packets : n # next => wire'[n] = wire[n] /\ fate'[n] = fate[n]
        /\ wire'[next] \in {wire[next], wire[next] + 1}
    BY <1>1, <1>2, <1>4 DEF VerdictInv, TypeOK
  <1>6. /\ extras' \in 0 .. MaxExtras
        /\ \/ /\ pc = "inject" /\ extras' = extras - 1 /\ fate' = fate
              /\ pc' = IF extras = 1 THEN "replace" ELSE "inject"
           \/ /\ pc = "fallback" /\ pc' = "drop" /\ fate' = [fate EXCEPT ![next] = "dropped"]
              /\ wire' = [wire EXCEPT ![next] = @ + 1] \/ wire'[next] > 0
    <2>1. CASE Inject
      BY <1>4, <2>1 DEF Inject
    <2>2. CASE FallbackInjects
      BY <1>4, <2>2 DEF FallbackInjects
    <2>3. CASE FallbackFails /\ ~ FallbackKeeps(next)
      BY <1>4, <2>3 DEF FallbackFails, FallbackKeeps
    <2> QED BY <2>1, <2>2, <2>3
  <1>7. TypeOK'
    BY <1>2, <1>3, <1>5, <1>6 DEF VerdictInv, TypeOK, readVars, Verdicts
  <1>8. Reading'
    BY <1>1, <1>2 DEF VerdictInv, Reading, readVars, Handled, InHand
  <1>9. Untouched'
    BY <1>1, <1>2, <1>5 DEF VerdictInv, TypeOK, Untouched, readVars, InHand, Packets
  <1>10. OnTheWire'
    BY <1>1, <1>2, <1>4, <1>5, <1>6 DEF VerdictInv, TypeOK, OnTheWire, readVars
  <1>11. Decided'
    <2>1. \A n \in Handled : n \in Packets /\ n # next
      BY <1>1, HandledPackets DEF Handled, Packets
    <2> QED BY <1>2, <1>5, <2>1 DEF VerdictInv, Decided, DecidedOne, Handled, readVars
  <1> QED BY <1>7, <1>8, <1>9, <1>10, <1>11 DEF VerdictInv

\* The packet at hand is dealt with, and earlier ones at most lose their batch.
LEMMA VerdictInvNextPacket ==
    ASSUME VerdictInv, NextPacket, pc = "walk" \/ InHand,
           UNCHANGED <<dir, queued, extras, cancelled, wire>>, faults' \in 0 .. MaxFaults,
           settled' \in [Packets -> Verdicts \cup {"waiting"}],
           fate' \in [Packets -> Verdicts \cup {"none"}],
           result' \in [Packets -> Results \cup {"none"}],
           lost' \in SUBSET Packets,
           refused' \in [Packets -> 0 .. 2],
           pending' = NoId \/ \E p \in Handled \cup {next} : pending' = Id(p),
           \A n \in Packets : n # next => /\ fate'[n] = fate[n] /\ result'[n] = result[n]
                                         /\ settled'[n] = settled[n] /\ refused'[n] = refused[n],
           \A n \in Packets : n > next => (n \in lost' <=> n \in lost),
           \A n \in Handled : \/ n \in lost' <=> n \in lost
                              \/ n \in lost' /\ settled[n] = "waiting" /\ fate[n] = "original",
           NEW k, k = next, DecidedOne(k)'
    PROVE  VerdictInv'
  <1>1. next \in Packets /\ next <= last /\ next \in Nat /\ last <= queued /\ last \in Nat
        /\ Handled \subseteq Packets /\ MaxPackets \in Nat /\ last <= MaxPackets
    BY HandledPackets, VerdictAssumption DEF VerdictInv, Reading, TypeOK, Packets
  <1>2. /\ next' = next + 1 /\ last' = last /\ next' <= last' + 1 /\ pc' \in {"flush", "walk"}
        /\ pc' = "walk" => next' <= last'
    BY <1>1 DEF NextPacket
  <1>3. /\ Handled' = Handled \cup {next} /\ next \notin Handled
        /\ \A n \in Packets : n >= next' => n > next /\ n # next
    BY <1>1, <1>2 DEF Handled, Packets
  <1>4. pending' \in {NoId} \cup (0 .. IdModulus - 1)
    BY <1>1, IdType
  <1>5. TypeOK'
    BY <1>1, <1>2, <1>4 DEF VerdictInv, TypeOK, Packets
  <1>6. Reading'
    BY <1>1, <1>2, <1>3 DEF Reading, InHand, Id
  <1>7. Untouched'
    <2>1. \A n \in Packets : n >= next' => /\ settled'[n] = "waiting" /\ n \notin lost'
                                          /\ fate'[n] = "none" /\ result'[n] = "none" /\ wire[n] = 0
                                          /\ refused'[n] = 0
      <3> SUFFICES ASSUME NEW n \in Packets, n >= next'
                   PROVE  /\ settled'[n] = "waiting" /\ n \notin lost'
                          /\ fate'[n] = "none" /\ result'[n] = "none" /\ wire[n] = 0
                          /\ refused'[n] = 0
        OBVIOUS
      <3>1. n > next /\ n # next /\ n >= next
        BY <1>1, <1>3 DEF Packets
      <3> QED BY <3>1 DEF VerdictInv, Untouched
    <2>2. \A n \in Packets : n > next' => n >= next'
      BY <1>1, <1>2 DEF Packets
    <2> QED BY <1>2, <2>1, <2>2 DEF Untouched, InHand
  <1>8. OnTheWire'
    BY <1>2 DEF VerdictInv, OnTheWire
  <1>9. Decided'
    <2>1. ASSUME NEW n \in Handled
          PROVE  DecidedOne(n)'
      <3>1. DecidedOne(n) /\ n \in Packets /\ n # next
        BY <1>1, <1>3 DEF VerdictInv, Decided, DecidedOne
      <3>2. /\ fate'[n] = fate[n] /\ result'[n] = result[n] /\ settled'[n] = settled[n]
            /\ refused'[n] = refused[n]
        BY <3>1
      <3> QED BY <3>1, <3>2 DEF DecidedOne
    <2> QED BY <1>3, <2>1 DEF Decided
  <1> QED BY <1>5, <1>6, <1>7, <1>8, <1>9 DEF VerdictInv

\* The packet keeps its original, in a batch still to be sent.
LEMMA VerdictInvAccepts ==
    ASSUME VerdictInv, HandlePass \/ (FallbackFails /\ FallbackKeeps(next))
    PROVE  VerdictInv'
  <1>1. /\ next \in Packets /\ (pc = "walk" \/ InHand) /\ next \notin Handled
        /\ \A n \in Packets : n > next => n # next
    BY HandledPackets DEF HandlePass, FallbackFails, InHand, Handled, Packets
  <1>2. /\ UNCHANGED <<dir, queued, settled, extras, cancelled, wire, lost, refused>> /\ NextPacket
        /\ fate' = [fate EXCEPT ![next] = "original"]
        /\ \/ result' = [result EXCEPT ![next] = "pass"]
           \/ result' = result /\ wire[next] = 0
        /\ pending' = pending \/ pending' = Id(next)
    BY DEF HandlePass, FallbackFails, FallbackKeeps, Accept, kernelVars
  <1>3. /\ faults' \in 0 .. MaxFaults
        /\ settled' \in [Packets -> Verdicts \cup {"waiting"}]
        /\ fate' \in [Packets -> Verdicts \cup {"none"}]
        /\ result' \in [Packets -> Results \cup {"none"}]
        /\ lost' \in SUBSET Packets /\ refused' \in [Packets -> 0 .. 2]
    BY <1>1, <1>2, VerdictAssumption
       DEF HandlePass, FallbackFails, Fails, VerdictInv, TypeOK, Verdicts, Results
  <1>4. pending' = NoId \/ \E p \in Handled \cup {next} : pending' = Id(p)
    BY <1>2 DEF VerdictInv, Reading
  <1>5. \A n \in Packets : n # next => /\ fate'[n] = fate[n] /\ result'[n] = result[n]
                                       /\ settled'[n] = settled[n] /\ refused'[n] = refused[n]
    BY <1>1, <1>2 DEF VerdictInv, TypeOK
  <1>6. ASSUME NEW k, k = next
        PROVE  DecidedOne(k)'
    <2>1. settled[k] = "waiting" /\ k \notin lost
      BY <1>1, <1>6 DEF VerdictInv, Untouched, Packets
    <2>2. fate'[k] = "original" /\ (result'[k] = "replace" => wire[k] = 0)
      BY <1>1, <1>2, <1>6 DEF VerdictInv, TypeOK
    <2> QED BY <1>2, <2>1, <2>2 DEF DecidedOne
  <1> QED BY <1>1, <1>2, <1>3, <1>4, <1>5, <1>6, VerdictInvNextPacket

\* The verdict is sent: no deferred accept is left behind it.
LEMMA VerdictInvSent ==
    ASSUME VerdictInv, VerdictSent
    PROVE  VerdictInv'
  <1>1. next \in Packets /\ InHand
    BY HandledPackets DEF VerdictSent, InHand
  <1>2. /\ UNCHANGED <<dir, queued, extras, cancelled, wire, result, fate, lost, refused, faults>> /\ NextPacket
        /\ pending' = NoId
        /\ settled' = [settled EXCEPT ![next] = IF settled[next] = "waiting"
                                              THEN IF pc = "drop" THEN "dropped" ELSE "replaced"
                                              ELSE settled[next]]
    BY DEF VerdictSent, SettleOne, Succeeds, historyVars
  <1>3. settled[next] = "waiting" /\ next \notin lost
    BY <1>1 DEF VerdictInv, Untouched, Packets
  <1>4. fate[next] = IF pc = "drop" THEN "dropped" ELSE "replaced"
    BY DEF VerdictInv, OnTheWire, VerdictSent
  <1>5. settled' = [settled EXCEPT ![next] = fate[next]]
    BY <1>2, <1>3, <1>4
  <1>6. /\ faults' \in 0 .. MaxFaults
        /\ settled' \in [Packets -> Verdicts \cup {"waiting"}]
        /\ fate' \in [Packets -> Verdicts \cup {"none"}]
        /\ result' \in [Packets -> Results \cup {"none"}]
        /\ lost' \in SUBSET Packets /\ refused' \in [Packets -> 0 .. 2]
    BY <1>2, <1>4, <1>5, ZenonT(30) DEF VerdictInv, TypeOK, Verdicts
  <1>7. \A n \in Packets : n # next => settled'[n] = settled[n] /\ refused'[n] = refused[n]
    BY <1>2, <1>5 DEF VerdictInv, TypeOK
  <1>8. ASSUME NEW k, k = next
        PROVE  DecidedOne(k)'
    <2>1. settled'[k] = fate[k] /\ fate[k] \in {"dropped", "replaced"}
      BY <1>1, <1>4, <1>5, <1>8 DEF VerdictInv, TypeOK
    <2>2. fate[k] = "dropped" /\ result[k] = "replace" => wire[k] > 0
      BY <1>4, <1>8 DEF VerdictInv, OnTheWire, VerdictSent
    <2> QED BY <1>2, <1>3, <1>8, <2>1, <2>2 DEF DecidedOne
  <1> QED BY <1>1, <1>2, <1>6, <1>7, <1>8, VerdictInvNextPacket

\* What a verdict that fails adds to the packets whose message was not sent.
LEMMA LostBefore ==
    ASSUME VerdictInv, NEW l,
           l = lost \/ (/\ FlushesBefore(next)
                        /\ l = lost \cup {n \in Covered(pending) : fate[n] = "original"})
    PROVE  /\ l \subseteq Packets /\ lost \subseteq l
           /\ \A n \in Packets : n >= next => (n \in l <=> n \in lost)
           /\ \A n \in Handled : \/ n \in l <=> n \in lost
                                 \/ n \in l /\ settled[n] = "waiting" /\ fate[n] = "original"
  <1>1. CASE l = lost
    BY <1>1 DEF VerdictInv, TypeOK
  <1>2. CASE l # lost
    BY <1>2, FlushLostKeeps DEF FlushesBefore
  <1> QED BY <1>1, <1>2

LEMMA VerdictInvDropFails ==
    ASSUME VerdictInv, DropFails
    PROVE  VerdictInv'
  <1>1. next \in Packets /\ InHand /\ next \notin Handled /\ next >= next
    BY HandledPackets DEF DropFails, InHand, Handled, Packets
  <1>2. /\ UNCHANGED <<dir, queued, settled, extras, cancelled, wire, result, fate>> /\ NextPacket
        /\ pending' = NoId /\ pc = "drop" /\ refused' = [refused EXCEPT ![next] = @ + 1]
    BY DEF DropFails, kernelVars, Refused
  <1>3. PICK l : /\ lost' = l \cup {next}
                 /\ l = lost \/ (/\ FlushesBefore(next)
                                  /\ l = lost \cup {n \in Covered(pending) : fate[n] = "original"})
    <2>1. CASE FlushesBefore(next)
      <3>1. lost' = (lost \cup {n \in Covered(pending) : fate[n] = "original"}) \cup {next}
        BY <2>1 DEF DropFails
      <3> QED BY <2>1, <3>1
    <2>2. CASE ~ FlushesBefore(next)
      BY <2>2 DEF DropFails
    <2> QED BY <2>1, <2>2
  <1>4. /\ l \subseteq Packets /\ lost \subseteq l
        /\ \A n \in Packets : n >= next => (n \in l <=> n \in lost)
        /\ \A n \in Handled : \/ n \in l <=> n \in lost
                              \/ n \in l /\ settled[n] = "waiting" /\ fate[n] = "original"
    BY <1>3, LostBefore
  <1>5. /\ faults' \in 0 .. MaxFaults
        /\ settled' \in [Packets -> Verdicts \cup {"waiting"}]
        /\ fate' \in [Packets -> Verdicts \cup {"none"}]
        /\ result' \in [Packets -> Results \cup {"none"}]
        /\ lost' \in SUBSET Packets
    BY <1>1, <1>2, <1>3, <1>4, VerdictAssumption DEF DropFails, Fails, VerdictInv, TypeOK
  <1>8. /\ refused' \in [Packets -> 0 .. 2]
        /\ \A n \in Packets : n # next => refused'[n] = refused[n]
        /\ result[next] = "replace" => refused'[next] = 2
    <2>1. refused[next] = IF result[next] = "replace" THEN 1 ELSE 0
      BY <1>2 DEF VerdictInv, OnTheWire
    <2> QED BY <1>1, <1>2, <2>1 DEF VerdictInv, TypeOK
  <1>6. /\ \A n \in Packets : n > next => (n \in lost' <=> n \in lost)
        /\ \A n \in Handled : \/ n \in lost' <=> n \in lost
                              \/ n \in lost' /\ settled[n] = "waiting" /\ fate[n] = "original"
    BY <1>1, <1>3, <1>4 DEF Packets
  <1>7. ASSUME NEW k, k = next
        PROVE  DecidedOne(k)'
    <2>1. settled[k] = "waiting" /\ k \in lost'
      BY <1>1, <1>3, <1>7 DEF VerdictInv, Untouched
    <2>2. fate[k] = "dropped" /\ (result[k] = "replace" => wire[k] > 0)
      BY <1>2, <1>7 DEF VerdictInv, OnTheWire
    <2>3. result[k] = "replace" => refused'[k] = 2
      BY <1>7, <1>8
    <2> QED BY <1>2, <2>1, <2>2, <2>3 DEF DecidedOne
  <1> QED BY <1>1, <1>2, <1>5, <1>6, <1>7, <1>8, VerdictInvNextPacket

LEMMA VerdictInvReplaceFails ==
    ASSUME VerdictInv, ReplaceFailsInbound \/ ReplaceFailsOutbound
    PROVE  VerdictInv'
  <1>1. /\ next \in Packets /\ InHand /\ next \notin Handled /\ next <= last
        /\ \A n \in Packets : n > next => n >= next /\ n # next
    BY HandledPackets DEF ReplaceFailsInbound, ReplaceFailsOutbound, InHand, Handled, Packets, VerdictInv, Reading
  <1>2. /\ UNCHANGED <<dir, queued, settled, extras, cancelled, wire, result>> /\ pc = "replace"
        /\ faults' \in 0 .. MaxFaults
        /\ lost' = lost \/ (/\ FlushesBefore(next)
                             /\ lost' = lost \cup {n \in Covered(pending) : fate[n] = "original"})
    BY VerdictAssumption
       DEF ReplaceFailsInbound, ReplaceFailsOutbound, VerdictLost, FlushLost, Fails, kernelVars, VerdictInv, TypeOK
  <1>6. /\ refused' \in [Packets -> 0 .. 2] /\ refused'[next] = 1
        /\ \A n \in Packets : n # next => refused'[n] = refused[n]
    <2>1. refused' = [refused EXCEPT ![next] = @ + 1]
      BY DEF ReplaceFailsInbound, ReplaceFailsOutbound, Refused
    <2>2. refused[next] = 0
      BY <1>2 DEF VerdictInv, OnTheWire
    <2> QED BY <1>1, <2>1, <2>2 DEF VerdictInv, TypeOK
  <1>3. /\ lost' \subseteq Packets /\ lost \subseteq lost'
        /\ \A n \in Packets : n >= next => (n \in lost' <=> n \in lost)
        /\ \A n \in Handled : \/ n \in lost' <=> n \in lost
                              \/ n \in lost' /\ settled[n] = "waiting" /\ fate[n] = "original"
    BY <1>2, LostBefore
  <1>4. CASE ReplaceFailsInbound
    <2>1. /\ NextPacket /\ pending' = Id(next) /\ dir = "inbound"
          /\ fate' = [fate EXCEPT ![next] = "original"]
      BY <1>4 DEF ReplaceFailsInbound
    <2>2. /\ settled' \in [Packets -> Verdicts \cup {"waiting"}]
          /\ fate' \in [Packets -> Verdicts \cup {"none"}]
          /\ result' \in [Packets -> Results \cup {"none"}]
      BY <1>2, <2>1 DEF VerdictInv, TypeOK, Verdicts
    <2>3. \A n \in Packets : n # next => fate'[n] = fate[n]
      BY <2>1 DEF VerdictInv, TypeOK
    <2>4. ASSUME NEW k, k = next
          PROVE  DecidedOne(k)'
      <3>1. settled[k] = "waiting" /\ fate'[k] = "original" /\ wire[k] = 0
        BY <1>1, <2>1, <2>4 DEF VerdictInv, TypeOK, Untouched, OnTheWire, Packets
      <3> QED BY <1>2, <3>1 DEF DecidedOne
    <2> QED BY <1>1, <1>2, <1>3, <1>6, <2>1, <2>2, <2>3, <2>4, VerdictInvNextPacket
  <1>5. CASE ReplaceFailsOutbound
    <2>1. pending' = NoId /\ dir = "outbound" /\ pc' = "fallback" /\ UNCHANGED <<next, last, fate>>
      BY <1>5 DEF ReplaceFailsOutbound, VerdictLost, FlushLost, readVars
    <2>2. TypeOK'
      BY <1>2, <1>3, <1>6, <2>1 DEF VerdictInv, TypeOK
    <2>3. Reading' /\ OnTheWire'
      BY <1>1, <1>2, <1>6, <2>1 DEF VerdictInv, Reading, OnTheWire, InHand
    <2>4. Untouched'
      BY <1>1, <1>2, <1>3, <1>6, <2>1 DEF VerdictInv, Untouched, InHand
    <2>5. Decided'
      <3> SUFFICES ASSUME NEW n \in Handled PROVE DecidedOne(n)'
        BY <2>1 DEF Decided, Handled
      <3>1. n \in Packets /\ n # next
        BY <1>1, HandledPackets
      <3>2. refused'[n] = refused[n]
        BY <1>6, <3>1
      <3> QED BY <1>2, <1>3, <2>1, <3>2 DEF VerdictInv, Decided, DecidedOne
    <2> QED BY <2>2, <2>3, <2>4, <2>5 DEF VerdictInv
  <1> QED BY <1>4, <1>5

LEMMA VerdictInvNext ==
    ASSUME VerdictInv, [Next]_vars
    PROVE  VerdictInv'
  BY VerdictInvRead, VerdictInvFlush, VerdictInvBegin, VerdictInvInject, VerdictInvAccepts,
     VerdictInvSent, VerdictInvDropFails, VerdictInvReplaceFails DEF Next, Pump, Handle, Settle

LEMMA VerdictInvInit == Init => VerdictInv
  <1> SUFFICES ASSUME Init PROVE VerdictInv
    OBVIOUS
  <1>1. TypeOK
    <2>1. /\ settled \in [Packets -> Verdicts \cup {"waiting"}]
          /\ result \in [Packets -> Results \cup {"none"}]
          /\ fate \in [Packets -> Verdicts \cup {"none"}]
          /\ wire \in [Packets -> 0 .. MaxExtras + 1]
          /\ refused \in [Packets -> 0 .. 2]
      BY VerdictAssumption DEF Init
    <2>2. /\ queued \in 0 .. MaxPackets /\ next \in 1 .. MaxPackets + 1 /\ last \in 0 .. MaxPackets
          /\ extras \in 0 .. MaxExtras /\ faults \in 0 .. MaxFaults
      BY VerdictAssumption DEF Init
    <2> QED BY <2>1, <2>2 DEF Init, TypeOK
  <1>2. Reading /\ Untouched /\ OnTheWire
    BY DEF Init, Reading, Untouched, OnTheWire, InHand, Packets
  <1>3. Decided
    BY DEF Init, Decided, Handled
  <1> QED BY <1>1, <1>2, <1>3 DEF VerdictInv

\* Every reachable state has its type; in particular no packet has more
\* replacements on the wire than its strategy made, whichever sends fail
\* (verdictOutbound).
THEOREM VerdictTypeCorrect == Spec => []TypeOK
  <1>1. VerdictInv => TypeOK
    BY DEF VerdictInv
  <1> QED BY <1>1, VerdictInvInit, VerdictInvNext, PTL DEF Spec

\* No batch swallows another packet's verdict, whether or not identifiers wrap:
\* an accept covers only packets that were let through themselves, or whose own
\* verdict could not be sent (queue.accept, verdict and flush).
THEOREM DecisionsAreKept == Spec => []DecisionsStand
  <1>1. VerdictInv => DecisionsStand
    <2> SUFFICES ASSUME VerdictInv, NEW n \in Packets
                 PROVE  settled[n] \in {"waiting", fate[n]} \/ n \in lost
      BY DEF DecisionsStand
    <2>1. n \in Handled \/ n >= next
      BY VerdictAssumption DEF VerdictInv, TypeOK, Handled, Packets
    <2> QED BY <2>1 DEF VerdictInv, Decided, DecidedOne, Untouched
  <1> QED BY <1>1, VerdictInvInit, VerdictInvNext, PTL DEF Spec

\* A replaced packet is dropped only once a replacement is on the wire, and no
\* single failure lets it through behind one: the kernel must refuse its
\* replacement and then its drop (verdictOutbound, verdictInbound, drop).
THEOREM DoubledOnlyWhenRefusedTwice == Spec => []ReplacedOrOriginal
  <1>1. VerdictInv => ReplacedOrOriginal
    <2> SUFFICES ASSUME VerdictInv, NEW n \in Packets, result[n] = "replace"
                 PROVE  /\ settled[n] = "dropped" => wire[n] > 0
                        /\ settled[n] = "original" /\ wire[n] > 0 => refused[n] = 2
      BY DEF ReplacedOrOriginal
    <2>1. n \in Handled \/ n >= next
      BY VerdictAssumption DEF VerdictInv, TypeOK, Handled, Packets
    <2>2. CASE n >= next
      BY <2>2 DEF VerdictInv, Untouched
    <2>3. CASE n \in Handled
      <3>1. DecidedOne(n) /\ fate[n] \in Verdicts \cup {"none"} /\ wire[n] \in Nat
        BY <2>3, VerdictAssumption DEF VerdictInv, Decided, TypeOK
      <3> QED BY <3>1 DEF DecidedOne, Verdicts
    <2> QED BY <2>1, <2>2, <2>3
  <1> QED BY <1>1, VerdictInvInit, VerdictInvNext, PTL DEF Spec

-----------------------------------------------------------------------------
\* Nothing is left waiting, where identifiers do not wrap

\* The kernel or the history of lost messages knows of every packet handled.
Told == \A n \in Handled : settled[n] # "waiting" \/ n \in lost

LEMMA IdsInOrder ==
    ASSUME FirstId + MaxPackets < IdModulus, NEW a \in Packets, NEW b \in Packets, a < b
    PROVE  Id(a) < Id(b)
  <1>1. FirstId + a < IdModulus /\ FirstId + b < IdModulus /\ FirstId \in Int /\ a \in Int /\ b \in Int
    BY VerdictAssumption DEF Packets
  <1>2. Id(a) = FirstId + a /\ Id(b) = FirstId + b
    BY <1>1, IdType
  <1> QED BY <1>1, <1>2

\* A later packet's verdict flushes the batch, and its accept extends it.
LEMMA BatchBehind ==
    ASSUME FirstId + MaxPackets < IdModulus, VerdictInv, next \in Packets, pending # NoId
    PROVE  FlushesBefore(next) /\ Id(next) > pending
  <1>1. PICK p \in Handled : pending = Id(p)
    BY DEF VerdictInv, Reading
  <1>2. p \in Packets /\ p < next
    BY <1>1, HandledPackets DEF Handled, Packets
  <1>3. Id(p) < Id(next) /\ Id(p) \in Int /\ Id(next) \in Int
    BY <1>2, IdsInOrder, IdType
  <1> QED BY <1>1, <1>3 DEF FlushesBefore

\* A batch, sent or lost, leaves no packet behind.
LEMMA BatchTells ==
    ASSUME VerdictInv, Deferred
    PROVE  /\ pending = NoId => Told
           /\ pending # NoId /\ FlushSent => \A n \in Handled : settled'[n] # "waiting" \/ n \in lost'
           /\ \A n \in Handled : settled[n] # "waiting" \/ n \in lost
                                 \/ n \in {k \in Covered(pending) : fate[k] = "original"}
  <1>1. ASSUME NEW n \in Handled, settled[n] = "waiting", n \notin lost
        PROVE  pending # NoId /\ n \in Covered(pending) /\ fate[n] = "original"
    <2>1. PICK p \in Handled : pending = Id(p) /\ n <= p
      BY <1>1 DEF Deferred
    <2>2. p \in Packets /\ pending # NoId
      BY <2>1, HandledPackets, IdType
    <2>3. n \in 1 .. p
      BY <2>1 DEF Handled
    <2>4. n \in Covered(pending)
      BY <1>1, <2>1, <2>3, BatchCovers
    <2> QED BY <1>1, <2>2, <2>4 DEF VerdictInv, Decided, DecidedOne
  <1>2. ASSUME pending # NoId, FlushSent, NEW n \in Handled
        PROVE  settled'[n] # "waiting" \/ n \in lost'
    <2>1. n \in Packets /\ lost' = lost
      BY <1>2, HandledPackets DEF FlushSent
    <2>2. settled'[n] = IF n \in Covered(pending) THEN "original" ELSE settled[n]
      BY <1>2, <2>1 DEF FlushSent, SettleBatch
    <2> QED BY <1>1, <2>1, <2>2
  <1> QED BY <1>1, <1>2 DEF Told

LEMMA DeferredNext ==
    ASSUME FirstId + MaxPackets < IdModulus, VerdictInv, Deferred, [Next]_vars
    PROVE  Deferred'
  <1>1. pc = "walk" \/ InHand => next \in Packets
    BY HandledPackets
  <1>2. CASE \/ Arrive \/ Cancel \/ PumpStops \/ Read \/ ReadFails \/ FlushNothing \/ UNCHANGED vars
             \/ HandleDrop \/ HandleReplace \/ Inject \/ FallbackInjects
             \/ (FallbackFails /\ ~ FallbackKeeps(next))
    <2>1. UNCHANGED <<settled, lost, next, pending>>
      BY <1>2
       DEF Arrive, Cancel, PumpStops, Read, ReadFails, FlushNothing, vars, HandleDrop, HandleReplace,
           Inject, FallbackInjects, FallbackFails, kernelVars, readVars, historyVars
    <2> QED BY <2>1 DEF Deferred, Handled, Id
  <1>3. CASE Flush \/ FlushFails \/ FlushBefore \/ ReplaceFailsOutbound
    <2>1. \A n \in Handled : settled'[n] # "waiting" \/ n \in lost'
      <3>1. CASE pending # NoId /\ FlushSent
        BY <3>1, BatchTells
      <3>2. CASE FlushLost
        BY <3>2, BatchTells DEF FlushLost
      <3>3. CASE ReplaceFailsOutbound /\ ~ FlushesBefore(next)
        <4>1. pending = NoId /\ UNCHANGED <<settled, lost>>
          BY <1>1, <3>3, BatchBehind DEF ReplaceFailsOutbound, VerdictLost, InHand
        <4> QED BY <4>1, BatchTells DEF Told
      <3> QED BY <1>3, <3>1, <3>2, <3>3
           DEF Flush, FlushFails, FlushBefore, ReplaceFailsOutbound, VerdictLost, FlushesBefore
    <2>2. next' = next
      BY <1>3 DEF Flush, FlushFails, FlushBefore, ReplaceFailsOutbound, readVars
    <2> QED BY <2>1, <2>2 DEF Deferred, Handled
  <1>4. CASE \/ HandlePass \/ (FallbackFails /\ FallbackKeeps(next)) \/ ReplaceFailsInbound
    <2>1. next \in Packets /\ next' = next + 1
      BY <1>1, <1>4 DEF HandlePass, FallbackFails, ReplaceFailsInbound, NextPacket, InHand
    <2>2. pending' = Id(next)
      BY <1>4, <2>1, BatchBehind DEF HandlePass, FallbackFails, ReplaceFailsInbound, Accept
    <2>3. next \in Handled' /\ \A n \in Handled' : n <= next
      BY <2>1 DEF Handled, Packets
    <2> QED BY <2>2, <2>3 DEF Deferred, Id
  <1>5. CASE VerdictSent
    <2>1. /\ next \in Packets /\ next' = next + 1 /\ pending = NoId /\ lost' = lost
          /\ SettleOne(next, IF pc = "drop" THEN "dropped" ELSE "replaced")
      BY <1>1, <1>5, BatchBehind DEF VerdictSent, NextPacket, InHand, historyVars
    <2>2. Told
      BY <2>1, BatchTells
    <2>3. \A n \in Packets : settled'[n] # "waiting" \/ (n # next /\ settled'[n] = settled[n])
      BY <2>1 DEF SettleOne, VerdictInv, TypeOK
    <2>4. Handled' \subseteq Handled \cup {next} /\ Handled \subseteq Packets
      BY <2>1, HandledPackets DEF Handled, Packets
    <2> QED BY <2>1, <2>2, <2>3, <2>4 DEF Deferred, Told
  <1>6. CASE DropFails
    <2>1. /\ next \in Packets /\ next' = next + 1 /\ next \in lost' /\ settled' = settled
          /\ FlushesBefore(next) =>
                lost' = lost \cup {next} \cup {n \in Covered(pending) : fate[n] = "original"}
          /\ ~ FlushesBefore(next) => lost' = lost \cup {next} /\ pending = NoId
      BY <1>1, <1>6, BatchBehind DEF DropFails, NextPacket, InHand, kernelVars
    <2>2. \A n \in Handled : settled'[n] # "waiting" \/ n \in lost'
      BY <2>1, BatchTells DEF Told
    <2>3. Handled' \subseteq Handled \cup {next}
      BY <2>1 DEF Handled, Packets
    <2> QED BY <2>1, <2>2, <2>3 DEF Deferred
  <1> QED BY <1>2, <1>3, <1>4, <1>5, <1>6 DEF Next, Pump, Handle, Settle

\* Between two reads every packet handled has its verdict, or its message could
\* not be sent: read flushes what was deferred before it returns (queue.read).
\* When identifiers wrap within a read it does not hold.
THEOREM NothingIsLeftWaiting ==
    ASSUME FirstId + MaxPackets < IdModulus
    PROVE  Spec => []NothingLeftWaiting
  <1>1. Init => Deferred
    BY DEF Init, Deferred, Handled
  <1>2. VerdictInv /\ Deferred /\ [Next]_vars => Deferred'
    BY DeferredNext
  <1>3. VerdictInv /\ Deferred => NothingLeftWaiting
    BY BatchTells DEF VerdictInv, Reading, NothingLeftWaiting, Told, Handled
  <1> QED BY <1>1, <1>2, <1>3, VerdictInvInit, VerdictInvNext, PTL DEF Spec
=============================================================================
