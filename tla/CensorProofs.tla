---------------------------- MODULE CensorProofs ----------------------------
(***************************************************************************)
(* The source of the inbound counts never reports a packet twice and never *)
(* goes backwards, for any number of callers, packets, replacements of the *)
(* table and failing reads: CensorCounters implements Meter.               *)
(*                                                                         *)
(* That the totals do not exceed the packets there have been is not        *)
(* inductive.  What has been reported, with what the next reading would    *)
(* add, is: Books.  A read that has its answer but not yet the lock needs  *)
(* the same of the reading it is about to take and of the one after.       *)
(***************************************************************************)
EXTENDS CensorCounters, FiniteSetTheorems, TLAPS

\* The packets reported, those in the answer of a read in flight, and those the
\* chain has counted since, are packets that arrived.
Books ==
    \A e \in Events :
        /\ total[e] + Added(lastRaw[e], count[e]) <= counted[e]
        /\ \A c \in Callers : call[c] = "counts" =>
               total[e] + Added(lastRaw[e], raw[c][e]) + Added(raw[c][e], count[e])
                   <= counted[e]

\* Every packet is of one of the table's events, for either classifier.
LEMMA EventsCover == ASSUME NEW p PROVE KernelEvent(p) \in Events /\ ObserverEvent(p) \in Events
<1>1. KernelEvent(p) \in Events
  BY DEF KernelEvent, Events
<1>2. ObserverEvent(p) \in Events
  BY DEF ObserverEvent, Events
<1>3. QED BY <1>1, <1>2

\* Counting one packet.
LEMMA BumpCounts ==
    ASSUME NEW counts \in Counts, NEW e \in Events
    PROVE  /\ Bump(counts, e) \in Counts
           /\ Bump(counts, e)[e] = counts[e] + 1
           /\ \A d \in Events \ {e} : Bump(counts, e)[d] = counts[d]
BY DEF Bump, Counts

LEMMA ZeroCounts == Zero \in Counts /\ \A e \in Events : Zero[e] = 0
BY DEF Zero, Counts

-----------------------------------------------------------------------------
\* The initial states have their types, and nothing is on the books.
LEMMA CensorInit == Init => TypeOK /\ Books
<1>1. SUFFICES ASSUME Init PROVE TypeOK /\ Books
  OBVIOUS
<1>2. TypeOK
  <2>1. /\ raw \in [Callers -> Counts] /\ total \in Counts /\ lastRaw \in Counts
        /\ count \in Counts /\ observed \in Counts /\ counted \in Counts
    BY <1>1, ZeroCounts DEF Init
  <2>2. /\ call \in [Callers -> {"idle", "reading", "counts", "missing", "failed"}]
        /\ ~ reading /\ \A c \in Callers : call[c] = "idle"
    BY <1>1 DEF Init
  <2>3. arrivals \in 0 .. MaxArrivals /\ programs \in 0 .. MaxPrograms
        /\ failures \in 0 .. MaxFailures
    BY <1>1, CensorAssumption DEF Init
  <2>4. QED BY <1>1, <2>1, <2>2, <2>3 DEF Init, TypeOK
<1>3. Books
  BY <1>1, ZeroCounts DEF Init, Books, Added
<1>4. QED BY <1>2, <1>3

\* Every step keeps the types, and reads stay one at a time.
LEMMA CensorTypeStep == TypeOK /\ [Next]_vars => TypeOK'
<1>1. SUFFICES ASSUME TypeOK, [Next]_vars PROVE TypeOK'
  OBVIOUS
<1> USE CensorAssumption
<1>2. ASSUME NEW p \in Packets, Arrive(p) PROVE TypeOK'
  <2>1. Bump(count, KernelEvent(p)) \in Counts /\ Bump(counted, KernelEvent(p)) \in Counts
        /\ Bump(observed, ObserverEvent(p)) \in Counts
    BY <1>1, EventsCover, BumpCounts DEF TypeOK
  <2>2. count' \in Counts /\ counted' \in Counts /\ observed' \in Counts
    BY <1>1, <1>2, <2>1 DEF Arrive, TypeOK
  <2>3. arrivals' \in 0 .. MaxArrivals
    BY <1>1, <1>2 DEF Arrive, TypeOK
  <2>4. UNCHANGED <<strategy, table, sourceVars, programs, failures>>
    BY <1>2 DEF Arrive
  <2>5. synAcks' \in Nat
    BY <1>1, <1>2 DEF Arrive, TypeOK
  <2>6. QED BY <1>1, <2>2, <2>3, <2>4, <2>5 DEF TypeOK, sourceVars
<1>3. ASSUME NEW s \in Strategies, Program(s) PROVE TypeOK'
  <2>1. programs' \in 0 .. MaxPrograms
    BY <1>1, <1>3 DEF Program, TypeOK
  <2>2. strategy' \in Strategies /\ table' \in BOOLEAN /\ count' \in Counts
    BY <1>3, ZeroCounts DEF Program, Idle
  <2>3. UNCHANGED <<observed, sourceVars, histories, arrivals, failures>>
    BY <1>3 DEF Program
  <2>4. QED BY <1>1, <2>1, <2>2, <2>3 DEF TypeOK, sourceVars, histories
<1>4. ASSUME NEW c \in Callers, Ask(c) PROVE TypeOK'
  BY <1>1, <1>4 DEF Ask, TypeOK, kernelVars, histories, bounds
<1>5. ASSUME NEW c \in Callers, Answer(c) PROVE TypeOK'
  BY <1>1, <1>5 DEF Answer, TypeOK, kernelVars, histories, bounds
<1>6. ASSUME NEW c \in Callers, AnswerFails(c) PROVE TypeOK'
  BY <1>1, <1>6 DEF AnswerFails, TypeOK, kernelVars, histories
<1>7. ASSUME NEW c \in Callers, Complete(c) PROVE TypeOK'
  <2>1. total' \in Counts /\ lastRaw' \in Counts
    <3>1. CASE call[c] = "counts"
      <4>1. raw[c] \in Counts
        BY <1>1 DEF TypeOK
      <4>2. \A e \in Events : total[e] + Added(lastRaw[e], raw[c][e]) \in Nat
        <5>1. TAKE e \in Events
        <5>2. total[e] \in Nat /\ lastRaw[e] \in Nat /\ raw[c][e] \in Nat
          BY <1>1, <4>1 DEF TypeOK, Counts
        <5>3. QED BY <5>2 DEF Added
      <4>3. /\ total' = [e \in Events |-> total[e] + Added(lastRaw[e], raw[c][e])]
            /\ lastRaw' = raw[c]
        BY <1>7, <3>1 DEF Complete
      <4>4. QED BY <4>1, <4>2, <4>3 DEF Counts
    <3>2. CASE call[c] # "counts"
      BY <1>1, <1>7, <3>2 DEF Complete, TypeOK
    <3>3. QED BY <3>1, <3>2
  <2>2. raw' \in [Callers -> Counts]
    BY <1>1, <1>7, ZeroCounts DEF Complete, TypeOK
  <2>3. /\ reading' = FALSE /\ fresh' = TRUE /\ call' = [call EXCEPT ![c] = "idle"]
        /\ call[c] # "idle" /\ UNCHANGED <<kernelVars, observed, histories, bounds>>
    BY <1>7 DEF Complete
  <2>4. QED BY <1>1, <2>1, <2>2, <2>3 DEF TypeOK, kernelVars, histories, bounds
<1>8. ASSUME Expire PROVE TypeOK'
  BY <1>1, <1>8 DEF Expire, TypeOK, kernelVars, histories, bounds
<1>9. ASSUME UNCHANGED vars PROVE TypeOK'
  BY <1>1, <1>9 DEF vars, TypeOK, kernelVars, sourceVars, histories, bounds
<1>10. QED BY <1>1, <1>2, <1>3, <1>4, <1>5, <1>6, <1>7, <1>8, <1>9 DEF Next

\* The counters, for one event.
LEMMA CountsNat ==
    ASSUME TypeOK, NEW e \in Events
    PROVE  /\ count[e] \in Nat /\ counted[e] \in Nat
           /\ total[e] \in Nat /\ lastRaw[e] \in Nat
           /\ \A c \in Callers : raw[c][e] \in Nat
BY DEF TypeOK, Counts

\* Every step keeps the books.
LEMMA BooksStep == TypeOK /\ Books /\ [Next]_vars => Books'
<1>1. SUFFICES ASSUME TypeOK, Books, [Next]_vars PROVE Books'
  OBVIOUS
<1>2. ASSUME NEW p \in Packets, Arrive(p) PROVE Books'
  <2>1. /\ UNCHANGED <<total, lastRaw, call, raw>>
        /\ count' = Bump(count, KernelEvent(p)) /\ counted' = Bump(counted, KernelEvent(p))
    BY <1>2 DEF Arrive, sourceVars
  <2>2. ASSUME NEW e \in Events
        PROVE  \/ count'[e] = count[e] /\ counted'[e] = counted[e]
               \/ count'[e] = count[e] + 1 /\ counted'[e] = counted[e] + 1
    <3>1. KernelEvent(p) \in Events /\ count \in Counts /\ counted \in Counts
      BY <1>1, EventsCover DEF TypeOK
    <3>2. CASE e = KernelEvent(p)
      BY <2>1, <3>1, <3>2, BumpCounts
    <3>3. CASE e # KernelEvent(p)
      BY <2>1, <3>1, <3>3, BumpCounts
    <3>4. QED BY <3>2, <3>3
  <2>3. ASSUME NEW e \in Events, NEW n \in Nat, NEW a \in Nat,
               n + Added(a, count[e]) <= counted[e]
        PROVE  n + Added(a, count'[e]) <= counted'[e]
    <3>1. count[e] \in Nat /\ counted[e] \in Nat
      BY <1>1, CountsNat
    <3>2. QED BY <2>2, <2>3, <3>1 DEF Added
  <2>4. ASSUME NEW e \in Events PROVE total[e] + Added(lastRaw[e], count'[e]) <= counted'[e]
    BY <1>1, <2>3, CountsNat DEF Books
  <2>5. ASSUME NEW e \in Events, NEW c \in Callers, call[c] = "counts"
        PROVE  total[e] + Added(lastRaw[e], raw[c][e]) + Added(raw[c][e], count'[e])
                   <= counted'[e]
    <3>1. total[e] + Added(lastRaw[e], raw[c][e]) \in Nat /\ raw[c][e] \in Nat
      <4>1. total[e] \in Nat /\ lastRaw[e] \in Nat /\ raw[c][e] \in Nat
        BY <1>1, CountsNat
      <4>2. QED BY <4>1 DEF Added
    <3>2. total[e] + Added(lastRaw[e], raw[c][e]) + Added(raw[c][e], count[e]) <= counted[e]
      BY <1>1, <2>5 DEF Books
    <3>3. QED BY <2>3, <3>1, <3>2
  <2>6. QED BY <2>1, <2>4, <2>5 DEF Books
<1>3. ASSUME NEW s \in Strategies, Program(s) PROVE Books'
  <2>1. /\ UNCHANGED <<total, lastRaw, call, raw, counted>>
        /\ \A e \in Events : count'[e] = 0
    BY <1>3, ZeroCounts DEF Program, sourceVars, histories
  <2>2. ASSUME NEW e \in Events, NEW n \in Nat, NEW a \in Nat,
               n + Added(a, count[e]) <= counted[e]
        PROVE  n + Added(a, 0) <= counted[e]
    <3>1. counted[e] \in Nat /\ count[e] \in Nat
      BY <1>1, CountsNat
    <3>2. QED BY <2>2, <3>1 DEF Added
  <2>3. ASSUME NEW e \in Events PROVE total[e] + Added(lastRaw[e], 0) <= counted[e]
    BY <1>1, <2>2, CountsNat DEF Books
  <2>4. ASSUME NEW e \in Events, NEW c \in Callers, call[c] = "counts"
        PROVE  total[e] + Added(lastRaw[e], raw[c][e]) + Added(raw[c][e], 0) <= counted[e]
    <3>1. total[e] + Added(lastRaw[e], raw[c][e]) \in Nat /\ raw[c][e] \in Nat
      <4>1. total[e] \in Nat /\ lastRaw[e] \in Nat /\ raw[c][e] \in Nat
        BY <1>1, CountsNat
      <4>2. QED BY <4>1 DEF Added
    <3>2. total[e] + Added(lastRaw[e], raw[c][e]) + Added(raw[c][e], count[e]) <= counted[e]
      BY <1>1, <2>4 DEF Books
    <3>3. QED BY <2>2, <3>1, <3>2
  <2>5. QED BY <2>1, <2>3, <2>4 DEF Books
<1>4. ASSUME NEW c \in Callers, Ask(c) \/ AnswerFails(c) PROVE Books'
  <2>1. /\ UNCHANGED <<count, counted, total, lastRaw, raw>>
        /\ \A d \in Callers : call'[d] = "counts" => call[d] = "counts"
    BY <1>1, <1>4 DEF Ask, AnswerFails, kernelVars, histories, bounds, TypeOK
  <2>2. QED BY <1>1, <2>1 DEF Books
<1>5. ASSUME NEW c \in Callers, Answer(c) PROVE Books'
  <2>1. /\ UNCHANGED <<count, counted, total, lastRaw>>
        /\ raw' = [raw EXCEPT ![c] = count]
        /\ \A d \in Callers : call'[d] = "counts" /\ d # c => call[d] = "counts"
    BY <1>1, <1>5 DEF Answer, kernelVars, histories, bounds, TypeOK
  <2>2. raw'[c] = count /\ \A d \in Callers : d # c => raw'[d] = raw[d]
    BY <1>1, <2>1 DEF TypeOK
  <2>3. ASSUME NEW e \in Events
        PROVE  total[e] + Added(lastRaw[e], count[e]) + Added(count[e], count[e]) <= counted[e]
    <3>1. total[e] \in Nat /\ lastRaw[e] \in Nat /\ count[e] \in Nat
      BY <1>1, CountsNat
    <3>2. total[e] + Added(lastRaw[e], count[e]) <= counted[e]
      BY <1>1 DEF Books
    <3>3. QED BY <3>1, <3>2 DEF Added
  <2>4. QED BY <1>1, <2>1, <2>2, <2>3 DEF Books
<1>6. ASSUME NEW c \in Callers, Complete(c) PROVE Books'
  <2>1. /\ UNCHANGED <<count, counted>>
        /\ call[c] # "idle" /\ call' = [call EXCEPT ![c] = "idle"]
    BY <1>6 DEF Complete, kernelVars, histories
  <2>2. \A d \in Callers : call'[d] # "counts"
    BY <1>1, <2>1 DEF TypeOK
  <2>3. ASSUME NEW e \in Events PROVE total'[e] + Added(lastRaw'[e], count[e]) <= counted[e]
    <3>1. CASE call[c] = "counts"
      <4>1. /\ total' = [d \in Events |-> total[d] + Added(lastRaw[d], raw[c][d])]
            /\ lastRaw' = raw[c]
        BY <1>6, <3>1 DEF Complete
      <4>2. QED BY <1>1, <3>1, <4>1 DEF Books
    <3>2. CASE call[c] # "counts"
      BY <1>1, <1>6, <3>2 DEF Complete, Books
    <3>3. QED BY <3>1, <3>2
  <2>4. QED BY <2>1, <2>2, <2>3 DEF Books
<1>7. ASSUME Expire \/ UNCHANGED vars PROVE Books'
  <2>1. UNCHANGED <<count, counted, total, lastRaw, call, raw>>
    BY <1>7 DEF Expire, kernelVars, histories, bounds, vars, sourceVars
  <2>2. QED BY <1>1, <2>1 DEF Books
<1>8. QED BY <1>1, <1>2, <1>3, <1>4, <1>5, <1>6, <1>7 DEF Next

-----------------------------------------------------------------------------
\* Reads are single-flight and every variable has its type, in every reachable
\* state (KernelSource.refresh).
THEOREM CensorTypeCorrect == Spec => []TypeOK
<1>1. Init => TypeOK
  BY CensorInit
<1>2. TypeOK /\ [Next]_vars => TypeOK'
  BY CensorTypeStep
<1>3. QED BY <1>1, <1>2, PTL DEF Spec

LEMMA BooksBalance == Spec => [](TypeOK /\ Books)
<1>1. Init => TypeOK /\ Books
  BY CensorInit
<1>2. TypeOK /\ Books /\ [Next]_vars => TypeOK' /\ Books'
  BY CensorTypeStep, BooksStep
<1>3. QED BY <1>1, <1>2, PTL DEF Spec

\* A report only grows, to no more than there has been.
LEMMA ReportStep ==
    ASSUME TypeOK, Books, TypeOK', UNCHANGED counted,
           NEW c \in Callers, call[c] = "counts", Complete(c)
    PROVE  ExportedMeter!Report
<1>1. total' = [e \in Events |-> total[e] + Added(lastRaw[e], raw[c][e])]
  BY DEF Complete
<1>2. ASSUME NEW e \in Events PROVE total[e] <= total'[e] /\ total'[e] <= counted[e]
  <2>1. /\ total[e] \in Nat /\ counted[e] \in Nat /\ lastRaw[e] \in Nat
        /\ raw[c][e] \in Nat /\ count[e] \in Nat
    BY CountsNat
  <2>2. total[e] + Added(lastRaw[e], raw[c][e]) + Added(raw[c][e], count[e]) <= counted[e]
    BY DEF Books
  <2>3. QED BY <1>1, <2>1, <2>2 DEF Added
<1>3. total' \in [Events -> Nat]
  BY DEF TypeOK, Counts
<1>4. QED BY <1>2, <1>3 DEF ExportedMeter!Report

\* Every step of the source and of the chain is a step of the meter, or none.
LEMMA MeterStep ==
    TypeOK /\ Books /\ TypeOK' /\ [Next]_vars
        => [ExportedMeter!Arrival \/ ExportedMeter!Report]_<<counted, total>>
<1>1. SUFFICES ASSUME TypeOK, Books, TypeOK', [Next]_vars
               PROVE  \/ ExportedMeter!Arrival \/ ExportedMeter!Report
                      \/ UNCHANGED <<counted, total>>
  OBVIOUS
<1>2. ASSUME NEW p \in Packets, Arrive(p) PROVE ExportedMeter!Arrival
  <2>1. counted' = [counted EXCEPT ![KernelEvent(p)] = @ + 1] /\ UNCHANGED total
    BY <1>2 DEF Arrive, Bump, sourceVars
  <2>2. QED BY <2>1, EventsCover DEF ExportedMeter!Arrival
<1>3. ASSUME NEW c \in Callers, Complete(c), call[c] = "counts" PROVE ExportedMeter!Report
  <2>1. UNCHANGED counted
    BY <1>3 DEF Complete, histories
  <2>2. QED BY <1>1, <1>3, <2>1, ReportStep
<1>4. ASSUME NEW c \in Callers, Complete(c), call[c] # "counts"
      PROVE  UNCHANGED <<counted, total>>
  BY <1>4 DEF Complete, histories
<1>5. ASSUME NEW c \in Callers, Ask(c) \/ Answer(c) \/ AnswerFails(c)
      PROVE  UNCHANGED <<counted, total>>
  BY <1>5 DEF Ask, Answer, AnswerFails, histories
<1>6. ASSUME NEW s \in Strategies, Program(s) PROVE UNCHANGED <<counted, total>>
  BY <1>6 DEF Program, sourceVars, histories
<1>7. ASSUME Expire \/ UNCHANGED vars PROVE UNCHANGED <<counted, total>>
  BY <1>7 DEF Expire, vars, sourceVars, histories
<1>8. QED BY <1>1, <1>2, <1>3, <1>4, <1>5, <1>6, <1>7 DEF Next

\* The source implements the meter: what it exports never goes backwards and
\* never reports a packet twice, whatever tables come and go between and during
\* its reads (KernelSource.refresh).
THEOREM SourceImplementsMeter == Spec => NeverOvercounts
<1>1. Init => ExportedMeter!Init
  BY DEF Init, ExportedMeter!Init, Zero
<1>2. TypeOK /\ Books /\ TypeOK' /\ [Next]_vars
          => [ExportedMeter!Arrival \/ ExportedMeter!Report]_<<counted, total>>
  BY MeterStep
<1>3. QED BY <1>1, <1>2, BooksBalance, PTL DEF Spec, NeverOvercounts, ExportedMeter!Spec

-----------------------------------------------------------------------------
\* The classifiers agree, but that the chain takes a short payload for a bare
\* acknowledgement and no SYN-ACK for a connection attempt.
LEMMA ClassifiersAgree ==
    ASSUME NEW p \in Packets
    PROVE  \/ ObserverEvent(p) = KernelEvent(p)
           \/ ObserverEvent(p) = "data" /\ KernelEvent(p) = "ack_only"
           \/ ObserverEvent(p) = "syn" /\ SynAck(p)
<1>1. p.long => p.payload
  BY CensorAssumption
<1>2. CASE "R" \in p.flags
  BY <1>2 DEF ObserverEvent, KernelEvent
<1>3. CASE "R" \notin p.flags /\ "S" \in p.flags
  BY <1>3 DEF ObserverEvent, KernelEvent, SynAck
<1>4. CASE {"R", "S"} \cap p.flags = {} /\ "F" \in p.flags
  BY <1>4 DEF ObserverEvent, KernelEvent
<1>5. CASE {"R", "S", "F"} \cap p.flags = {}
  BY <1>1, <1>5 DEF ObserverEvent, KernelEvent
<1>6. QED BY <1>2, <1>3, <1>4, <1>5

\* A packet keeps the classifier in user space within the chain, observed or not.
LEMMA ArriveWithin ==
    ASSUME TypeOK, ObserverWithinChain, NEW p \in Packets, Arrive(p)
    PROVE  ObserverWithinChain'
<1> DEFINE k == KernelEvent(p)
           o == ObserverEvent(p)
<1>1. /\ k \in Events /\ o \in Events
      /\ \/ o = k
         \/ o = "data" /\ k = "ack_only"
         \/ o = "syn" /\ synAcks' = synAcks + 1
  <2>1. SynAck(p) => synAcks' = synAcks + 1
    BY DEF Arrive
  <2>2. QED BY <2>1, EventsCover, ClassifiersAgree
<1>2. counted' = Bump(counted, k) /\ (observed' = Bump(observed, o) \/ observed' = observed)
  BY DEF Arrive
<1>3. synAcks \in Nat /\ synAcks' \in {synAcks, synAcks + 1}
  BY DEF Arrive, TypeOK
<1> HIDE DEF k, o
<1>4. \A e \in Events : counted[e] \in Nat /\ observed[e] \in Nat
  BY DEF TypeOK, Counts
<1>5. \A e \in Events : counted'[e] = IF e = k THEN counted[e] + 1 ELSE counted[e]
  <2>1. counted \in Counts
    BY DEF TypeOK
  <2>2. QED BY <1>1, <1>2, <2>1, BumpCounts
<1>6. \/ \A e \in Events : observed'[e] = observed[e]
      \/ \A e \in Events : observed'[e] = IF e = o THEN observed[e] + 1 ELSE observed[e]
  <2>1. observed \in Counts
    BY DEF TypeOK
  <2>2. /\ Bump(observed, o)[o] = observed[o] + 1
        /\ \A e \in Events \ {o} : Bump(observed, o)[e] = observed[e]
    BY <1>1, <2>1, BumpCounts
  <2>3. QED BY <1>2, <2>2
<1>7. \A e \in {"rst", "fin", "ack_only"} : observed'[e] <= counted'[e]
  <2>1. TAKE e \in {"rst", "fin", "ack_only"}
  <2>2. e \in Events /\ observed[e] <= counted[e] /\ (e = o => e = k)
    BY <1>1 DEF Events, ObserverWithinChain
  <2>3. QED BY <1>4, <1>5, <1>6, <2>2
<1>8. observed'["syn"] <= counted'["syn"] + synAcks'
  <2>1. "syn" \in Events /\ observed["syn"] <= counted["syn"] + synAcks
    BY DEF Events, ObserverWithinChain
  <2>2. QED BY <1>1, <1>3, <1>4, <1>5, <1>6, <2>1
<1>9. observed'["data"] + observed'["ack_only"] <= counted'["data"] + counted'["ack_only"]
  <2>1. "data" \in Events /\ "ack_only" \in Events
    BY DEF Events
  <2>2. observed["data"] + observed["ack_only"] <= counted["data"] + counted["ack_only"]
    BY DEF ObserverWithinChain
  <2>3. QED BY <1>1, <1>4, <1>5, <1>6, <2>1, <2>2
<1>10. QED BY <1>7, <1>8, <1>9 DEF ObserverWithinChain

\* Whatever is queued, and whether the queue takes it: the classifier in user
\* space has seen no more packets of a kind than the chain has counted, but that
\* the chain takes a short payload for a bare acknowledgement and no SYN-ACK for
\* a connection attempt (censorRules, classify).
THEOREM ClassifierWithinChain == Spec => []ObserverWithinChain
<1>1. Init => ObserverWithinChain
  BY DEF Init, ObserverWithinChain, Zero, Events
<1>2. TypeOK /\ ObserverWithinChain /\ [Next]_vars => ObserverWithinChain'
  <2>1. SUFFICES ASSUME TypeOK, ObserverWithinChain, [Next]_vars PROVE ObserverWithinChain'
    OBVIOUS
  <2>2. CASE \E p \in Packets : Arrive(p)
    BY <2>1, <2>2, ArriveWithin
  <2>3. CASE UNCHANGED <<observed, histories>>
    BY <2>1, <2>3 DEF ObserverWithinChain, histories
  <2>4. (\E p \in Packets : Arrive(p)) \/ UNCHANGED <<observed, histories>>
    BY <2>1 DEF Next, vars, Program, Ask, Answer, AnswerFails, Complete, Expire
  <2>5. QED BY <2>2, <2>3, <2>4
<1>3. QED BY <1>1, <1>2, CensorTypeCorrect, PTL DEF Spec

-----------------------------------------------------------------------------
(***************************************************************************)
(* The selectors of a scope queue exactly the packets its triggers can act *)
(* on, for any set of flags and any strategies.                            *)
(*                                                                         *)
(* canonicalFlags drops every match that a broader one covers; that it     *)
(* drops no packet needs a broadest match among those a packet has.  There *)
(* is one because a strictly broader match has a strictly smaller mask,    *)
(* and masks are finite.                                                   *)
(***************************************************************************)

\* A mask has a size.
LEMMA MaskSizes ==
    ASSUME NEW m \in FlagMatch
    PROVE  IsFiniteSet(m.Mask) /\ Cardinality(m.Mask) \in Nat
<1>1. IsFiniteSet(Flags) /\ m.Mask \in SUBSET Flags
  BY ScopeAssumption DEF FlagMatch
<1>2. IsFiniteSet(m.Mask)
  BY <1>1, FS_Subset
<1>3. QED BY <1>2, FS_CardinalityType

\* A broader match has a smaller mask.
LEMMA BroaderIsSmaller ==
    ASSUME NEW m \in FlagMatch, NEW broader \in FlagMatch, m.Value \subseteq m.Mask,
           Subsumes(broader, m)
    PROVE  Cardinality(broader.Mask) < Cardinality(m.Mask)
<1>1. broader.Mask \in SUBSET m.Mask /\ m.Value \cap broader.Mask = broader.Value
      /\ broader # m
  BY DEF Subsumes
<1>2. broader.Mask # m.Mask
  <2>1. SUFFICES ASSUME broader.Mask = m.Mask PROVE FALSE
    OBVIOUS
  <2>2. broader.Value = m.Value
    BY <1>1, <2>1
  <2>3. QED BY <1>1, <2>1, <2>2 DEF FlagMatch
<1>3. Cardinality(broader.Mask) <= Cardinality(m.Mask)
      /\ Cardinality(broader.Mask) # Cardinality(m.Mask)
  BY <1>1, <1>2, MaskSizes, FS_Subset
<1>4. QED BY <1>3, MaskSizes

\* Among some matches there is one with the smallest mask.
LEMMA BroadestExists ==
    ASSUME NEW T, T \subseteq FlagMatch, T # {}
    PROVE  \E m \in T : \A n \in T : ~ (Cardinality(n.Mask) < Cardinality(m.Mask))
<1> DEFINE sizes == {Cardinality(m.Mask) : m \in T}
           less == OpToRel(<, Nat)
<1>1. sizes \subseteq Nat /\ sizes # {}
  BY MaskSizes
<1>2. IsWellFoundedOn(less, Nat)
  BY NatLessThanWellFounded
<1>3. PICK k \in sizes : \A l \in sizes : ~ (<<l, k>> \in less)
  <2> HIDE DEF sizes, less
  <2>1. QED BY <1>1, <1>2, WFMin
<1>4. \A l \in sizes : ~ (l < k)
  <2>1. TAKE l \in sizes
  <2>2. l \in Nat /\ k \in Nat
    BY <1>1, <1>3
  <2>3. l < k => <<l, k>> \in less
    BY <2>2 DEF OpToRel
  <2>4. QED BY <1>3, <2>3
<1>5. PICK m \in T : k = Cardinality(m.Mask)
  BY <1>3
<1>6. QED BY <1>4, <1>5

\* A packet that some match has, some canonical match has, and conversely.
LEMMA CanonicalKeepsPackets ==
    ASSUME NEW ms, ms \subseteq FlagMatch, \A m \in ms : m.Value \subseteq m.Mask, NEW flags
    PROVE  (\E m \in ms : Matches(m, flags)) <=> \E m \in canonicalFlags(ms) : Matches(m, flags)
<1>1. ASSUME NEW m0 \in ms, Matches(m0, flags)
      PROVE  \E m \in canonicalFlags(ms) : Matches(m, flags)
  <2> DEFINE T == {n \in ms : Matches(n, flags)}
  <2>1. PICK m \in T : \A n \in T : ~ (Cardinality(n.Mask) < Cardinality(m.Mask))
    <3>1. T \subseteq FlagMatch /\ T # {}
      BY <1>1
    <3> HIDE DEF T
    <3>2. QED BY <3>1, BroadestExists
  <2>2. ASSUME NEW broader \in ms, Subsumes(broader, m) PROVE FALSE
    <3>1. Cardinality(broader.Mask) < Cardinality(m.Mask)
      BY <2>1, <2>2, BroaderIsSmaller
    <3>2. Matches(broader, flags)
      <4>1. flags \cap m.Mask = m.Value /\ broader.Mask \subseteq m.Mask
            /\ m.Value \cap broader.Mask = broader.Value
        BY <2>1, <2>2 DEF Matches, Subsumes
      <4>2. flags \cap broader.Mask = broader.Value
        BY <4>1
      <4>3. QED BY <4>2 DEF Matches
    <3>3. QED BY <2>1, <2>2, <3>1, <3>2
  <2>3. m \in canonicalFlags(ms)
    BY <2>1, <2>2 DEF canonicalFlags
  <2>4. QED BY <2>1, <2>3
<1>2. canonicalFlags(ms) \subseteq ms
  BY DEF canonicalFlags
<1>3. QED BY <1>1, <1>2

\* No canonical match repeats another: some packet tells them apart.
LEMMA CanonicalIsMinimal ==
    ASSUME NEW ms, ms \subseteq FlagMatch, \A m \in ms : m.Value \subseteq m.Mask,
           NEW m \in canonicalFlags(ms), NEW n \in canonicalFlags(ms), m # n
    PROVE  \E p \in Packet : Matches(m, p.flags) /\ ~ Matches(n, p.flags)
<1>1. m \in ms /\ n \in ms /\ ~ Subsumes(n, m)
  BY DEF canonicalFlags
<1>2. /\ m.Value \subseteq m.Mask /\ m.Mask \subseteq Flags
      /\ n.Mask \subseteq Flags
  BY <1>1 DEF FlagMatch
<1>3. SUFFICES \E flags \in SUBSET Flags : Matches(m, flags) /\ ~ Matches(n, flags)
  <2>1. ASSUME NEW flags \in SUBSET Flags, Matches(m, flags), ~ Matches(n, flags)
        PROVE  \E p \in Packet : Matches(m, p.flags) /\ ~ Matches(n, p.flags)
    <3>1. [flags |-> flags, other |-> FALSE] \in Packet
      BY DEF Packet
    <3>2. QED BY <2>1, <3>1
  <2>2. QED BY <2>1
<1>4. CASE m.Value \cap n.Mask # n.Value
  <2>1. Matches(m, m.Value) /\ ~ Matches(n, m.Value) /\ m.Value \in SUBSET Flags
    BY <1>2, <1>4 DEF Matches
  <2>2. QED BY <2>1
<1>5. CASE m.Value \cap n.Mask = n.Value
  <2>1. PICK b \in n.Mask : b \notin m.Mask
    BY <1>1, <1>5 DEF Subsumes
  <2>2. (m.Value \cup {b}) \cap m.Mask = m.Value
    BY <1>2, <2>1
  <2>3. (m.Value \cup {b}) \cap n.Mask # n.Value
    BY <1>2, <1>5, <2>1
  <2>4. m.Value \cup {b} \in SUBSET Flags
    BY <1>2, <2>1
  <2>5. QED BY <2>2, <2>3, <2>4 DEF Matches
<1>6. QED BY <1>4, <1>5

-----------------------------------------------------------------------------
\* A trigger that can be expressed fires on the packets its match has.
LEMMA MatchesFires ==
    ASSUME NEW t \in Trigger, Expressible(t), NEW p \in Packet
    PROVE  /\ flagMatchOf(t) \in FlagMatch
           /\ flagMatchOf(t).Value \subseteq flagMatchOf(t).Mask
           /\ Matches(flagMatchOf(t), p.flags) <=> Fires(t, p)
<1>1. t.letters \subseteq Flags /\ t.onFlags /\ t.wildcard \in BOOLEAN /\ p.flags \subseteq Flags
  BY DEF Expressible, Trigger, Packet
<1>2. CASE t.wildcard
  <2>1. flagMatchOf(t) = [Mask |-> t.letters, Value |-> t.letters]
    BY <1>2 DEF flagMatchOf
  <2>2. p.flags \cap t.letters = t.letters <=> t.letters \subseteq p.flags
    OBVIOUS
  <2>3. QED BY <1>1, <1>2, <2>1, <2>2 DEF FlagMatch, Matches, Fires
<1>3. CASE ~ t.wildcard
  <2>1. flagMatchOf(t) = [Mask |-> Flags, Value |-> t.letters]
    BY <1>3 DEF flagMatchOf
  <2>2. p.flags \cap Flags = p.flags
    BY <1>1
  <2>3. QED BY <1>1, <1>3, <2>1, <2>2 DEF FlagMatch, Matches, Fires
<1>4. QED BY <1>1, <1>2, <1>3

\* The selector of a direction is exact, whatever its triggers.
LEMMA SelectorsAreExact == ASSUME NEW ts \in SUBSET Trigger PROVE Exact(selectorOf(ts), ts)
<1>1. CASE \E t \in ts : ~ Expressible(t)
  <2>1. selectorOf(ts) = AnySelector
    BY <1>1 DEF selectorOf
  <2>2. selectorOf(ts).Any /\ selectorOf(ts).Flags = {}
    BY <2>1 DEF AnySelector
  <2>3. QED BY <2>2 DEF Exact, Queued
<1>2. CASE \A t \in ts : Expressible(t)
  <2> DEFINE ms == {flagMatchOf(t) : t \in ts}
  <2>1. selectorOf(ts) = [Any |-> FALSE, Flags |-> canonicalFlags(ms)]
    BY <1>2 DEF selectorOf
  <2>2. selectorOf(ts).Any = FALSE /\ selectorOf(ts).Flags = canonicalFlags(ms)
    BY <2>1
  <2>3. ms \subseteq FlagMatch /\ \A m \in ms : m.Value \subseteq m.Mask
    <3>1. [flags |-> {}, other |-> FALSE] \in Packet
      BY DEF Packet
    <3>2. \A t \in ts : flagMatchOf(t) \in FlagMatch
                        /\ flagMatchOf(t).Value \subseteq flagMatchOf(t).Mask
      BY <1>2, <3>1, MatchesFires
    <3>3. QED BY <3>2
  <2>4. ASSUME NEW p \in Packet
        PROVE  (\E t \in ts : Fires(t, p)) <=> \E m \in ms : Matches(m, p.flags)
    BY <1>2, MatchesFires
  <2>5. ASSUME NEW p \in Packet
        PROVE  (\E m \in ms : Matches(m, p.flags)) <=> Queued(selectorOf(ts), p)
    <3> HIDE DEF ms
    <3>1. (\E m \in ms : Matches(m, p.flags))
              <=> \E m \in canonicalFlags(ms) : Matches(m, p.flags)
      BY <2>3, CanonicalKeepsPackets
    <3>2. QED BY <2>2, <3>1 DEF Queued
  <2>6. ASSUME NEW m \in canonicalFlags(ms), NEW n \in canonicalFlags(ms), m # n
        PROVE  \E p \in Packet : Matches(m, p.flags) /\ ~ Matches(n, p.flags)
    <3> HIDE DEF ms
    <3>1. QED BY <2>3, <2>6, CanonicalIsMinimal
  <2>7. QED
    <3> HIDE DEF ms
    <3>1. QED BY <2>2, <2>4, <2>5, <2>6 DEF Exact
<1>3. QED BY <1>1, <1>2

\* Whatever the flags and the strategies: a packet some trigger can act on is
\* queued, no other packet is unless a trigger cannot be expressed, and no rule
\* is redundant (Of, canonicalFlags, flagMatchOf).
THEOREM ScopesAreExact == Spec => []ScopeExact
<1>1. strategy \in Strategies => ScopeExact
  <2>1. SUFFICES ASSUME strategy \in Strategies PROVE ScopeExact
    OBVIOUS
  <2>2. strategy \in [Outbound : SUBSET Trigger, Inbound : SUBSET Trigger]
    BY <2>1, StrategiesAssumption
  <2>3. /\ Exact(selectorOf(strategy.Outbound), strategy.Outbound)
       /\ Exact(selectorOf(strategy.Inbound), strategy.Inbound)
    BY <2>2, SelectorsAreExact
  <2>4. ASSUME NEW d \in {"Outbound", "Inbound"}
        PROVE  Exact(Of(strategy)[d], strategy[d])
    BY <2>3 DEF Of
  <2>5. QED BY <2>1, <2>4 DEF ScopeExact, ExactStrategies
<1>2. TypeOK => strategy \in Strategies
  BY DEF TypeOK
<1>3. QED BY <1>1, <1>2, CensorTypeCorrect, PTL
=============================================================================
