--------------------------- MODULE FlowtrackProofs ---------------------------
(***************************************************************************)
(* The safety properties of Flowtrack, for any connections, callers and    *)
(* timeouts.                                                               *)
(*                                                                         *)
(* None of them is inductive.  A sweep that its caller has abandoned still *)
(* holds a list of connections, one of which may have ended and come back  *)
(* with an owner: OwnersStand holds because such a list is only ever held  *)
(* while nothing can be assigned (Unassigned), which in turn rests on the  *)
(* slot: the sweep that would allow it has to wait for this one (Slots).   *)
(***************************************************************************)
EXTENDS Flowtrack, TLAPS

\* Who has the slot, and who waits for what.
Slots ==
    /\ worker.pc = "none" => worker = NoWorker
    /\ worker.pc # "none" => worker.by \in Callers /\ slot
    /\ worker.pc \in {"check", "update"} => worker.by = "sweeper"
    /\ worker.todo # {} => worker.by = "sweeper" /\ worker.pc # "none"
    /\ worker.pc = "dump" => worker.todo = {}
    /\ \A k \in Callers : caller[k] = "in" => worker.by = k /\ worker.pc # "none"
    /\ \A k \in Readers : caller[k] \in {"idle", "waiting", "in"}

\* The boundary's program is installed exactly while an activation is at it.
Boundaries ==
    /\ caller["sweeper"] = "idle" => program # Neutral
    /\ caller["sweeper"] # "idle" => program = Neutral

\* The connections a sweep has yet to mark.
Unswept ==
    /\ caller["sweeper"] = "in" /\ worker.pc \in {"check", "update"} =>
           \A c \in Conns : mark[c] = Unmarked => c \in worker.todo
    /\ caller["sweeper"] = "in" /\ worker.pc = "ok" => \A c \in Conns : mark[c] # Unmarked
    /\ BoundaryComplete
    /\ program = Owned => \A c \in Conns : mark[c] # Unmarked

\* While a sweep is at the socket, abandoned or not, nothing can be assigned.
Unassigned ==
    /\ worker.by = "sweeper" => program # Owned /\ caller["sweeper"] # "ok"
    /\ \A c \in worker.todo : mark[c] # Owned

\* A sweep that has marked a connection late is about to notice.
Late ==
    /\ late \in {0, 1}
    /\ late = 1 => /\ worker.by = "sweeper" /\ worker.pc \in {"check", "ok", "failed"}
                   /\ caller["sweeper"] # "in" \/ "sweeper" \in expired

IInv == TypeOK /\ Slots /\ Boundaries /\ Unswept /\ Unassigned /\ Late

\* The constants a proof needs to tell apart.
LEMMA Distinct ==
    /\ "sweeper" \in Callers /\ Readers \subseteq Callers
    /\ \A k \in Callers : k # "none"
    /\ \A k \in Callers : k \notin Readers <=> k = "sweeper"
BY FlowtrackAssumption DEF Callers

LEMMA TimersBounded ==
    /\ Established \in Timers
    /\ \A t \in Timers : t \in Nat \ {0} /\ t <= Established
BY FlowtrackAssumption DEF Timers

\* The initial states satisfy the invariant.
LEMMA FlowtrackInit == Init => IInv
<1>1. SUFFICES ASSUME Init PROVE IInv
  OBVIOUS
<1>2. TypeOK
  <2>1. /\ mark \in [Conns -> {Absent, Unmarked, Neutral, Owned}]
        /\ est \in [Conns -> BOOLEAN] /\ armed \in [Conns -> Timers]
        /\ silent \in [Conns -> 0 .. Established]
        /\ \A c \in Conns : silent[c] < armed[c]
    BY <1>1, TimersBounded, FlowtrackAssumption DEF Init
  <2>2. worker \in Workers
    BY <1>1 DEF Init, NoWorker, Workers
  <2>3. caller \in [Callers -> {"idle", "waiting", "in", "ok", "failed"}]
        /\ expired \subseteq Callers /\ slot \in BOOLEAN /\ late \in Nat
        /\ program \in {Unmarked, Neutral, Owned}
    BY <1>1 DEF Init
  <2>4. QED BY <2>1, <2>2, <2>3 DEF TypeOK, Workers
<1>3. Slots /\ Boundaries /\ Late
  BY <1>1, Distinct DEF Init, Slots, Boundaries, Late, NoWorker, Unmarked, Neutral
<1>4. Unswept /\ Unassigned
  BY <1>1, Distinct DEF Init, Unswept, Unassigned, BoundaryComplete, NoWorker, Absent, Unmarked,
     Owned
<1>5. QED BY <1>2, <1>3, <1>4 DEF IInv

-----------------------------------------------------------------------------
\* Every step keeps the types; a timer that has run out takes its entry away.
LEMMA ForgetTypes ==
    ASSUME TypeOK, NEW gone, NEW ages \in [Conns -> Nat], Forget(gone, ages),
           \A c \in Conns : c \notin gone => ages[c] < armed[c]
    PROVE  TypeOK'
<1>1. mark' \in [Conns -> {Absent, Unmarked, Neutral, Owned}] /\ est' \in [Conns -> BOOLEAN]
  BY DEF Forget, TypeOK
<1>2. armed' \in [Conns -> Timers]
  BY TimersBounded DEF Forget, TypeOK
<1>3. \A c \in Conns : silent'[c] \in 0 .. Established /\ silent'[c] < armed'[c]
  <2>1. TAKE c \in Conns
  <2>2. CASE c \in gone
    BY <2>2, FlowtrackAssumption DEF Forget
  <2>3. CASE c \notin gone
    <3>1. silent'[c] = ages[c] /\ armed'[c] = armed[c]
      BY <2>3 DEF Forget
    <3>2. ages[c] \in Nat /\ ages[c] < armed[c]
      BY <2>3
    <3>3. armed[c] \in Nat /\ armed[c] <= Established
      BY TimersBounded DEF TypeOK
    <3>4. QED BY <3>1, <3>2, <3>3, FlowtrackAssumption
  <2>4. QED BY <2>2, <2>3
<1>4. silent' \in [Conns -> 0 .. Established]
  <2>1. silent' = [c \in Conns |-> silent'[c]]
    BY DEF Forget
  <2>2. QED BY <1>3, <2>1
<1>5. UNCHANGED <<program, callVars, slot, worker, late>>
  BY DEF Forget
<1>6. QED BY <1>1, <1>2, <1>3, <1>4, <1>5 DEF TypeOK, callVars

\* A packet, and what leaves the connections alone.
LEMMA FlowtrackTypeStep == IInv /\ [Next]_vars => TypeOK'
<1>1. SUFFICES ASSUME IInv, [Next]_vars PROVE TypeOK'
  OBVIOUS
<1>2. TypeOK /\ Slots /\ Boundaries
  BY <1>1 DEF IInv
<1>3. ASSUME NEW c \in Conns, Syn(c) PROVE TypeOK'
  BY <1>2, <1>3 DEF Syn, TypeOK, callVars
<1>4. ASSUME NEW c \in Conns, NEW timer \in Timers, Packet(c, timer) PROVE TypeOK'
  <2>1. armed' \in [Conns -> Timers] /\ est' \in [Conns -> BOOLEAN]
    BY <1>2, <1>4 DEF Packet, TypeOK
  <2>2. silent' = [silent EXCEPT ![c] = 0] /\ armed' = [armed EXCEPT ![c] = timer]
    BY <1>4 DEF Packet
  <2>3. 0 < timer /\ 0 \in 0 .. Established
    BY TimersBounded, FlowtrackAssumption
  <2>4. silent' \in [Conns -> 0 .. Established] /\ \A d \in Conns : silent'[d] < armed'[d]
    BY <1>2, <2>2, <2>3 DEF TypeOK
  <2>5. UNCHANGED <<mark, program, callVars, slot, worker, late>>
    BY <1>4 DEF Packet
  <2>6. QED BY <1>2, <2>1, <2>4, <2>5 DEF TypeOK, callVars
<1>5. ASSUME NEW c \in Conns, FlowEnd(c) PROVE TypeOK'
  <2>1. silent \in [Conns -> Nat] /\ \A d \in Conns : silent[d] < armed[d]
    <3>1. silent \in [Conns -> 0 .. Established]
      BY <1>2 DEF TypeOK
    <3>2. QED BY <1>2, <3>1 DEF TypeOK
  <2>2. Forget({c}, silent)
    BY <1>5 DEF FlowEnd
  <2>3. QED BY <1>2, <2>1, <2>2, ForgetTypes
<1>6. ASSUME Tick PROVE TypeOK'
  <2> DEFINE ages == [c \in Conns |-> IF est[c] THEN silent[c] + 1 ELSE 0]
             gone == {c \in Conns : est[c] /\ ages[c] >= armed[c]}
  <2>1. \A c \in Conns : silent[c] \in Nat /\ armed[c] \in Nat \ {0}
    <3>1. silent \in [Conns -> 0 .. Established] /\ armed \in [Conns -> Timers]
      BY <1>2 DEF TypeOK
    <3>2. QED BY <3>1, TimersBounded
  <2>2. ages \in [Conns -> Nat] /\ \A c \in Conns : ages[c] \in Nat
    BY <2>1
  <2>3. \A c \in Conns : c \notin gone => ages[c] < armed[c]
    BY <2>1, <2>2
  <2>4. Forget(gone, ages)
    BY <1>6 DEF Tick
  <2> HIDE DEF ages, gone
  <2>5. QED BY <1>2, <2>2, <2>3, <2>4, ForgetTypes
<1>7. ASSUME NEW k \in Callers, Call(k) \/ Expire(k) \/ Leave(k) PROVE TypeOK'
  BY <1>2, <1>7 DEF Call, Expire, Leave, Ends, TypeOK, flowVars
<1>8. ASSUME NEW k \in Callers, Acquire(k) PROVE TypeOK'
  <2>1. worker' \in Workers
    BY <1>8 DEF Acquire, Workers
  <2>2. QED BY <1>2, <1>8, <2>1 DEF Acquire, TypeOK, flowVars
<1>9. ASSUME Activate \/ Flip \/ Deactivate PROVE TypeOK'
  <2>1. caller["sweeper"] = "idle" => program # Neutral
    BY <1>2 DEF Boundaries
  <2>2. CASE Activate
    BY <1>2, <2>1, <2>2 DEF Activate, TypeOK, flowVars
  <2>3. CASE Flip
    BY <1>2, <2>3 DEF Flip, TypeOK, flowVars
  <2>4. CASE Deactivate
    BY <1>2, <2>4 DEF Deactivate, TypeOK, flowVars, callVars
  <2>5. QED BY <1>9, <2>2, <2>3, <2>4
<1>10. ASSUME NEW w, Worker(w), late' \in Nat,
              w \in Workers
       PROVE  TypeOK'
  BY <1>2, <1>10 DEF Worker, Workers, TypeOK, flowVars, callVars
<1>11. ASSUME Dump \/ SweepDumps \/ DumpFails \/ SocketCloses \/ SweepChecks \/ UpdateFails
       PROVE  TypeOK'
  <2>1. /\ \A s \in {"ok", "failed", "update"} : [worker EXCEPT !.pc = s] \in Workers
        /\ \A todo \in SUBSET Conns :
               [worker EXCEPT !.pc = "check", !.todo = todo] \in Workers
        /\ [worker EXCEPT !.closed = TRUE] \in Workers
    BY <1>2 DEF TypeOK, Workers
  <2>2. late \in Nat
    BY <1>2 DEF TypeOK
  <2>3. CASE Dump
    BY <1>10, <2>1, <2>2, <2>3 DEF Dump
  <2>4. CASE SweepDumps
    BY <1>10, <2>1, <2>2, <2>4 DEF SweepDumps
  <2>5. CASE DumpFails
    BY <1>10, <2>1, <2>2, <2>5 DEF DumpFails
  <2>6. CASE SocketCloses
    BY <1>10, <2>1, <2>2, <2>6 DEF SocketCloses
  <2>7. CASE SweepChecks
    BY <1>10, <2>1, <2>2, <2>7 DEF SweepChecks
  <2>8. CASE UpdateFails
    BY <1>10, <2>1, <2>2, <2>8 DEF UpdateFails
  <2>9. QED BY <1>11, <2>3, <2>4, <2>5, <2>6, <2>7, <2>8
<1>12. ASSUME NEW c \in Conns, SweepUpdates(c) PROVE TypeOK'
  <2>1. [worker EXCEPT !.pc = "check", !.todo = @ \ {c}] \in Workers
    BY <1>2 DEF TypeOK, Workers
  <2>2. worker' \in Workers /\ late' \in Nat
    BY <1>2, <1>12, <2>1 DEF SweepUpdates, TypeOK
  <2>3. mark' \in [Conns -> {Absent, Unmarked, Neutral, Owned}]
    BY <1>2, <1>12 DEF SweepUpdates, TypeOK
  <2>4. UNCHANGED <<est, armed, silent, program, callVars, slot>>
    BY <1>12 DEF SweepUpdates
  <2>5. QED BY <1>2, <2>2, <2>3, <2>4 DEF TypeOK, Workers, callVars
<1>13. ASSUME WorkerEnds PROVE TypeOK'
  <2>1. worker.by \in Callers
    BY <1>2, <1>13 DEF WorkerEnds, Slots
  <2>2. caller' \in [Callers -> {"idle", "waiting", "in", "ok", "failed"}]
    BY <1>2, <1>13, <2>1 DEF WorkerEnds, Ends, TypeOK
  <2>3. expired' \subseteq Callers /\ slot' \in BOOLEAN /\ late' \in Nat
    BY <1>2, <1>13 DEF WorkerEnds, TypeOK
  <2>4. worker' \in Workers
    BY <1>13 DEF WorkerEnds, NoWorker, Workers
  <2>5. UNCHANGED <<flowVars, program>>
    BY <1>13 DEF WorkerEnds
  <2>6. QED BY <1>2, <2>2, <2>3, <2>4, <2>5 DEF TypeOK, Workers, flowVars
<1>14. ASSUME UNCHANGED vars PROVE TypeOK'
  BY <1>2, <1>14 DEF vars, flowVars, callVars, TypeOK
<1>15. QED BY <1>1, <1>3, <1>4, <1>5, <1>6, <1>7, <1>8, <1>9, <1>11, <1>12, <1>13, <1>14 DEF Next

-----------------------------------------------------------------------------
Parts == Slots /\ Boundaries /\ Unswept /\ Unassigned /\ Late

\* The connections' own steps: an entry stays, goes, or gets the program's mark.
LEMMA TrafficMarks ==
    ASSUME TypeOK,
           \/ \E c \in Conns : Syn(c) \/ FlowEnd(c)
           \/ \E c \in Conns, timer \in Timers : Packet(c, timer)
           \/ Tick
    PROVE  /\ UNCHANGED <<program, caller, expired, slot, worker, late>>
           /\ \A c \in Conns :
                  \/ mark'[c] = mark[c] \/ mark'[c] = Absent
                  \/ mark[c] \in {Absent, Unmarked} /\ mark'[c] = program
<1>1. ASSUME NEW c \in Conns, Syn(c)
      PROVE  /\ UNCHANGED <<program, caller, expired, slot, worker, late>>
             /\ mark' = [mark EXCEPT ![c] = program] /\ mark[c] \in {Absent, Unmarked}
  BY <1>1 DEF Syn, callVars
<1>2. ASSUME NEW gone, NEW ages, Forget(gone, ages)
      PROVE  /\ UNCHANGED <<program, caller, expired, slot, worker, late>>
             /\ mark' = [c \in Conns |-> IF c \in gone THEN Absent ELSE mark[c]]
  BY <1>2 DEF Forget, callVars
<1>3. ASSUME NEW c \in Conns, NEW timer \in Timers, Packet(c, timer)
      PROVE  UNCHANGED <<program, caller, expired, slot, worker, late, mark>>
  BY <1>3 DEF Packet, callVars
<1>4. mark \in [Conns -> {Absent, Unmarked, Neutral, Owned}]
  BY DEF TypeOK
<1>5. ASSUME NEW c \in Conns, FlowEnd(c) PROVE \E gone, ages : Forget(gone, ages)
  BY <1>5 DEF FlowEnd
<1>6. ASSUME Tick PROVE \E gone, ages : Forget(gone, ages)
  BY <1>6 DEF Tick
<1>7. QED BY <1>1, <1>2, <1>3, <1>4, <1>5, <1>6

\* Such a step keeps every part: the program assigns nothing that a part forbids.
LEMMA TrafficParts ==
    ASSUME IInv,
           UNCHANGED <<program, caller, expired, slot, worker, late>>,
           \A c \in Conns :
               \/ mark'[c] = mark[c] \/ mark'[c] = Absent
               \/ mark[c] \in {Absent, Unmarked} /\ mark'[c] = program
    PROVE  Parts'
<1> USE DEF Absent, Unmarked, Neutral, Owned
<1>1. Slots' /\ Boundaries' /\ Late'
  BY DEF IInv, Slots, Boundaries, Late
<1>2. program \in {Neutral, Owned} => \A c \in Conns : mark'[c] = Unmarked => mark[c] = Unmarked
  OBVIOUS
<1>3. Unswept'
  <2>1. caller["sweeper"] # "idle" => program = Neutral
    BY DEF IInv, Boundaries
  <2>2. program \in {Unmarked, Neutral, Owned}
    BY DEF IInv, TypeOK
  <2>3. QED BY <1>2, <2>1, <2>2 DEF IInv, Unswept, BoundaryComplete
<1>4. Unassigned'
  <2>1. worker.todo \subseteq Conns
    BY DEF IInv, TypeOK, Workers
  <2>2. ASSUME NEW c \in worker.todo PROVE mark'[c] # Owned
    BY <2>1, <2>2 DEF IInv, Slots, Unassigned
  <2>3. QED BY <2>2 DEF IInv, Unassigned
<1>5. QED BY <1>1, <1>3, <1>4 DEF Parts

\* The steps of the callers.
LEMMA CallerParts ==
    ASSUME IInv, NEW k \in Callers, Call(k) \/ Expire(k) \/ Leave(k) \/ Acquire(k)
    PROVE  Parts'
<1> USE Distinct DEF Callers
<1>1. CASE Call(k)
  <2>1. /\ UNCHANGED <<mark, program, expired, slot, worker, late>>
        /\ k \in Readers /\ caller' = [caller EXCEPT ![k] = "waiting"] /\ caller[k] = "idle"
    BY <1>1 DEF Call, flowVars
  <2>2. /\ caller'["sweeper"] = caller["sweeper"]
        /\ \A j \in Callers : caller'[j] = IF j = k THEN "waiting" ELSE caller[j]
    BY <2>1 DEF IInv, TypeOK
  <2>3. QED BY <2>1, <2>2 DEF Parts, IInv, Slots, Boundaries, Unswept, Unassigned, Late,
              BoundaryComplete
<1>2. CASE Expire(k)
  <2>1. /\ UNCHANGED <<mark, program, caller, slot, worker, late>>
        /\ expired' = expired \cup {k}
    BY <1>2 DEF Expire, flowVars
  <2>2. QED BY <2>1 DEF Parts, IInv, Slots, Boundaries, Unswept, Unassigned, Late,
              BoundaryComplete
<1>3. CASE Leave(k)
  <2>1. /\ UNCHANGED <<mark, program, slot, worker, late>>
        /\ expired' = expired \ {k} /\ caller[k] \in {"waiting", "in"}
        /\ caller' = [caller EXCEPT ![k] = IF k \in Readers THEN "idle" ELSE "failed"]
    BY <1>3 DEF Leave, Ends, flowVars
  <2>2. \A j \in Callers : caller'[j] =
            IF j = k THEN (IF k \in Readers THEN "idle" ELSE "failed") ELSE caller[j]
    BY <2>1 DEF IInv, TypeOK
  <2>3. /\ caller'["sweeper"] = "idle" <=> caller["sweeper"] = "idle"
        /\ caller'["sweeper"] = "in" => caller["sweeper"] = "in" /\ k # "sweeper"
        /\ caller'["sweeper"] = "ok" => caller["sweeper"] = "ok"
        /\ "sweeper" \in expired /\ "sweeper" \notin expired' => caller'["sweeper"] # "in"
    BY <2>1, <2>2
  <2>4. Slots' /\ Boundaries' /\ Late'
    BY <2>1, <2>2, <2>3 DEF IInv, Slots, Boundaries, Late
  <2>5. Unswept' /\ Unassigned'
    BY <2>1, <2>3 DEF IInv, Unswept, Unassigned, BoundaryComplete
  <2>6. QED BY <2>4, <2>5 DEF Parts
<1>4. CASE Acquire(k)
  <2>1. /\ UNCHANGED <<mark, program, expired, late>>
        /\ ~ slot /\ slot' = TRUE /\ caller[k] = "waiting"
        /\ caller' = [caller EXCEPT ![k] = "in"]
        /\ worker' = [by |-> k, pc |-> "dump", todo |-> {}, closed |-> FALSE]
    BY <1>4 DEF Acquire, flowVars
  <2>2. \A j \in Callers : caller'[j] = IF j = k THEN "in" ELSE caller[j]
    BY <2>1 DEF IInv, TypeOK
  <2>3. worker = NoWorker /\ \A j \in Callers : caller[j] # "in"
    BY <2>1 DEF IInv, Slots
  <2>4. late = 0
    BY <2>3 DEF IInv, Late, NoWorker
  <2>5. worker'.by = k /\ worker'.pc = "dump" /\ worker'.todo = {}
    BY <2>1
  <2>6. Slots' /\ Boundaries' /\ Late'
    BY <2>1, <2>2, <2>3, <2>4, <2>5 DEF IInv, Slots, Boundaries, Late
  <2>7. Unswept' /\ Unassigned'
    BY <2>1, <2>2, <2>5 DEF IInv, Boundaries, Unswept, Unassigned, BoundaryComplete, Neutral, Owned
  <2>8. QED BY <2>6, <2>7 DEF Parts
<1>5. QED BY <1>1, <1>2, <1>3, <1>4

\* The steps of an activation around its sweep.
LEMMA ActivationParts ==
    ASSUME IInv, Activate \/ Flip \/ Deactivate
    PROVE  Parts'
<1> USE Distinct DEF Unmarked, Neutral, Owned
<1>1. CASE Activate
  <2>1. /\ UNCHANGED <<mark, expired, slot, worker, late>>
        /\ caller["sweeper"] = "idle" /\ caller' = [caller EXCEPT !["sweeper"] = "waiting"]
        /\ program' = Neutral
    BY <1>1 DEF Activate, flowVars
  <2>2. \A j \in Callers : caller'[j] = IF j = "sweeper" THEN "waiting" ELSE caller[j]
    BY <2>1 DEF IInv, TypeOK
  <2>3. Slots' /\ Boundaries' /\ Late'
    BY <2>1, <2>2 DEF IInv, Slots, Boundaries, Late
  <2>4. Unswept' /\ Unassigned'
    BY <2>1, <2>2 DEF IInv, Unswept, Unassigned, BoundaryComplete
  <2>5. QED BY <2>3, <2>4 DEF Parts
<1>2. CASE Flip
  <2>1. /\ UNCHANGED <<mark, expired, slot, worker, late>>
        /\ caller["sweeper"] \in {"ok", "failed"}
        /\ caller' = [caller EXCEPT !["sweeper"] = "idle"]
        /\ program' = Unmarked \/ (caller["sweeper"] = "ok" /\ program' = Owned)
    BY <1>2 DEF Flip, flowVars
  <2>2. \A j \in Callers : caller'[j] = IF j = "sweeper" THEN "idle" ELSE caller[j]
    BY <2>1 DEF IInv, TypeOK
  <2>3. Slots' /\ Boundaries' /\ Late'
    BY <2>1, <2>2 DEF IInv, Slots, Boundaries, Late
  <2>4. Unswept' /\ Unassigned'
    BY <2>1, <2>2 DEF IInv, Unswept, Unassigned, BoundaryComplete
  <2>5. QED BY <2>3, <2>4 DEF Parts
<1>3. CASE Deactivate
  <2>1. /\ UNCHANGED <<mark, caller, expired, slot, worker, late>>
        /\ caller["sweeper"] = "idle" /\ program' = Unmarked
    BY <1>3 DEF Deactivate, flowVars, callVars
  <2>2. QED BY <2>1 DEF Parts, IInv, Slots, Boundaries, Unswept, Unassigned, Late,
              BoundaryComplete
<1>4. QED BY <1>1, <1>2, <1>3

\* The steps of the goroutine that mark nothing.
LEMMA WorkerParts ==
    ASSUME IInv, Dump \/ SweepDumps \/ DumpFails \/ SocketCloses \/ SweepChecks \/ UpdateFails
    PROVE  Parts'
<1> USE Distinct
<1>1. worker \in Workers /\ worker.todo \subseteq Conns
  BY DEF IInv, TypeOK, Workers
<1>2. ASSUME NEW w, Worker(w)
      PROVE  UNCHANGED <<mark, program, caller, expired, slot>> /\ worker' = w
  BY <1>2 DEF Worker, flowVars, callVars
<1>3. CASE Dump \/ DumpFails \/ UpdateFails
  <2>1. PICK s \in {"ok", "failed"} :
            /\ Worker([worker EXCEPT !.pc = s]) /\ UNCHANGED late
            /\ worker.pc \in {"dump", "update"}
            /\ s = "ok" => worker.by \in Readers
    BY <1>3 DEF Dump, DumpFails, UpdateFails
  <2>2. /\ UNCHANGED <<mark, program, caller, expired, slot, late>>
        /\ worker'.by = worker.by /\ worker'.pc = s /\ worker'.todo = worker.todo
    BY <1>1, <1>2, <2>1 DEF Workers
  <2>3. caller["sweeper"] = "in" => worker.by = "sweeper"
    BY DEF IInv, Slots
  <2>4. QED BY <2>1, <2>2, <2>3 DEF Parts, IInv, Slots, Boundaries, Unswept, Unassigned, Late,
              BoundaryComplete
<1>4. CASE SweepDumps
  <2>1. /\ worker.pc = "dump" /\ worker.by = "sweeper" /\ caller["sweeper"] = "in"
        /\ Worker([worker EXCEPT !.pc = "check", !.todo = {c \in Conns : mark[c] = Unmarked}])
        /\ UNCHANGED late
    BY <1>4 DEF SweepDumps, Ended
  <2>2. /\ UNCHANGED <<mark, program, caller, expired, slot, late>>
        /\ worker'.by = "sweeper" /\ worker'.pc = "check"
        /\ worker'.todo = {c \in Conns : mark[c] = Unmarked}
    <3>1. ASSUME NEW todo
          PROVE  LET w == [worker EXCEPT !.pc = "check", !.todo = todo]
                 IN  w.by = worker.by /\ w.pc = "check" /\ w.todo = todo
      BY <1>1 DEF Workers
    <3>2. worker' = [worker EXCEPT !.pc = "check", !.todo = {c \in Conns : mark[c] = Unmarked}]
          /\ UNCHANGED <<mark, program, caller, expired, slot, late>>
      BY <1>2, <2>1
    <3>3. QED BY <2>1, <3>1, <3>2
  <2>3. Slots' /\ Boundaries' /\ Late'
    BY <2>1, <2>2 DEF IInv, Slots, Boundaries, Late
  <2>4. Unswept' /\ Unassigned'
    BY <2>1, <2>2 DEF IInv, Unswept, Unassigned, BoundaryComplete, Unmarked, Owned
  <2>5. QED BY <2>3, <2>4 DEF Parts
<1>5. CASE SocketCloses
  <2>1. Worker([worker EXCEPT !.closed = TRUE]) /\ UNCHANGED late /\ worker.pc # "none"
    BY <1>5 DEF SocketCloses
  <2>2. /\ UNCHANGED <<mark, program, caller, expired, slot, late>>
        /\ worker'.by = worker.by /\ worker'.pc = worker.pc /\ worker'.todo = worker.todo
    BY <1>1, <1>2, <2>1 DEF Workers
  <2>3. QED BY <2>1, <2>2 DEF Parts, IInv, Slots, Boundaries, Unswept, Unassigned, Late,
              BoundaryComplete
<1>6. CASE SweepChecks
  <2>1. PICK s : /\ s = IF worker.todo = {} THEN "ok" ELSE IF Ended THEN "failed" ELSE "update"
                 /\ Worker([worker EXCEPT !.pc = s]) /\ UNCHANGED late /\ worker.pc = "check"
    BY <1>6 DEF SweepChecks
  <2>2. /\ UNCHANGED <<mark, program, caller, expired, slot, late>>
        /\ worker'.by = worker.by /\ worker'.pc = s /\ worker'.todo = worker.todo
    BY <1>1, <1>2, <2>1 DEF Workers
  <2>3. worker.by = "sweeper"
    BY <2>1 DEF IInv, Slots
  <2>4. Ended <=> caller["sweeper"] # "in" \/ "sweeper" \in expired
    BY <2>3 DEF Ended
  <2>5. Slots' /\ Boundaries' /\ Late'
    BY <2>1, <2>2, <2>3, <2>4 DEF IInv, Slots, Boundaries, Late
  <2>6. Unswept' /\ Unassigned'
    BY <2>1, <2>2, <2>3 DEF IInv, Unswept, Unassigned, BoundaryComplete
  <2>7. QED BY <2>5, <2>6 DEF Parts
<1>7. QED BY <1>3, <1>4, <1>5, <1>6

\* A sweep marks one connection, which has no owner.
LEMMA UpdateParts ==
    ASSUME IInv, NEW c \in Conns, SweepUpdates(c)
    PROVE  /\ Parts'
           /\ mark[c] # Owned /\ mark' = [mark EXCEPT ![c] = Neutral]
<1> USE Distinct
<1>1. worker \in Workers /\ worker.todo \subseteq Conns
  BY DEF IInv, TypeOK, Workers
<1>2. /\ UNCHANGED <<program, caller, expired, slot>>
      /\ worker.pc = "update" /\ c \in worker.todo
      /\ mark' = [mark EXCEPT ![c] = Neutral]
      /\ late' = IF Ended THEN late + 1 ELSE late
      /\ worker' = [worker EXCEPT !.pc = "check", !.todo = @ \ {c}]
  BY DEF SweepUpdates, callVars
<1>3. worker'.by = worker.by /\ worker'.pc = "check" /\ worker'.todo = worker.todo \ {c}
  BY <1>1, <1>2 DEF Workers
<1>4. worker.by = "sweeper" /\ late = 0
  BY <1>2 DEF IInv, Slots, Late
<1>5. Ended <=> caller["sweeper"] # "in" \/ "sweeper" \in expired
  BY <1>4 DEF Ended
<1>6. \A d \in Conns : mark'[d] = IF d = c THEN Neutral ELSE mark[d]
  BY <1>2 DEF IInv, TypeOK
<1>7. Slots' /\ Boundaries' /\ Late'
  BY <1>2, <1>3, <1>4, <1>5 DEF IInv, Slots, Boundaries, Late
<1>8. Unswept' /\ Unassigned'
  BY <1>1, <1>2, <1>3, <1>6 DEF IInv, Unswept, Unassigned, BoundaryComplete, Unmarked, Neutral, Owned
<1>9. mark[c] # Owned
  BY <1>2 DEF IInv, Unassigned
<1>10. QED BY <1>2, <1>7, <1>8, <1>9 DEF Parts

\* The goroutine ends.
LEMMA EndParts == ASSUME IInv, WorkerEnds PROVE Parts'
<1> USE Distinct
<1>1. worker.by \in Callers /\ worker.pc \in {"ok", "failed"}
  BY DEF IInv, Slots, WorkerEnds
<1>2. /\ UNCHANGED <<mark, program>>
      /\ slot' = FALSE /\ worker' = NoWorker /\ late' = 0
      /\ caller' = IF caller[worker.by] = "in"
                   THEN [caller EXCEPT ![worker.by] =
                            IF worker.by \in Readers THEN "idle" ELSE worker.pc]
                   ELSE caller
  BY DEF WorkerEnds, Ends, flowVars
<1>3. \A j \in Callers : caller'[j] =
          IF j = worker.by /\ caller[j] = "in"
          THEN (IF j \in Readers THEN "idle" ELSE worker.pc) ELSE caller[j]
  BY <1>1, <1>2 DEF IInv, TypeOK
<1>4. \A j \in Callers : caller'[j] # "in"
  BY <1>1, <1>3 DEF IInv, Slots
<1>5. /\ caller'["sweeper"] = "idle" <=> caller["sweeper"] = "idle"
      /\ caller'["sweeper"] = "ok" =>
             \/ caller["sweeper"] = "ok"
             \/ caller["sweeper"] = "in" /\ worker.pc = "ok"
  <2>1. caller'["sweeper"] = IF "sweeper" = worker.by /\ caller["sweeper"] = "in"
                             THEN worker.pc ELSE caller["sweeper"]
    BY <1>3, Distinct
  <2>2. QED BY <1>1, <2>1
<1>6. /\ worker'.pc = "none" /\ worker'.todo = {} /\ worker' = NoWorker
      /\ worker'.by # "sweeper"
  BY <1>2 DEF NoWorker
<1>7. Slots' /\ Boundaries' /\ Late'
  BY <1>2, <1>3, <1>4, <1>5, <1>6 DEF IInv, Slots, Boundaries, Late
<1>8. Unswept' /\ Unassigned'
  BY <1>2, <1>4, <1>5, <1>6 DEF IInv, Unswept, Unassigned, BoundaryComplete
<1>9. QED BY <1>7, <1>8 DEF Parts

-----------------------------------------------------------------------------
\* Every step keeps the invariant.
LEMMA FlowtrackStep == IInv /\ [Next]_vars => IInv'
<1>1. SUFFICES ASSUME IInv, [Next]_vars PROVE Parts'
  BY FlowtrackTypeStep DEF IInv, Parts
<1>2. ASSUME \/ \E c \in Conns : Syn(c) \/ FlowEnd(c)
             \/ \E c \in Conns, timer \in Timers : Packet(c, timer)
             \/ Tick
      PROVE  Parts'
  BY <1>1, <1>2, TrafficMarks, TrafficParts DEF IInv
<1>3. ASSUME NEW k \in Callers, Call(k) \/ Expire(k) \/ Leave(k) \/ Acquire(k)
      PROVE  Parts'
  BY <1>1, <1>3, CallerParts
<1>4. ASSUME Activate \/ Flip \/ Deactivate PROVE Parts'
  BY <1>1, <1>4, ActivationParts
<1>5. ASSUME Dump \/ SweepDumps \/ DumpFails \/ SocketCloses \/ SweepChecks \/ UpdateFails
      PROVE  Parts'
  BY <1>1, <1>5, WorkerParts
<1>6. ASSUME NEW c \in Conns, SweepUpdates(c) PROVE Parts'
  BY <1>1, <1>6, UpdateParts
<1>7. ASSUME WorkerEnds PROVE Parts'
  BY <1>1, <1>7, EndParts
<1>8. ASSUME UNCHANGED vars PROVE Parts'
  BY <1>1, <1>8 DEF vars, flowVars, callVars, Parts, IInv, Slots, Boundaries,
     Unswept, Unassigned, Late, BoundaryComplete
<1>9. QED BY <1>1, <1>2, <1>3, <1>4, <1>5, <1>6, <1>7, <1>8 DEF Next

LEMMA FlowtrackInvariant == Spec => []IInv
<1>1. QED BY FlowtrackInit, FlowtrackStep, PTL DEF Spec

\* One netlink operation at a time, however many callers give up (dumpSlot).
THEOREM OneOperationAtATime == Spec => []OneOperation
<1>1. ASSUME IInv PROVE OneOperation
  <2>1. worker.pc = "none" => worker = NoWorker
    BY <1>1 DEF IInv, Slots
  <2>2. worker.pc # "none" => slot
    BY <1>1 DEF IInv, Slots
  <2>3. QED BY <2>1, <2>2 DEF OneOperation
<1>2. QED BY <1>1, FlowtrackInvariant, PTL

\* A successful sweep leaves no connection that could still be assigned
\* (Neutralize, activateLocked).
THEOREM BoundaryIsComplete == Spec => []BoundaryComplete
<1>1. IInv => BoundaryComplete
  BY DEF IInv, Unswept
<1>2. QED BY <1>1, FlowtrackInvariant, PTL

\* While the table assigns, every connection has an owner or the neutral mark,
\* and no sweep is left at the socket (activateLocked, updateNeutral).
THEOREM AssignmentFollowsSweeps == Spec => []AssignsAfterSweep
<1>1. IInv => AssignsAfterSweep
  BY DEF IInv, Unswept, Unassigned, AssignsAfterSweep
<1>2. QED BY <1>1, FlowtrackInvariant, PTL

\* An abandoned sweep marks at most one more connection
\* (neutralizeNetlinkTransaction).
THEOREM LateSweepsStop == Spec => []LateSweepMarksOne
<1>1. IInv => LateSweepMarksOne
  BY DEF IInv, Late, LateSweepMarksOne
<1>2. QED BY <1>1, FlowtrackInvariant, PTL

\* No flow that had a packet within IdleAfter is taken for an idle one, for any
\* three timeouts (liveness.live, newLiveness).
THEOREM RecentFlowsCount == Spec => []LiveFlowsCount
<1>1. ASSUME IInv, NEW c \in Conns, silent[c] < IdleAfter PROVE live(c)
  <2>1. armed[c] \in Timers /\ silent[c] \in 0 .. Established
    BY <1>1 DEF IInv, TypeOK
  <2>2. CASE armed[c] = Established
    BY <1>1, <2>1, <2>2, FlowtrackAssumption DEF live
  <2>3. CASE armed[c] \in {MaxRetrans, Unacknowledged}
    BY <1>1, <2>1, <2>3, FlowtrackAssumption DEF live, ShortTimer
  <2>4. QED BY <2>1, <2>2, <2>3 DEF Timers
<1>2. IInv => LiveFlowsCount
  BY <1>1 DEF LiveFlowsCount
<1>3. QED BY <1>2, FlowtrackInvariant, PTL

\* No step takes a connection from its owner.
LEMMA OwnerStep ==
    ASSUME IInv, [Next]_vars, NEW c \in Conns, mark[c] = Owned
    PROVE  mark'[c] \in {Owned, Absent}
<1> USE DEF Absent, Unmarked, Neutral, Owned
<1>1. ASSUME \/ \E d \in Conns : Syn(d) \/ FlowEnd(d)
             \/ \E d \in Conns, timer \in Timers : Packet(d, timer)
             \/ Tick
      PROVE  mark'[c] \in {Owned, Absent}
  <2>1. \/ mark'[c] = mark[c] \/ mark'[c] = Absent
        \/ mark[c] \in {Absent, Unmarked} /\ mark'[c] = program
    BY <1>1, TrafficMarks DEF IInv
  <2>2. QED BY <2>1
<1>2. ASSUME NEW d \in Conns, SweepUpdates(d) PROVE mark'[c] \in {Owned, Absent}
  <2>1. mark[d] # Owned /\ mark' = [mark EXCEPT ![d] = Neutral]
    BY <1>2, UpdateParts
  <2>2. QED BY <2>1 DEF IInv, TypeOK
<1>3. ASSUME NEW k \in Callers, Call(k) \/ Expire(k) \/ Leave(k) \/ Acquire(k)
      PROVE  UNCHANGED mark
  BY <1>3 DEF Call, Expire, Leave, Acquire, flowVars
<1>4. ASSUME Activate \/ Flip \/ Deactivate PROVE UNCHANGED mark
  BY <1>4 DEF Activate, Flip, Deactivate, flowVars
<1>5. ASSUME Dump \/ SweepDumps \/ DumpFails \/ SocketCloses \/ SweepChecks \/ UpdateFails
      PROVE  UNCHANGED mark
  BY <1>5 DEF Dump, SweepDumps, DumpFails, SocketCloses, SweepChecks, UpdateFails, Worker, flowVars
<1>6. ASSUME WorkerEnds \/ UNCHANGED vars PROVE UNCHANGED mark
  BY <1>6 DEF WorkerEnds, vars, flowVars
<1>7. QED BY <1>1, <1>2, <1>3, <1>4, <1>5, <1>6 DEF Next

\* No sweep, not even one that its caller has abandoned, takes a connection
\* away from its generation (updateNeutral, the dump slot).
THEOREM OwnersAreKept == Spec => OwnersStand
<1>1. IInv /\ [Next]_vars =>
          [\A c \in Conns : mark[c] = Owned => mark'[c] \in {Owned, Absent}]_vars
  BY OwnerStep
<1>2. QED BY <1>1, FlowtrackInvariant, PTL DEF Spec, OwnersStand
=============================================================================
