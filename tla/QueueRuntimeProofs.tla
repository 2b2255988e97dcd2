------------------------- MODULE QueueRuntimeProofs -------------------------
(***************************************************************************)
(* Safety theorems about module QueueRuntime, for any number of failures.  *)
(***************************************************************************)
EXTENDS QueueRuntime, TLAPS

-----------------------------------------------------------------------------
\* The pumps and the WaitGroup

Busy == {"check", "read", "handle", "send"}
BusyCount(q) == IF pump[q] \in Busy THEN 1 ELSE 0

\* The WaitGroup counts the pumps that still run; Run returns when none does,
\* and the queues are closed later than that.
PumpInv ==
    /\ wg = BusyCount("out") + BusyCount("in")
    /\ main = "setup" => \A q \in Queues : pump[q] = "idle"
    /\ main \in {"status", "teardown", "close_out", "close_in", "exit"} =>
          \A q \in Queues : pump[q] \in {"idle", "done"}
    /\ closed # {} => main \in {"close_in", "exit"}

LEMMA FailuresType ==
    ASSUME TypeOK, Fails \/ UNCHANGED failures
    PROVE  failures' \in 0 .. MaxFailures
  BY RuntimeAssumption DEF TypeOK, Fails

LEMMA InitType == Init => TypeOK
  <1> SUFFICES ASSUME Init PROVE TypeOK
    OBVIOUS
  <1> USE DEF Queues, Reporters, Errors
  <1>1. errs \in Seq(Errors) /\ Len(errs) <= 2
    BY DEF Init
  <1>2. failures \in 0 .. MaxFailures /\ wg \in 0 .. 2
    BY RuntimeAssumption DEF Init
  <1>3. pump \in [Queues -> {"idle", "check", "read", "handle", "send", "done"}]
    BY DEF Init
  <1>4. /\ outcome \in [Queues -> Errors]
        /\ reporter \in [Reporters -> {"quiet", "stopping", "done"}]
    BY DEF Init
  <1> QED BY <1>1, <1>2, <1>3, <1>4 DEF Init, TypeOK

LEMMA InitPumps == Init => PumpInv
  BY DEF Init, PumpInv, Busy, BusyCount, Queues

\* The steps of one pump.
PumpStep == \E q \in Queues : Loop(q) \/ ReadPackets(q) \/ QueueFails(q)

\* A pump that returns leaves its error in the channel before wg.Done.
LEMMA PumpStepKeeps ==
    ASSUME TypeOK, PumpInv, PumpStep
    PROVE  TypeOK' /\ PumpInv'
  <1> USE DEF Queues, Errors
  <1>1. PICK q \in Queues : Loop(q) \/ ReadPackets(q) \/ QueueFails(q)
    BY DEF PumpStep
  <1>2. CASE Send(q)
    <2>1. errs' \in Seq(Errors) /\ Len(errs') <= 2
      BY <1>2 DEF Send, TypeOK
    <2>2. wg' \in 0 .. 2
      BY <1>2 DEF Send, TypeOK, PumpInv, BusyCount, Busy
    <2>3. TypeOK'
      BY <1>2, <2>1, <2>2 DEF Send, PumpFrame, reportVars, contextVars, TypeOK
    <2>4. PumpInv'
      BY <1>2 DEF Send, PumpFrame, reportVars, contextVars, TypeOK, PumpInv, BusyCount, Busy
    <2> QED BY <2>3, <2>4
  <1>3. CASE Check(q) \/ ReadPackets(q) \/ ReadInterrupted(q) \/ Handled(q) \/ QueueFails(q)
    <2>1. /\ pump[q] \in Busy /\ \E s \in Busy : pump' = [pump EXCEPT ![q] = s]
          /\ \E e \in Errors : outcome' \in {outcome, [outcome EXCEPT ![q] = e]}
          /\ UNCHANGED <<errs, wg>> /\ failures' \in 0 .. MaxFailures
      BY <1>3, RuntimeAssumption
         DEF Check, ReadPackets, ReadInterrupted, Handled, QueueFails, Returns, Fails, Busy, TypeOK
    <2>2. UNCHANGED <<main, status, runErr, contextVars, interrupted, closed, reportVars>>
      BY <1>3 DEF Check, ReadPackets, ReadInterrupted, Handled, QueueFails, PumpFrame
    <2>3. pump' \in [Queues -> {"idle"} \cup Busy \cup {"done"}] /\ outcome' \in [Queues -> Errors]
      BY <2>1 DEF TypeOK, Busy
    <2>4. TypeOK'
      BY <2>1, <2>2, <2>3 DEF TypeOK, Busy, contextVars, reportVars
    <2>5. PumpInv'
      BY <2>1, <2>2 DEF TypeOK, PumpInv, BusyCount, Busy
    <2> QED BY <2>4, <2>5
  <1> QED BY <1>1, <1>2, <1>3 DEF Loop

\* The steps of main.
LEMMA MainStepKeeps ==
    ASSUME TypeOK, PumpInv, Main \/ SetupFails
    PROVE  TypeOK' /\ PumpInv'
  <1> USE DEF Queues, Reporters, Errors, TypeOK, reportVars, contextVars, pumpVars
  <1>1. CASE RunStarts
    BY <1>1 DEF RunStarts, RunFrame, WaitCount, PumpInv, BusyCount, Busy
  <1>2. CASE RunCancelled \/ RunStops \/ RunWakes
    BY <1>2, ZenonT(30) DEF RunCancelled, RunStops, RunWakes, RunFrame, StopPumps, PumpInv, BusyCount
  <1>3. CASE RunPumpEnded
    <2>1. Head(errs) \in Errors /\ Tail(errs) \in Seq(Errors) /\ Len(Tail(errs)) <= 2
      BY <1>3 DEF RunPumpEnded
    <2> QED BY <1>3, <2>1 DEF RunPumpEnded, RunFrame, PumpInv, BusyCount
  <1>4. CASE RunReturns
    <2>1. \A q \in Queues : pump[q] \notin Busy
      BY <1>4 DEF RunReturns, WaitDone, PumpInv, BusyCount
    <2> QED BY <1>4, <2>1 DEF RunReturns, RunFrame, PumpInv, BusyCount, Busy
  <1>5. CASE ChooseStatus \/ CloseQueue
    BY <1>5, ZenonT(30) DEF ChooseStatus, CloseQueue, MainFrame, PumpInv, BusyCount
  <1>6. CASE TearDown \/ SetupFails
    <2>1. failures' \in 0 .. MaxFailures
      BY <1>6, FailuresType DEF TearDown, SetupFails
    <2> QED BY <1>6, <2>1 DEF TearDown, SetupFails, MainFrame, PumpInv, BusyCount
  <1> QED BY <1>1, <1>2, <1>3, <1>4, <1>5, <1>6 DEF Main

\* The steps of everyone else touch neither the pumps nor main.
LEMMA OtherStepKeeps ==
    ASSUME TypeOK, PumpInv,
           \/ OperatorStops \/ Propagate \/ UNCHANGED vars
           \/ \E who \in Reporters : ReportBegins(who) \/ ReportStops(who)
    PROVE  TypeOK' /\ PumpInv'
  <1> USE DEF Queues, Reporters, Errors, TypeOK, PumpInv, BusyCount, reportVars, contextVars, pumpVars
  <1>1. CASE OperatorStops \/ Propagate
    BY <1>1, ZenonT(30) DEF OperatorStops, Propagate, Cancel
  <1>2. CASE UNCHANGED vars
    BY <1>2 DEF vars
  <1>3. ASSUME NEW who \in Reporters, ReportBegins(who) PROVE TypeOK' /\ PumpInv'
    <2>1. failures' \in 0 .. MaxFailures
      BY <1>3, FailuresType DEF ReportBegins
    <2>2. reporter' \in [Reporters -> {"quiet", "stopping", "done"}]
      BY <1>3 DEF ReportBegins
    <2> QED BY <1>3, <2>1, <2>2 DEF ReportBegins, Reports
  <1>4. ASSUME NEW who \in Reporters, ReportStops(who) PROVE TypeOK' /\ PumpInv'
    <2>1. reporter' \in [Reporters -> {"quiet", "stopping", "done"}]
      BY <1>4 DEF ReportStops
    <2>2. cause' \in Reporters \cup {"none", "operator"}
      BY <1>4 DEF ReportStops, Cancel
    <2> QED BY <1>4, <2>1, <2>2 DEF ReportStops, Cancel
  <1> QED BY <1>1, <1>2, <1>3, <1>4

LEMMA PumpInvStep ==
    ASSUME TypeOK /\ PumpInv, [Next]_vars
    PROVE  (TypeOK /\ PumpInv)'
  BY PumpStepKeeps, MainStepKeeps, OtherStepKeeps DEF Next, PumpStep

\* The variables of the data path keep their types; the WaitGroup never goes
\* negative, which would panic (Runtime.Run).
THEOREM RuntimeTypeCorrect == Spec => []TypeOK
  <1>1. Init => TypeOK /\ PumpInv
    BY InitType, InitPumps
  <1>2. TypeOK /\ PumpInv /\ [Next]_vars => (TypeOK /\ PumpInv)'
    BY PumpInvStep
  <1> QED BY <1>1, <1>2, PTL DEF Spec

\* No queue is closed while a pump may still read it, whichever pump failed
\* and whenever the context was cancelled (Runtime.Run, Runtime.Close).
THEOREM QueuesCloseLast == Spec => []ReadersBeforeClose
  <1>1. Init => TypeOK /\ PumpInv
    BY InitType, InitPumps
  <1>2. TypeOK /\ PumpInv /\ [Next]_vars => (TypeOK /\ PumpInv)'
    BY PumpInvStep
  <1>3. TypeOK /\ PumpInv => ReadersBeforeClose
    BY DEF TypeOK, PumpInv, ReadersBeforeClose
  <1> QED BY <1>1, <1>2, <1>3, PTL DEF Spec

-----------------------------------------------------------------------------
\* The exit status

\* Before Run gives up, only the process's own context can have ended a pump
\* with a cancellation; and whoever cancelled it other than the operator left
\* its error in a channel first.
CauseInv ==
    /\ cancelled <=> cause # "none"
    /\ \A who \in Reporters : reporter[who] # "quiet" => who \in reported
    /\ cause \in Reporters => cause \in reported
    /\ main \in {"setup", "select"} =>
          /\ pumpCancelled => cancelled
          /\ \A q \in Queues : outcome[q] = "cancelled" => cancelled
          /\ \A k \in 1 .. Len(errs) : errs[k] = "cancelled" => cancelled
    /\ runErr = "cancelled" => cancelled
    /\ CleanExitOnRequest

LEMMA InitCause == Init => CauseInv
  BY DEF Init, CauseInv, CleanExitOnRequest, Queues, Reporters

LEMMA CauseStep ==
    ASSUME TypeOK, CauseInv, [Next]_vars
    PROVE  CauseInv'
  <1> USE DEF Queues, Reporters, Errors, CleanExitOnRequest, reportVars, contextVars, pumpVars
  <1>1. CASE OperatorStops \/ Propagate
    BY <1>1 DEF OperatorStops, Propagate, Cancel, CauseInv, TypeOK
  <1>2. CASE \E who \in Reporters : ReportBegins(who) \/ ReportStops(who)
    <2>1. ASSUME NEW who \in Reporters, ReportBegins(who) PROVE CauseInv'
      BY <2>1 DEF ReportBegins, Reports, CauseInv, TypeOK
    <2>2. ASSUME NEW who \in Reporters, ReportStops(who) PROVE CauseInv'
      <3>1. cancelled' = TRUE
        BY <2>2 DEF ReportStops, Cancel
      <3>2. \A w \in Reporters : reporter'[w] # "quiet" => w \in reported'
        BY <2>2 DEF ReportStops, CauseInv, TypeOK
      <3>3. cause' # "none" /\ (cause' \in Reporters => cause' \in reported')
        BY <2>2 DEF ReportStops, Cancel, CauseInv, TypeOK
      <3>4. CleanExitOnRequest'
        BY <2>2 DEF ReportStops, Cancel, CauseInv
      <3> QED BY <3>1, <3>2, <3>3, <3>4 DEF CauseInv
    <2> QED BY <1>2, <2>1, <2>2
  <1>3. CASE \E q \in Queues : Send(q)
    <2>1. PICK q \in Queues : Send(q)
      BY <1>3
    <2>2. main \in {"setup", "select"} => \A k \in 1 .. Len(errs') : errs'[k] = "cancelled" => cancelled
      BY <2>1 DEF Send, CauseInv, TypeOK
    <2> QED BY <2>1, <2>2 DEF Send, PumpFrame, CauseInv
  <1>4. CASE \E q \in Queues : \/ Check(q) \/ ReadPackets(q) \/ ReadInterrupted(q)
                               \/ Handled(q) \/ QueueFails(q)
    <2>1. PICK q \in Queues : Check(q) \/ ReadPackets(q) \/ ReadInterrupted(q)
                              \/ Handled(q) \/ QueueFails(q)
      BY <1>4
    <2>2. UNCHANGED <<main, status, runErr, contextVars, interrupted, closed, reportVars, errs>>
      BY <2>1 DEF Check, ReadPackets, ReadInterrupted, Handled, QueueFails, Returns, PumpFrame
    <2>3. \/ UNCHANGED outcome
          \/ pumpCancelled /\ outcome' = [outcome EXCEPT ![q] = "cancelled"]
          \/ outcome' = [outcome EXCEPT ![q] = "failed"]
      BY <2>1 DEF Check, ReadPackets, ReadInterrupted, Handled, QueueFails, Returns
    <2> QED BY <2>2, <2>3 DEF CauseInv, TypeOK
  <1>5. CASE RunPumpEnded
    <2>1. Head(errs) = errs[1] /\ 1 \in 1 .. Len(errs)
      BY <1>5 DEF RunPumpEnded, TypeOK
    <2> QED BY <1>5, <2>1 DEF RunPumpEnded, RunFrame, CauseInv
  <1>6. CASE RunStarts \/ RunCancelled \/ RunStops \/ RunWakes \/ RunReturns
    BY <1>6 DEF RunStarts, RunCancelled, RunStops, RunWakes, RunReturns, RunFrame, CauseInv
  <1>7. CASE ChooseStatus
    BY <1>7 DEF ChooseStatus, MainFrame, CauseInv, TypeOK
  <1>8. CASE TearDown \/ CloseQueue \/ SetupFails
    BY <1>8 DEF TearDown, CloseQueue, SetupFails, MainFrame, CauseInv
  <1>9. CASE UNCHANGED vars
    BY <1>9 DEF vars, CauseInv
  <1> QED BY <1>1, <1>2, <1>3, <1>4, <1>5, <1>6, <1>7, <1>8, <1>9 DEF Next, Main, Loop

\* A clean exit status means that the operator asked for it: a fatal error, a
\* dead listener or a failed queue exits nonzero, in whatever order the errors
\* and the cancellation are noticed (runtimeExitError).
THEOREM CleanExitsAreRequested == Spec => []CleanExitOnRequest
  <1>1. Init => CauseInv
    BY InitCause
  <1>2. TypeOK /\ CauseInv /\ [Next]_vars => CauseInv'
    BY CauseStep
  <1>3. CauseInv => CleanExitOnRequest
    BY DEF CauseInv
  <1> QED BY <1>1, <1>2, <1>3, RuntimeTypeCorrect, PTL DEF Spec
=============================================================================
