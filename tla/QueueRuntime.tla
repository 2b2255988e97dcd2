---------------------------- MODULE QueueRuntime ----------------------------
(***************************************************************************)
(* Running and stopping the data path: Runtime.Run with its two pumps      *)
(* (internal/nfqueue/runtime.go) inside the process that starts it, tears  *)
(* it down and chooses its exit status (cmd/geneva-server/run_linux.go).   *)
(*                                                                         *)
(* Abstractions.  What a pump does with the packets it read is module      *)
(* VerdictQueue, what Close does to the table is module Lifecycle: here    *)
(* both succeed or fail.  The model begins when the controller has         *)
(* started.                                                                *)
(***************************************************************************)
EXTENDS Integers, Sequences

CONSTANT MaxFailures  \* bound: queue failures, fatal errors, failed teardowns

ASSUME RuntimeAssumption == MaxFailures \in Nat

VARIABLES
    main,           \* what runServer does next
    status,         \* the process's exit status
    pump,           \* what each pump does next
    errs,           \* the channel errs, oldest first
    outcome,        \* what each pump is about to return
    wg,             \* the counter of Run's WaitGroup
    runErr,         \* runErr
    cancelled,      \* the context of runServer is cancelled
    pumpCancelled,  \* pumpCtx is cancelled
    interrupted,    \* queues whose read deadline is in the past
    closed,         \* queues whose descriptor is closed
    reporter,       \* the goroutines that report a fatal error
    reported,       \* fatalCause, serveErr: the channels that hold an error
    cause,          \* history: who cancelled the context
    failures        \* failures left

pumpVars == <<pump, errs, outcome, wg>>
contextVars == <<cancelled, pumpCancelled, cause>>
reportVars == <<reporter, reported>>
vars == <<main, status, pumpVars, runErr, contextVars, interrupted, closed, reportVars, failures>>

Queues == {"out", "in"}
Reporters == {"fatal", "control"}
Errors == {"cancelled", "failed"}

\* Every variable has a value of its type; the WaitGroup's counter is never
\* negative, which would panic (Runtime.Run).
TypeOK ==
    /\ main \in {"setup", "select", "stop", "wake_out", "wake_in", "wait",
                 "status", "teardown", "close_out", "close_in", "exit"}
    /\ status \in {"running", "clean", "failed"}
    /\ pump \in [Queues -> {"idle", "check", "read", "handle", "send", "done"}]
    /\ errs \in Seq(Errors) /\ Len(errs) <= 2
    /\ outcome \in [Queues -> Errors]
    /\ wg \in 0 .. 2
    /\ runErr \in Errors \cup {"none"}
    /\ cancelled \in BOOLEAN /\ pumpCancelled \in BOOLEAN
    /\ interrupted \in SUBSET Queues /\ closed \in SUBSET Queues
    /\ reporter \in [Reporters -> {"quiet", "stopping", "done"}]
    /\ reported \in SUBSET Reporters
    /\ cause \in Reporters \cup {"none", "operator"}
    /\ failures \in 0 .. MaxFailures

Fails == failures > 0 /\ failures' = failures - 1

-----------------------------------------------------------------------------
\* The process's context

Cancel(who) ==
    /\ cancelled' = TRUE
    /\ cause' = IF cancelled THEN cause ELSE who
    /\ UNCHANGED pumpCancelled

OperatorStops ==
    /\ ~ cancelled /\ Cancel("operator")
    /\ UNCHANGED <<main, status, pumpVars, runErr, interrupted, closed, reportVars, failures>>

\* reportFatal, or the control listener: leave the error in a channel, then
\* cancel.  (Mutant: an unbuffered channel, which nobody receives from.)
ReportsUnbuffered(who) == UNCHANGED reported
Reports(who) == reported' = reported \cup {who}

ReportBegins(who) ==
    /\ main # "exit"
    /\ reporter[who] = "quiet" /\ Fails
    /\ Reports(who)
    /\ reporter' = [reporter EXCEPT ![who] = "stopping"]
    /\ UNCHANGED <<main, status, pumpVars, runErr, contextVars, interrupted, closed>>

ReportStops(who) ==
    /\ reporter[who] = "stopping"
    /\ Cancel(who)
    /\ reporter' = [reporter EXCEPT ![who] = "done"]
    /\ UNCHANGED <<main, status, pumpVars, runErr, interrupted, closed, reported, failures>>

\* Cancellation reaches the derived context after the one it derives from.
Propagate ==
    /\ main \notin {"setup", "exit"} /\ cancelled /\ ~ pumpCancelled
    /\ pumpCancelled' = TRUE
    /\ UNCHANGED <<main, status, pumpVars, runErr, cancelled, cause, interrupted, closed,
                   reportVars, failures>>

-----------------------------------------------------------------------------
\* A pump

PumpFrame == UNCHANGED <<main, status, runErr, contextVars, interrupted, closed, reportVars>>

\* The pump is about to return an error.
Returns(q, error) ==
    /\ pump' = [pump EXCEPT ![q] = "send"]
    /\ outcome' = [outcome EXCEPT ![q] = error]
    /\ UNCHANGED <<errs, wg>>

\* The top of the loop: "if err := ctx.Err()".
Check(q) ==
    /\ pump[q] = "check"
    /\ IF pumpCancelled
       THEN Returns(q, "cancelled")
       ELSE /\ pump' = [pump EXCEPT ![q] = "read"]
            /\ UNCHANGED <<errs, outcome, wg>>
    /\ PumpFrame /\ UNCHANGED failures

\* recvmsg: the reader is parked until packets come or its deadline passes.
ReadPackets(q) ==
    /\ pump[q] = "read" /\ q \notin interrupted
    /\ pump' = [pump EXCEPT ![q] = "handle"]
    /\ UNCHANGED <<errs, outcome, wg>>
    /\ PumpFrame /\ UNCHANGED failures

\* A deadline error counts as an idle queue: once more round the loop.
ReadInterrupted(q) ==
    /\ pump[q] = "read" /\ q \in interrupted
    /\ pump' = [pump EXCEPT ![q] = "check"]
    /\ UNCHANGED <<errs, outcome, wg>>
    /\ PumpFrame /\ UNCHANGED failures

\* The packets are handled, or the socket overran (ENOBUFS).
Handled(q) ==
    /\ pump[q] = "handle"
    /\ pump' = [pump EXCEPT ![q] = "check"]
    /\ UNCHANGED <<errs, outcome, wg>>
    /\ PumpFrame /\ UNCHANGED failures

\* The read, a message or the flush fails for good.
QueueFails(q) ==
    /\ pump[q] \in {"read", "handle"} /\ Fails
    /\ Returns(q, IF pumpCancelled THEN "cancelled" ELSE "failed")
    /\ PumpFrame

\* "errs <- rt.pump(...)", then wg.Done.
Send(q) ==
    /\ pump[q] = "send" /\ Len(errs) < 2
    /\ errs' = Append(errs, outcome[q])
    /\ wg' = wg - 1
    /\ pump' = [pump EXCEPT ![q] = "done"]
    /\ UNCHANGED outcome
    /\ PumpFrame /\ UNCHANGED failures

-----------------------------------------------------------------------------
\* Runtime.Run

RunFrame == UNCHANGED <<status, reportVars, failures>>

\* Run starts the pumps.  (Mutant: wg.Add(1).)
WaitCountOne == 1
WaitCount == 2

RunStarts ==
    /\ main = "setup"
    /\ main' = "select"
    /\ pump' = [q \in Queues |-> "check"] /\ wg' = WaitCount
    /\ UNCHANGED <<errs, outcome, runErr, contextVars, interrupted, closed>>
    /\ RunFrame

\* The select: whichever is ready.
RunCancelled ==
    /\ main = "select" /\ cancelled
    /\ main' = "stop" /\ runErr' = "cancelled"
    /\ UNCHANGED <<pumpVars, contextVars, interrupted, closed>>
    /\ RunFrame

RunPumpEnded ==
    /\ main = "select" /\ errs # <<>>
    /\ main' = "stop" /\ runErr' = Head(errs) /\ errs' = Tail(errs)
    /\ UNCHANGED <<pump, outcome, wg, contextVars, interrupted, closed>>
    /\ RunFrame

\* "A context of our own, cancelled the moment either pump gives up."
\* (Mutant: the pumps share the caller's.)
StopPumpsNever == UNCHANGED pumpCancelled
StopPumps == pumpCancelled' = TRUE

RunStops ==
    /\ main = "stop"
    /\ main' = "wake_out" /\ StopPumps
    /\ UNCHANGED <<pumpVars, runErr, cancelled, cause, interrupted, closed>>
    /\ RunFrame

\* interrupt puts the read deadline in the past, one queue after the other.
RunWakes ==
    /\ main \in {"wake_out", "wake_in"}
    /\ main' = IF main = "wake_out" THEN "wake_in" ELSE "wait"
    /\ interrupted' = interrupted \cup {IF main = "wake_out" THEN "out" ELSE "in"}
    /\ UNCHANGED <<pumpVars, runErr, contextVars, closed>>
    /\ RunFrame

\* wg.Wait.  (Mutant: the first pump to end is enough.)
WaitDoneEarly == wg < 2
WaitDone == wg = 0

RunReturns ==
    /\ main = "wait" /\ WaitDone
    /\ main' = "status"
    /\ UNCHANGED <<pumpVars, runErr, contextVars, interrupted, closed>>
    /\ RunFrame

-----------------------------------------------------------------------------
\* runServer around it

MainFrame == UNCHANGED <<pumpVars, runErr, contextVars, interrupted, reportVars>>

\* Telemetry cannot be set up: runServer returns before Run.
SetupFails ==
    /\ main = "setup" /\ Fails
    /\ main' = "teardown" /\ status' = "failed"
    /\ UNCHANGED closed /\ MainFrame

\* runtimeExitError
ChooseStatus ==
    /\ main = "status"
    /\ main' = "teardown"
    /\ status' = IF reported # {} \/ runErr # "cancelled" THEN "failed" ELSE "clean"
    /\ UNCHANGED <<closed, failures>> /\ MainFrame

\* The deferred teardown: the absence of steering is confirmed and the queues
\* are closed, or the descriptors are left to the end of the process.
TearDown ==
    /\ main = "teardown"
    /\ \/ main' = "close_out" /\ UNCHANGED <<status, failures>>
       \/ main' = "exit" /\ status' = "failed" /\ Fails
    /\ UNCHANGED closed /\ MainFrame

\* Runtime.Close
CloseQueue ==
    /\ main \in {"close_out", "close_in"}
    /\ closed' = closed \cup {IF main = "close_out" THEN "out" ELSE "in"}
    /\ main' = IF main = "close_out" THEN "close_in" ELSE "exit"
    /\ UNCHANGED <<status, failures>> /\ MainFrame

-----------------------------------------------------------------------------
Init ==
    /\ main = "setup" /\ status = "running"
    /\ pump = [q \in Queues |-> "idle"] /\ errs = <<>>
    /\ outcome = [q \in Queues |-> "failed"] /\ wg = 0
    /\ runErr = "none"
    /\ cancelled = FALSE /\ pumpCancelled = FALSE
    /\ interrupted = {} /\ closed = {}
    /\ reporter = [who \in Reporters |-> "quiet"] /\ reported = {}
    /\ cause = "none"
    /\ failures = MaxFailures

Main ==
    \/ RunStarts \/ RunCancelled \/ RunPumpEnded \/ RunStops \/ RunWakes \/ RunReturns
    \/ ChooseStatus \/ TearDown \/ CloseQueue

\* The steps of a pump that need no packet to come.
Loop(q) == Check(q) \/ ReadInterrupted(q) \/ Handled(q) \/ Send(q)

Next ==
    \/ OperatorStops \/ Propagate
    \/ \E who \in Reporters : ReportBegins(who) \/ ReportStops(who)
    \/ \E q \in Queues : Loop(q) \/ ReadPackets(q) \/ QueueFails(q)
    \/ Main \/ SetupFails

Spec == Init /\ [][Next]_vars

\* Goroutines run, and calls that do not wait for a packet return.
Fairness ==
    /\ WF_vars(Main) /\ WF_vars(Propagate)
    /\ \A who \in Reporters : WF_vars(ReportStops(who))
    /\ \A q \in Queues : WF_vars(Loop(q))

FairSpec == Spec /\ Fairness

-----------------------------------------------------------------------------
\* No queue's descriptor is closed under its reader: Run waits for both pumps,
\* whichever of them failed and whenever the context was cancelled ("Wake both
\* readers and wait for them", Runtime.Run).
ReadersBeforeClose == \A q \in closed : pump[q] \in {"idle", "done"}

\* The process only exits cleanly when its operator stopped it: after a fatal
\* integrity error, a dead control listener or a failed queue the service
\* manager has to restart it ("operator shutdown is clean, while an integrity
\* fatal or failed control listener exits nonzero", runtimeExitError).
CleanExitOnRequest == status = "clean" => cause = "operator"

\* Once anything ends the run, the process ends: a pump that fails does not
\* leave the other looping on its passed deadline, nor waiting on an idle queue
\* ("pump treats as the ordinary idle-queue case and retries", Runtime.Run).
ProcessEnds ==
    cancelled \/ (\E q \in Queues : pump[q] = "done") ~> main = "exit"
=============================================================================
