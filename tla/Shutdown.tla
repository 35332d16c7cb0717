------------------------------- MODULE Shutdown -------------------------------
(* How a worker stops: the finally of main() in worker/main.py, the end of     *)
(* asyncio.run, and the exit handlers, of which core/tracing.py adds three,    *)
(* all against the SIGKILL that follows SIGTERM when the grace period is over. *)
(* Time is in seconds since SIGTERM and passes inside the calls that block.    *)
EXTENDS Naturals, Sequences, FiniteSets

CONSTANTS
    Messages,      \* deliveries there may be while the worker stops
    Graces,        \* deployments: seconds from SIGTERM to SIGKILL
    DrainTimeout,  \* _INFLIGHT_DRAIN_TIMEOUT_SECONDS
    FlushTimeout,  \* _EXPORTER_TIMEOUT_SECONDS
    SdkTimeout,    \* what MeterProvider.shutdown takes when given no budget
    LogsTime,      \* what LoggerProvider.shutdown takes, which has no budget
    BrokerTime,    \* bound on a drain of the subscription or the connection
    RenderTail     \* bound on what is left of a render whose task is cancelled

ASSUME TimeAssumption ==
    /\ Graces \subseteq Nat \ {0}
    /\ {DrainTimeout, FlushTimeout, SdkTimeout, LogsTime, BrokerTime, RenderTail}
          \subseteq Nat

VARIABLES
    pc,
    clock,      \* seconds since SIGTERM
    signalled,  \* FALSE: main() is stopping because subscribe raised
    exporting,  \* setup_tracer_provider found collectors to export to
    grace,      \* this deployment's seconds to SIGKILL
    queued,     \* deliveries not yet handed to the callback
    listening,  \* the subscription still hands them over
    running,    \* handler tasks
    awaited,    \* the tasks main() waits for
    cut,        \* tasks cancelled before they finished
    drainFailed, tried,  \* sub.drain raised; steps of the finally that ran
    atexit,     \* exit handlers still to run, the next one first
    meterDown   \* the meter provider has been shut down

vars == <<pc, clock, signalled, exporting, grace, queued, listening, running, awaited,
          cut, drainFailed, tried, atexit, meterDown>>
loop == <<queued, listening, running, awaited, cut, drainFailed, tried>>
telemetry == <<atexit, meterDown>>
setting == <<signalled, exporting, grace>>

InLoop == {"poller", "drain", "wait", "pool", "close", "loopend"}
AtExit == {"join", "exit", "flush", "meter"}

TypeOK ==
    /\ pc \in InLoop \cup AtExit \cup {"gone", "killed"}
    /\ grace \in Graces /\ clock \in Nat /\ (signalled => clock <= grace)
    /\ {signalled, exporting, listening, drainFailed, meterDown} \subseteq BOOLEAN
    /\ running \subseteq Messages /\ queued \subseteq Messages
    /\ running \cap queued = {} /\ cut \cap running = {}
    /\ awaited \subseteq running \cup cut \cup (Messages \ queued)

-------------------------------------------------------------------------------
(* setup_tracer_provider.  atexit is last in, first out: logging registered    *)
(* its handler on import, LoggerProvider and MeterProvider theirs when they    *)
(* were made ("logs", "metrics"), and shutdown_telemetry comes after both.     *)
RegisteredBeforeSdk == <<"metrics", "logs", "telemetry", "logging">>
Registered == <<"telemetry", "metrics", "logs", "logging">>
ExitHandlers(exports) == IF exports THEN Registered ELSE <<"logging">>

(* SIGTERM arrived, or dispatcher.subscribe raised and there is neither a      *)
(* subscription nor a poller nor a task.                                       *)
Init ==
    /\ pc = "poller" /\ clock = 0
    /\ signalled \in BOOLEAN /\ exporting \in BOOLEAN /\ grace \in Graces
    /\ listening = signalled
    /\ running \in SUBSET Messages /\ queued \in SUBSET (Messages \ running)
    /\ ~signalled => running = {} /\ queued = {}
    /\ awaited = {} /\ cut = {} /\ drainFailed = FALSE /\ tried = {}
    /\ atexit = ExitHandlers(exporting)
    /\ meterDown = FALSE

(* One timeout for all the tasks together.                                     *)
WaitBoundPerTask == DrainTimeout * Cardinality(awaited)
WaitBound == IF awaited = {} THEN 0 ELSE DrainTimeout
CutBound == IF cut = {} THEN 0 ELSE RenderTail

(* The longest that the call main() or the interpreter is in can block.        *)
Longest ==
    CASE pc = "drain" /\ listening -> BrokerTime
      [] pc = "wait" -> WaitBound
      [] pc = "close" -> BrokerTime
      [] pc = "join" -> CutBound
      [] pc \in {"flush", "meter"} -> FlushTimeout
      [] pc = "exit" /\ Head(atexit) = "metrics" /\ ~meterDown -> SdkTimeout
      [] pc = "exit" /\ Head(atexit) = "logs" -> LogsTime
      [] OTHER -> 0

(* The call takes some of that time, unless SIGKILL comes first.               *)
Takes(d, next) ==
    /\ signalled => clock + d < grace
    /\ clock' = clock + d
    /\ pc' = next
Returns(next) == \E d \in 0..Longest : Takes(d, next)

Kill ==
    /\ pc \notin {"gone", "killed"}
    /\ signalled /\ clock + Longest >= grace
    /\ clock' = grace /\ pc' = "killed"
    /\ UNCHANGED <<setting, loop, telemetry>>

-------------------------------------------------------------------------------
(* Handler tasks, while the event loop runs.                                   *)
Deliver(m) ==
    /\ pc \in InLoop /\ listening /\ m \in queued
    /\ queued' = queued \ {m} /\ running' = running \cup {m}
    /\ UNCHANGED <<pc, clock, setting, listening, awaited, cut, drainFailed, tried, telemetry>>

Finish(m) ==
    /\ pc \in InLoop /\ m \in running
    /\ running' = running \ {m}
    /\ UNCHANGED <<pc, clock, setting, queued, listening, awaited, cut, drainFailed, tried,
                   telemetry>>

-------------------------------------------------------------------------------
(* The finally of main().                                                      *)
CancelPoller ==
    /\ pc = "poller"
    /\ Returns("drain")
    /\ tried' = tried \cup {"poller"}
    /\ UNCHANGED <<setting, queued, listening, running, awaited, cut, drainFailed, telemetry>>

(* The tasks to wait for, given those drain() has just started: main() looks   *)
(* after it.                                                                   *)
SnapshotBeforeDrain(new) == running
SnapshotOfQueue(new) == running \cup queued
Snapshot(new) == running \cup new

(* sub.drain() hands over what the client has buffered and unsubscribes ...    *)
Drain ==
    /\ pc = "drain" /\ listening
    /\ Returns("wait")
    /\ \E buffered \in SUBSET queued :
          /\ queued' = queued \ buffered
          /\ running' = running \cup buffered
          /\ awaited' = Snapshot(buffered)
    /\ listening' = FALSE
    /\ tried' = tried \cup {"drain"}
    /\ UNCHANGED <<setting, cut, drainFailed, telemetry>>

(* ... or raises, which is logged: deliveries go on, and those that come after *)
(* the tasks have been counted are not waited for.                             *)
AfterFailedDrainAbort == "loopend"
AfterFailedDrain == "wait"

DrainFails ==
    /\ pc = "drain" /\ listening
    /\ Returns(AfterFailedDrain)
    /\ drainFailed' = TRUE
    /\ awaited' = running
    /\ tried' = tried \cup {"drain"}
    /\ UNCHANGED <<setting, queued, listening, running, cut, telemetry>>

NoSubscription ==
    /\ pc = "drain" /\ ~listening
    /\ Returns("wait")
    /\ UNCHANGED <<setting, loop, telemetry>>

(* asyncio.wait(..., timeout): returns when all are done, or cancels the rest. *)
WaitDone ==
    /\ pc = "wait" /\ awaited \cap running = {}
    /\ Returns("pool")
    /\ UNCHANGED <<setting, loop, telemetry>>

CancelPending ==
    /\ pc = "wait" /\ awaited \cap running # {}
    /\ Takes(DrainTimeout, "pool")
    /\ cut' = cut \cup (awaited \cap running)
    /\ running' = running \ awaited
    /\ UNCHANGED <<setting, queued, listening, awaited, drainFailed, tried, telemetry>>

(* render_pool.shutdown(wait=False), whether or not it raises.                 *)
ShutdownPool ==
    /\ pc = "pool"
    /\ Returns("close")
    /\ tried' = tried \cup {"pool"}
    /\ UNCHANGED <<setting, queued, listening, running, awaited, cut, drainFailed, telemetry>>

(* close_nats, whether or not it raises; if it does, deliveries go on.         *)
CloseNats ==
    /\ pc = "close"
    /\ Returns("loopend")
    /\ \/ listening' = FALSE
       \/ listening' = listening
    /\ tried' = tried \cup {"nats"}
    /\ UNCHANGED <<setting, queued, running, awaited, cut, drainFailed, telemetry>>

(* asyncio.run cancels the tasks that are left and closes the loop.            *)
LoopEnds ==
    /\ pc = "loopend"
    /\ Returns("join")
    /\ cut' = cut \cup running /\ running' = {} /\ listening' = FALSE
    /\ UNCHANGED <<setting, queued, awaited, drainFailed, tried, telemetry>>

-------------------------------------------------------------------------------
(* Interpreter exit.  First the pool's threads are joined (external): a render *)
(* whose task was cancelled runs to its end.                                   *)
JoinRenders ==
    /\ pc = "join"
    /\ Returns("exit")
    /\ UNCHANGED <<setting, loop, telemetry>>

(* Then the exit handlers: shutdown_telemetry, which flushes the logs (and     *)
(* detaches the log handler, or logs that the flush raised) and then shuts the *)
(* meter down, raising or not, each with a budget of its own.                  *)
BeginFlush ==
    /\ pc = "exit" /\ atexit # <<>> /\ Head(atexit) = "telemetry"
    /\ Returns("flush")
    /\ atexit' = Tail(atexit)
    /\ UNCHANGED <<setting, loop, meterDown>>

FlushLogs ==
    /\ pc = "flush"
    /\ Returns("meter")
    /\ UNCHANGED <<setting, loop, telemetry>>

ShutdownMeter ==
    /\ pc = "meter"
    /\ Returns("exit")
    /\ meterDown' = TRUE
    /\ UNCHANGED <<setting, loop, atexit>>

(* The SDK's own handlers (external).  Of the meter provider "shutdown can     *)
(* only be called once", and it has no budget of its own otherwise; nothing    *)
(* has shut the logger provider down before.                                   *)
MetricsHandler ==
    /\ pc = "exit" /\ atexit # <<>> /\ Head(atexit) = "metrics"
    /\ Returns("exit")
    /\ meterDown' = TRUE
    /\ atexit' = Tail(atexit)
    /\ UNCHANGED <<setting, loop>>

LogsHandler ==
    /\ pc = "exit" /\ atexit # <<>> /\ Head(atexit) = "logs"
    /\ Returns("exit")
    /\ atexit' = Tail(atexit)
    /\ UNCHANGED <<setting, loop, meterDown>>

(* logging.shutdown (external), and the process is gone.                       *)
LoggingShutdown ==
    /\ pc = "exit" /\ atexit = <<"logging">>
    /\ Returns("gone")
    /\ atexit' = <<>>
    /\ UNCHANGED <<setting, loop, meterDown>>

Stopped == pc \in {"gone", "killed"} /\ UNCHANGED vars

Next ==
    \/ CancelPoller \/ Drain \/ DrainFails \/ NoSubscription \/ WaitDone \/ CancelPending
    \/ ShutdownPool \/ CloseNats \/ LoopEnds \/ JoinRenders
    \/ BeginFlush \/ FlushLogs \/ ShutdownMeter
    \/ MetricsHandler \/ LogsHandler \/ LoggingShutdown
    \/ Kill \/ Stopped
    \/ \E m \in Messages : Deliver(m) \/ Finish(m)

Spec == Init /\ [][Next]_vars

-------------------------------------------------------------------------------
(* main.py: "a message buffered at shutdown still gets its task awaited below  *)
(* rather than being orphaned": a task is cut short only after it was given    *)
(* the drain time, unless the drain itself failed.                             *)
CutOnlyAfterWait == cut \subseteq awaited \/ drainFailed

(* One step of the shutdown that raises keeps none of the others from running: *)
(* the process never reaches its exit handlers with the poller, the pool or    *)
(* the connection not dealt with.                                              *)
EveryStepTried ==
    pc \in AtExit \cup {"gone"} =>
        /\ {"poller", "pool", "nats"} \subseteq tried
        /\ signalled => "drain" \in tried

(* core/tracing.py has shutdown_telemetry flush "WITHIN A BUDGET DOCKER WILL   *)
(* ALLOW", for else "the container is killed mid-flush": it "runs FIRST, with  *)
(* this budget, and the SDK's becomes a no-op".  What grace period that takes: *)
(* a worker is killed only under one that two drains, two budgets and          *)
(* LoggerProvider's own handler, which "would run unbounded", can fill, with   *)
(* the wait and the renders cut short of a worker that has any.  Two budgets   *)
(* of 5 s alone fill the 10 s between Docker's SIGTERM and SIGKILL, under which*)
(* an idle worker is killed when the collectors do not answer.                 *)
IdleNeeds == 2 * BrokerTime + 2 * FlushTimeout + LogsTime
LeavesInTime ==
    pc = "killed" =>
        grace <= IdleNeeds + (IF awaited = {} THEN 0 ELSE DrainTimeout)
                           + (IF cut = {} THEN 0 ELSE RenderTail)

(* main.py on _INFLIGHT_DRAIN_TIMEOUT_SECONDS: "kept under a typical SIGTERM   *)
(* grace period so we aren't SIGKILL'd mid-drain".  What is typical: SIGKILL   *)
(* comes during the drain or the wait only of a grace period that they can     *)
(* fill.  Docker's 10 s, the one that the repository names, are such a period. *)
DrainFitsGrace ==
    [][pc' = "killed" /\ pc \in {"drain", "wait"} =>
          grace <= BrokerTime + DrainTimeout]_vars
===============================================================================
