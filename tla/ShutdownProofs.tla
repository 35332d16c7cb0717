---------------------------- MODULE ShutdownProofs ----------------------------
(* The promises of Shutdown for any number of deliveries and any times.        *)
EXTENDS Shutdown, TLAPS

(* What is left of the exit handlers, and that the SDK's own for the metrics,  *)
(* when its turn comes, has nothing to shut down any more.                     *)
AfterTelemetry == <<"metrics", "logs", "logging">>
AfterMetrics == <<"logs", "logging">>
HandlersInOrder ==
    /\ pc \in InLoop \cup {"join"} => atexit = ExitHandlers(exporting)
    /\ pc \in {"flush", "meter"} => atexit = AfterTelemetry
    /\ pc = "exit" => \/ atexit \in {Registered, AfterMetrics, <<"logging">>}
                      \/ atexit = AfterTelemetry /\ meterDown
    /\ pc = "gone" => atexit = <<>>

(* The tasks main() waits for are all there are, once drain() has stopped the  *)
(* deliveries; before, nothing has been cut, and without a subscription there  *)
(* are no tasks at all.                                                        *)
TasksCounted ==
    /\ cut \cap queued = {}
    /\ pc \in {"poller", "drain"} =>
          /\ cut = {} /\ awaited = {}
          /\ listening = signalled
          /\ ~signalled => running = {} /\ queued = {}
    /\ pc \in InLoop \ {"poller", "drain"} =>
          drainFailed \/ (~listening /\ running \subseteq awaited)

(* The steps tried by the time each place is reached.                          *)
TriedSoFar ==
    /\ pc \notin {"poller", "killed"} => "poller" \in tried
    /\ pc \notin {"poller", "drain", "killed"} => (signalled => "drain" \in tried)
    /\ pc \notin {"poller", "drain", "wait", "pool", "killed"} => "pool" \in tried
    /\ pc \in {"loopend", "gone"} \cup AtExit => "nats" \in tried

(* How late it can be at each place.                                           *)
ExitBy == 2 * BrokerTime + WaitBound + CutBound
OnTime ==
    /\ pc \in {"poller", "drain"} => clock = 0
    /\ pc = "wait" => clock <= BrokerTime
    /\ pc \in {"pool", "close"} => clock <= BrokerTime + WaitBound
    /\ pc \in {"loopend", "join"} => clock <= 2 * BrokerTime + WaitBound
    /\ pc = "flush" \/ (pc = "exit" /\ atexit = Registered) => clock <= ExitBy
    /\ pc = "meter" => clock <= ExitBy + FlushTimeout
    /\ pc = "exit" /\ atexit \in {AfterTelemetry, AfterMetrics} =>
          clock <= ExitBy + 2 * FlushTimeout
    /\ pc = "exit" /\ atexit = <<"logging">> =>
          clock <= ExitBy + 2 * FlushTimeout + LogsTime

TimeInv == OnTime /\ LeavesInTime

IndInv ==
    /\ TypeOK /\ HandlersInOrder /\ TasksCounted /\ TriedSoFar
    /\ CutOnlyAfterWait

-------------------------------------------------------------------------------
(* The exit handlers, one after the other.                                     *)
LEMMA Handlers ==
    /\ Head(Registered) = "telemetry" /\ Tail(Registered) = AfterTelemetry
    /\ Head(AfterTelemetry) = "metrics" /\ Tail(AfterTelemetry) = AfterMetrics
    /\ Head(AfterMetrics) = "logs" /\ Tail(AfterMetrics) = <<"logging">>
    /\ Head(<<"logging">>) = "logging"
    /\ Registered \notin {AfterTelemetry, AfterMetrics, <<"logging">>}
    /\ AfterTelemetry \notin {AfterMetrics, <<"logging">>}
    /\ AfterMetrics # <<"logging">>
<1>1. /\ Len(Registered) = 4 /\ Len(AfterTelemetry) = 3
      /\ Len(AfterMetrics) = 2 /\ Len(<<"logging">>) = 1
  BY DEF Registered, AfterTelemetry, AfterMetrics
<1> QED  BY <1>1 DEF Registered, AfterTelemetry, AfterMetrics

(* How long each place can block: only the drains, the wait, a cut render, the *)
(* two flushes and the logger provider's handler take time; the meter          *)
(* provider's never does.                                                      *)
LEMMA Longests ==
    ASSUME TypeOK, HandlersInOrder
    PROVE  /\ Longest \in Nat
           /\ pc \in {"poller", "pool", "loopend"} => Longest = 0
           /\ pc \in {"drain", "close"} => Longest <= BrokerTime
           /\ pc = "wait" => Longest = WaitBound /\ Longest <= DrainTimeout
           /\ pc = "join" => Longest = CutBound
           /\ pc \in {"flush", "meter"} => Longest = FlushTimeout
           /\ pc = "exit" /\ atexit # AfterMetrics => Longest = 0
           /\ pc = "exit" => Longest <= LogsTime
<1>1. /\ pc = "exit" => ~(Head(atexit) = "metrics" /\ ~meterDown)
      /\ pc = "exit" /\ atexit # AfterMetrics => Head(atexit) # "logs"
  BY Handlers DEF HandlersInOrder
<1>2. pc \in InLoop \cup AtExit \cup {"gone", "killed"}
  BY DEF TypeOK
<1>3. CASE pc \in {"poller", "pool", "loopend", "gone", "killed"}
  BY <1>3 DEF Longest
<1>4. CASE pc = "drain"
  BY <1>4, TimeAssumption DEF Longest
<1>5. CASE pc = "wait"
  BY <1>5, TimeAssumption DEF Longest, WaitBound
<1>6. CASE pc = "close"
  BY <1>6, TimeAssumption DEF Longest
<1>7. CASE pc = "join"
  BY <1>7, TimeAssumption DEF Longest, CutBound
<1>8. CASE pc \in {"flush", "meter"}
  BY <1>8, TimeAssumption DEF Longest
<1>9. CASE pc = "exit"
  BY <1>1, <1>9, TimeAssumption DEF Longest
<1> QED  BY <1>2, <1>3, <1>4, <1>5, <1>6, <1>7, <1>8, <1>9 DEF InLoop, AtExit

(* The bounds are numbers.                                                     *)
LEMMA Bounds ==
    {WaitBound, CutBound, ExitBy, BrokerTime, DrainTimeout, FlushTimeout, LogsTime}
        \subseteq Nat
<1>1. {WaitBound, CutBound} \subseteq Nat
  BY TimeAssumption DEF WaitBound, CutBound
<1> QED  BY <1>1, TimeAssumption DEF ExitBy

(* A call that returns took no longer than that, and was not killed.           *)
LEMMA ReturnTime ==
    ASSUME TypeOK, HandlersInOrder, NEW next, Returns(next)
    PROVE  /\ pc' = next
           /\ clock' \in Nat /\ clock' <= clock + Longest
           /\ signalled => clock' <= grace
<1>1. PICK d \in 0..Longest : Takes(d, next)
  BY DEF Returns
<1>2. Longest \in Nat /\ clock \in Nat /\ grace \in Nat
  BY Longests, TimeAssumption DEF TypeOK
<1> QED  BY <1>1, <1>2 DEF Takes

-------------------------------------------------------------------------------
(* The worker is told to stop, or subscribe raised.                            *)
LEMMA InitInv == Init => IndInv
<1> SUFFICES ASSUME Init PROVE IndInv
  OBVIOUS
<1>1. TypeOK
  <2>1. {signalled, exporting, listening, drainFailed, meterDown} \subseteq BOOLEAN
    BY DEF Init
  <2> QED  BY <2>1, TimeAssumption DEF Init, TypeOK, InLoop
<1>2. HandlersInOrder /\ TasksCounted /\ TriedSoFar /\ CutOnlyAfterWait
  BY DEF Init, HandlersInOrder, TasksCounted, TriedSoFar, CutOnlyAfterWait,
         InLoop, AtExit
<1> QED  BY <1>1, <1>2 DEF IndInv

(* Every step keeps it.                                                        *)
LEMMA NextInv == IndInv /\ [Next]_vars => IndInv'
<1> SUFFICES ASSUME IndInv, [Next]_vars PROVE IndInv'
  OBVIOUS
<1> USE DEF IndInv
<1>1. CASE CancelPoller
  <2>1. TypeOK'
    BY <1>1, ReturnTime DEF CancelPoller, TypeOK, InLoop, setting, telemetry
  <2>2. HandlersInOrder'
    BY <1>1, ReturnTime DEF CancelPoller, HandlersInOrder, InLoop, setting,
       telemetry
  <2>3. TasksCounted' /\ CutOnlyAfterWait'
    BY <1>1, ReturnTime DEF CancelPoller, TasksCounted, CutOnlyAfterWait,
       setting
  <2>4. TriedSoFar'
    BY <1>1, ReturnTime DEF CancelPoller, TriedSoFar, AtExit
  <2> QED  BY <2>1, <2>2, <2>3, <2>4
<1>2. CASE Drain
  <2>1. TypeOK'
    BY <1>2, ReturnTime, TimeAssumption DEF Drain, TypeOK, TasksCounted,
           Snapshot, InLoop, AtExit, setting, telemetry
  <2>2. HandlersInOrder'
    BY <1>2, ReturnTime DEF Drain, HandlersInOrder, InLoop, setting, telemetry
  <2>3. TasksCounted' /\ CutOnlyAfterWait'
    BY <1>2, ReturnTime DEF Drain, TasksCounted, CutOnlyAfterWait, Snapshot
  <2>4. TriedSoFar'
    BY <1>2, ReturnTime DEF Drain, TriedSoFar, AtExit
  <2> QED  BY <2>1, <2>2, <2>3, <2>4
<1>3. CASE DrainFails
  <2>1. TypeOK'
    BY <1>3, ReturnTime DEF DrainFails, TypeOK, AfterFailedDrain, InLoop,
       setting, telemetry
  <2>2. HandlersInOrder'
    BY <1>3, ReturnTime DEF DrainFails, HandlersInOrder, AfterFailedDrain,
       InLoop, setting, telemetry
  <2>3. TasksCounted' /\ CutOnlyAfterWait'
    <3>1. drainFailed'
      BY <1>3 DEF DrainFails
    <3>2. pc' = "wait" /\ queued' = queued /\ cut' = cut
      BY <1>3, ReturnTime DEF DrainFails, AfterFailedDrain
    <3> QED
      BY <3>1, <3>2 DEF TasksCounted, CutOnlyAfterWait
  <2>4. TriedSoFar'
    BY <1>3, ReturnTime DEF DrainFails, TriedSoFar, AfterFailedDrain, AtExit
  <2> QED  BY <2>1, <2>2, <2>3, <2>4
<1>4. CASE NoSubscription
  <2>1. TypeOK'
    BY <1>4, ReturnTime DEF NoSubscription, TypeOK, InLoop, setting, loop,
       telemetry
  <2>2. HandlersInOrder'
    BY <1>4, ReturnTime DEF NoSubscription, HandlersInOrder, InLoop, setting,
       telemetry
  <2>3. TasksCounted' /\ CutOnlyAfterWait'
    BY <1>4, ReturnTime DEF NoSubscription, TasksCounted, CutOnlyAfterWait,
       loop
  <2>4. TriedSoFar'
    BY <1>4, ReturnTime DEF NoSubscription, TasksCounted, TriedSoFar, AtExit,
       setting, loop
  <2> QED  BY <2>1, <2>2, <2>3, <2>4
<1>5. CASE WaitDone
  <2>1. TypeOK'
    BY <1>5, ReturnTime DEF WaitDone, TypeOK, InLoop, setting, loop, telemetry
  <2>2. HandlersInOrder'
    BY <1>5, ReturnTime DEF WaitDone, HandlersInOrder, InLoop, setting,
       telemetry
  <2>3. TasksCounted' /\ CutOnlyAfterWait'
    BY <1>5, ReturnTime DEF WaitDone, TasksCounted, CutOnlyAfterWait, InLoop,
       loop
  <2>4. TriedSoFar'
    BY <1>5, ReturnTime DEF WaitDone, TriedSoFar, AtExit, setting, loop
  <2> QED  BY <2>1, <2>2, <2>3, <2>4
<1>6. CASE CancelPending
  <2>1. TypeOK'
    BY <1>6, TimeAssumption DEF CancelPending, TypeOK, InLoop,
       setting, telemetry, Takes
  <2>2. HandlersInOrder'
    BY <1>6 DEF CancelPending, HandlersInOrder, InLoop, setting, telemetry,
       Takes
  <2>3. TasksCounted' /\ CutOnlyAfterWait'
    BY <1>6 DEF CancelPending, TypeOK, TasksCounted, CutOnlyAfterWait, AtExit,
       Takes
  <2>4. TriedSoFar'
    BY <1>6 DEF CancelPending, TriedSoFar, AtExit, setting, Takes
  <2> QED  BY <2>1, <2>2, <2>3, <2>4
<1>7. CASE ShutdownPool
  <2>1. TypeOK'
    BY <1>7, ReturnTime DEF ShutdownPool, TypeOK, InLoop, setting, telemetry
  <2>2. HandlersInOrder'
    BY <1>7, ReturnTime DEF ShutdownPool, HandlersInOrder, InLoop, setting,
       telemetry
  <2>3. TasksCounted' /\ CutOnlyAfterWait'
    BY <1>7, ReturnTime DEF ShutdownPool, TasksCounted, CutOnlyAfterWait,
       InLoop
  <2>4. TriedSoFar'
    BY <1>7, ReturnTime DEF ShutdownPool, TriedSoFar, AtExit, setting
  <2> QED  BY <2>1, <2>2, <2>3, <2>4
<1>8. CASE CloseNats
  <2>1. TypeOK'
    BY <1>8, ReturnTime, TimeAssumption
       DEF CloseNats, TypeOK, TasksCounted, InLoop, AtExit, setting, telemetry
  <2>2. HandlersInOrder'
    BY <1>8, ReturnTime DEF CloseNats, HandlersInOrder, InLoop, setting,
       telemetry
  <2>3. TasksCounted' /\ CutOnlyAfterWait'
    BY <1>8, ReturnTime DEF CloseNats, TasksCounted, CutOnlyAfterWait, InLoop
  <2>4. TriedSoFar'
    BY <1>8 DEF CloseNats, TriedSoFar, setting
  <2> QED  BY <2>1, <2>2, <2>3, <2>4
<1>9. CASE LoopEnds
  <2>1. TypeOK'
    BY <1>9, ReturnTime, TimeAssumption
       DEF LoopEnds, TypeOK, TasksCounted, InLoop, AtExit, setting, telemetry
  <2>2. HandlersInOrder'
    BY <1>9, ReturnTime DEF LoopEnds, HandlersInOrder, InLoop, setting,
       telemetry
  <2>3. TasksCounted' /\ CutOnlyAfterWait'
    BY <1>9, ReturnTime DEF LoopEnds, TypeOK, TasksCounted, CutOnlyAfterWait,
       AtExit
  <2>4. TriedSoFar'
    BY <1>9 DEF LoopEnds, TriedSoFar, setting
  <2> QED  BY <2>1, <2>2, <2>3, <2>4
<1>10. CASE JoinRenders
  <2>1. TypeOK'
    BY <1>10, ReturnTime DEF JoinRenders, TypeOK, AtExit, setting, loop,
       telemetry
  <2>2. HandlersInOrder'
    BY <1>10, ReturnTime DEF JoinRenders, HandlersInOrder, ExitHandlers,
       setting, telemetry
  <2>3. TasksCounted' /\ CutOnlyAfterWait'
    BY <1>10, ReturnTime DEF JoinRenders, TasksCounted, CutOnlyAfterWait,
       InLoop, loop
  <2>4. TriedSoFar'
    BY <1>10 DEF JoinRenders, TriedSoFar, AtExit, setting, loop
  <2> QED  BY <2>1, <2>2, <2>3, <2>4
<1>11. CASE BeginFlush
  <2>1. TypeOK'
    BY <1>11, ReturnTime DEF BeginFlush, TypeOK, AtExit, setting, loop
  <2>2. HandlersInOrder'
    BY <1>11, ReturnTime, Handlers DEF BeginFlush, HandlersInOrder, InLoop
  <2>3. TasksCounted' /\ CutOnlyAfterWait'
    BY <1>11, ReturnTime DEF BeginFlush, TasksCounted, CutOnlyAfterWait,
       InLoop, loop
  <2>4. TriedSoFar'
    BY <1>11 DEF BeginFlush, TriedSoFar, AtExit, setting, loop
  <2> QED  BY <2>1, <2>2, <2>3, <2>4
<1>12. CASE FlushLogs
  <2>1. TypeOK'
    BY <1>12, ReturnTime DEF FlushLogs, TypeOK, AtExit, setting, loop,
       telemetry
  <2>2. HandlersInOrder'
    BY <1>12, ReturnTime DEF FlushLogs, HandlersInOrder, InLoop, telemetry
  <2>3. TasksCounted' /\ CutOnlyAfterWait'
    BY <1>12, ReturnTime DEF FlushLogs, TasksCounted, CutOnlyAfterWait, InLoop,
       loop
  <2>4. TriedSoFar'
    BY <1>12 DEF FlushLogs, TriedSoFar, AtExit, setting, loop
  <2> QED  BY <2>1, <2>2, <2>3, <2>4
<1>13. CASE ShutdownMeter
  <2>1. TypeOK'
    BY <1>13, ReturnTime DEF ShutdownMeter, TypeOK, AtExit, setting, loop
  <2>2. HandlersInOrder'
    BY <1>13, ReturnTime DEF ShutdownMeter, HandlersInOrder, InLoop
  <2>3. TasksCounted' /\ CutOnlyAfterWait'
    BY <1>13, ReturnTime DEF ShutdownMeter, TasksCounted, CutOnlyAfterWait,
       InLoop, loop
  <2>4. TriedSoFar'
    BY <1>13 DEF ShutdownMeter, TriedSoFar, AtExit, setting, loop
  <2> QED  BY <2>1, <2>2, <2>3, <2>4
<1>14. CASE MetricsHandler
  <2>1. TypeOK'
    BY <1>14, ReturnTime DEF MetricsHandler, TypeOK, setting, loop
  <2>2. HandlersInOrder'
    BY <1>14, ReturnTime, Handlers DEF MetricsHandler, HandlersInOrder,
       ExitHandlers
  <2>3. TasksCounted' /\ CutOnlyAfterWait'
    BY <1>14, ReturnTime DEF MetricsHandler, TasksCounted, CutOnlyAfterWait, loop
  <2>4. TriedSoFar'
    BY <1>14, ReturnTime DEF MetricsHandler, TriedSoFar, setting, loop
  <2> QED  BY <2>1, <2>2, <2>3, <2>4
<1>15. CASE LoggingShutdown
  <2>1. TypeOK'
    BY <1>15, ReturnTime DEF LoggingShutdown, TypeOK, setting, loop
  <2>2. HandlersInOrder'
    BY <1>15, ReturnTime DEF LoggingShutdown, HandlersInOrder, InLoop
  <2>3. TasksCounted' /\ CutOnlyAfterWait'
    BY <1>15, ReturnTime DEF LoggingShutdown, TasksCounted, CutOnlyAfterWait,
       InLoop, loop
  <2>4. TriedSoFar'
    BY <1>15 DEF LoggingShutdown, TriedSoFar, AtExit, setting, loop
  <2> QED  BY <2>1, <2>2, <2>3, <2>4
<1>16. CASE Kill
  <2>1. TypeOK'
    BY <1>16, TimeAssumption DEF Kill, TypeOK, setting, loop, telemetry
  <2>2. HandlersInOrder'
    BY <1>16 DEF Kill, HandlersInOrder, InLoop
  <2>3. TasksCounted' /\ CutOnlyAfterWait'
    BY <1>16 DEF Kill, TasksCounted, CutOnlyAfterWait, InLoop, loop
  <2>4. TriedSoFar'
    BY <1>16 DEF Kill, TriedSoFar, AtExit
  <2> QED  BY <2>1, <2>2, <2>3, <2>4
<1>17. CASE Stopped
  <2>1. TypeOK'
    BY <1>17 DEF Stopped, TypeOK, vars
  <2>2. HandlersInOrder'
    BY <1>17 DEF Stopped, HandlersInOrder, vars
  <2>3. TasksCounted' /\ CutOnlyAfterWait'
    BY <1>17 DEF Stopped, TasksCounted, CutOnlyAfterWait, vars
  <2>4. TriedSoFar'
    BY <1>17 DEF Stopped, TriedSoFar, vars
  <2> QED  BY <2>1, <2>2, <2>3, <2>4
<1>21. CASE LogsHandler
  <2>1. TypeOK'
    BY <1>21, ReturnTime DEF LogsHandler, TypeOK, setting, loop
  <2>2. HandlersInOrder'
    BY <1>21, ReturnTime, Handlers DEF LogsHandler, HandlersInOrder,
       ExitHandlers
  <2>3. TasksCounted' /\ CutOnlyAfterWait'
    BY <1>21, ReturnTime DEF LogsHandler, TasksCounted, CutOnlyAfterWait, loop
  <2>4. TriedSoFar'
    BY <1>21, ReturnTime DEF LogsHandler, TriedSoFar, setting, loop
  <2> QED  BY <2>1, <2>2, <2>3, <2>4
<1>18. ASSUME NEW m \in Messages, Deliver(m) PROVE IndInv'
  BY <1>18 DEF Deliver, TypeOK, HandlersInOrder, TasksCounted, TriedSoFar,
         CutOnlyAfterWait, InLoop, AtExit, setting, telemetry
<1>19. ASSUME NEW m \in Messages, Finish(m) PROVE IndInv'
  BY <1>19 DEF Finish, TypeOK, HandlersInOrder, TasksCounted, TriedSoFar,
     CutOnlyAfterWait, setting, telemetry
<1>20. CASE UNCHANGED vars
  BY <1>20 DEF vars, TypeOK, HandlersInOrder, TasksCounted, TriedSoFar,
     CutOnlyAfterWait
<1> QED
  BY <1>1, <1>2, <1>3, <1>4, <1>5, <1>6, <1>7, <1>8, <1>9, <1>10, <1>11, <1>12,
     <1>13, <1>14, <1>15, <1>16, <1>17, <1>18, <1>19, <1>20, <1>21 DEF Next

-------------------------------------------------------------------------------
(* SIGKILL finds a worker where the clock can have reached the grace period.   *)
LEMMA KillTime ==
    ASSUME IndInv, OnTime, Kill
    PROVE  grace <= ExitBy + 2 * FlushTimeout + LogsTime
<1>1. {clock, Longest, grace} \subseteq Nat /\ clock + Longest >= grace
  BY Longests, TimeAssumption DEF IndInv, TypeOK, Kill
<1>2. CASE pc \in InLoop
  <2>1. clock + Longest <= 2 * BrokerTime + WaitBound
    BY <1>1, <1>2, Longests, Bounds DEF IndInv, OnTime, InLoop
  <2> QED  BY <1>1, <2>1, Bounds DEF ExitBy
<1>3. CASE pc = "join"
  BY <1>1, <1>3, Longests, Bounds DEF IndInv, OnTime, ExitBy
<1>4. CASE pc \in {"flush", "meter"}
  BY <1>1, <1>4, Longests, Bounds DEF IndInv, OnTime
<1>5. CASE pc = "exit" /\ atexit = <<"logging">>
  BY <1>1, <1>5, Longests, Bounds, Handlers DEF IndInv, OnTime
<1>6. CASE pc = "exit" /\ atexit # <<"logging">>
  <2>1. clock <= ExitBy + 2 * FlushTimeout
    BY <1>1, <1>6, Bounds DEF IndInv, OnTime, HandlersInOrder
  <2> QED  BY <1>1, <1>6, <2>1, Longests, Bounds DEF IndInv
<1> QED  BY <1>2, <1>3, <1>4, <1>5, <1>6 DEF IndInv, TypeOK, AtExit, Kill

(* Every step keeps to the times.                                              *)
LEMMA NextTime == IndInv /\ TimeInv /\ [Next]_vars => TimeInv'
<1> SUFFICES ASSUME IndInv, TimeInv, [Next]_vars PROVE TimeInv'
  OBVIOUS
<1>1. /\ {clock, Longest} \subseteq Nat
      /\ TypeOK /\ HandlersInOrder /\ OnTime /\ LeavesInTime
  BY Longests, TimeAssumption DEF IndInv, TimeInv, TypeOK
<1>2. CASE CancelPoller \/ Drain \/ DrainFails \/ NoSubscription
  <2>1. /\ pc = "poller" => pc' = "drain" /\ Longest = 0
        /\ pc = "drain" => pc' = "wait" /\ Longest <= BrokerTime
        /\ pc \in {"poller", "drain"}
        /\ clock' \in Nat /\ clock' <= clock + Longest
    BY <1>1, <1>2, ReturnTime, Longests
       DEF CancelPoller, Drain, DrainFails, AfterFailedDrain, NoSubscription
  <2> QED  BY <1>1, <2>1, Bounds DEF TimeInv, OnTime, LeavesInTime
<1>3. CASE WaitDone \/ CancelPending
  <2>1. pc = "wait" /\ pc' = "pool" /\ WaitBound' = WaitBound
    BY <1>3, <1>1, ReturnTime DEF WaitDone, CancelPending, Takes, WaitBound, loop
  <2>2. clock' <= clock + WaitBound
    <3>1. CASE WaitDone
      BY <1>1, <2>1, <3>1, ReturnTime, Longests DEF WaitDone
    <3>2. CASE CancelPending
      BY <1>1, <3>2, TimeAssumption DEF CancelPending, Takes, WaitBound
    <3> QED  BY <1>3, <3>1, <3>2
  <2>3. clock' \in Nat
    BY <1>1, <1>3, ReturnTime, TimeAssumption DEF WaitDone, CancelPending, Takes
  <2>4. clock' <= BrokerTime + WaitBound
    BY <1>1, <2>1, <2>2, <2>3, Bounds DEF OnTime
  <2> QED  BY <2>1, <2>4 DEF TimeInv, OnTime, LeavesInTime
<1>4. CASE ShutdownPool \/ CloseNats \/ LoopEnds
  <2>1. /\ pc \in {"pool", "close", "loopend"} /\ WaitBound' = WaitBound
        /\ pc = "pool" => pc' = "close" /\ Longest = 0
        /\ pc = "close" => pc' = "loopend" /\ Longest <= BrokerTime
        /\ pc = "loopend" => pc' = "join" /\ Longest = 0
        /\ clock' \in Nat /\ clock' <= clock + Longest
    BY <1>1, <1>4, ReturnTime, Longests
       DEF ShutdownPool, CloseNats, LoopEnds, WaitBound
  <2> QED  BY <1>1, <2>1, Bounds DEF TimeInv, OnTime, LeavesInTime
<1>5. CASE JoinRenders
  <2>1. /\ pc = "join" /\ pc' = "exit" /\ ExitBy' = ExitBy
        /\ clock' \in Nat /\ clock' <= clock + CutBound
    BY <1>1, <1>5, ReturnTime, Longests
       DEF JoinRenders, loop, ExitBy, WaitBound, CutBound
  <2>2. clock' <= ExitBy
    BY <1>1, <2>1, Bounds DEF OnTime, ExitBy
  <2> QED  BY <2>1, <2>2, Bounds DEF TimeInv, OnTime, LeavesInTime
<1>6. CASE BeginFlush \/ FlushLogs \/ ShutdownMeter \/ MetricsHandler \/ LogsHandler
            \/ LoggingShutdown
  <2>1. /\ ExitBy' = ExitBy /\ clock' \in Nat /\ clock' <= clock + Longest
        /\ pc' # "killed"
    BY <1>1, <1>6, ReturnTime
       DEF BeginFlush, FlushLogs, ShutdownMeter, MetricsHandler, LogsHandler,
           LoggingShutdown, loop, ExitBy, WaitBound, CutBound
  <2>2. CASE BeginFlush
    <3>1. pc = "exit" /\ pc' = "flush" /\ atexit = Registered
      BY <1>1, <2>2, ReturnTime, Handlers DEF BeginFlush, HandlersInOrder
    <3>2. clock' <= ExitBy
      BY <1>1, <2>1, <3>1, Longests, Handlers, Bounds DEF OnTime
    <3> QED  BY <2>1, <3>1, <3>2 DEF TimeInv, OnTime, LeavesInTime
  <2>3. CASE FlushLogs
    <3>1. pc = "flush" /\ pc' = "meter"
      BY <1>1, <2>3, ReturnTime DEF FlushLogs
    <3>2. clock' <= ExitBy + FlushTimeout
      BY <1>1, <2>1, <3>1, Longests, Bounds DEF OnTime
    <3> QED  BY <2>1, <3>1, <3>2 DEF TimeInv, OnTime, LeavesInTime
  <2>4. CASE ShutdownMeter
    <3>1. pc = "meter" /\ pc' = "exit" /\ atexit' = AfterTelemetry
      BY <1>1, <2>4, ReturnTime DEF ShutdownMeter, HandlersInOrder
    <3>2. clock' <= ExitBy + 2 * FlushTimeout
      BY <1>1, <2>1, <3>1, Longests, Bounds DEF OnTime
    <3> QED  BY <2>1, <3>1, <3>2, Handlers DEF TimeInv, OnTime, LeavesInTime
  <2>5. CASE MetricsHandler
    <3>1. /\ pc = "exit" /\ pc' = "exit"
          /\ atexit = AfterTelemetry /\ atexit' = AfterMetrics
      BY <1>1, <2>5, ReturnTime, Handlers DEF MetricsHandler, HandlersInOrder
    <3>2. clock' <= ExitBy + 2 * FlushTimeout
      BY <1>1, <2>1, <3>1, Longests, Handlers, Bounds DEF OnTime
    <3> QED  BY <2>1, <3>1, <3>2, Handlers DEF TimeInv, OnTime, LeavesInTime
  <2>6. CASE LogsHandler
    <3>1. /\ pc = "exit" /\ pc' = "exit"
          /\ atexit = AfterMetrics /\ atexit' = <<"logging">>
      BY <1>1, <2>6, ReturnTime, Handlers DEF LogsHandler, HandlersInOrder
    <3>2. clock' <= ExitBy + 2 * FlushTimeout + LogsTime
      BY <1>1, <2>1, <3>1, Longests, Bounds DEF OnTime
    <3> QED  BY <2>1, <3>1, <3>2, Handlers DEF TimeInv, OnTime, LeavesInTime
  <2>7. CASE LoggingShutdown
    <3>1. pc' = "gone"
      BY <1>1, <2>7, ReturnTime DEF LoggingShutdown
    <3> QED  BY <3>1 DEF TimeInv, OnTime, LeavesInTime
  <2> QED  BY <1>6, <2>2, <2>3, <2>4, <2>5, <2>6, <2>7
<1>7. CASE Kill
  <2>1. /\ pc' = "killed" /\ grace' = grace /\ awaited' = awaited /\ cut' = cut
    BY <1>7 DEF Kill, setting, loop
  <2>2. grace <= ExitBy + 2 * FlushTimeout + LogsTime
    BY <1>1, <1>7, KillTime
  <2>3. grace \in Nat
    BY <1>1, TimeAssumption DEF TypeOK
  <2>4. LeavesInTime'
    BY <2>1, <2>2, <2>3, Bounds, TimeAssumption
       DEF LeavesInTime, IdleNeeds, ExitBy, WaitBound, CutBound
  <2> QED  BY <2>1, <2>4 DEF TimeInv, OnTime
<1>8. ASSUME NEW m \in Messages, Deliver(m) \/ Finish(m) PROVE TimeInv'
  BY <1>1, <1>8
     DEF Deliver, Finish, TimeInv, OnTime, LeavesInTime, InLoop, setting, telemetry,
         WaitBound, CutBound, ExitBy
<1>9. CASE UNCHANGED vars
  BY <1>1, <1>9
     DEF vars, TimeInv, OnTime, LeavesInTime, IdleNeeds, WaitBound, CutBound, ExitBy
<1> QED
  BY <1>2, <1>3, <1>4, <1>5, <1>6, <1>7, <1>8, <1>9 DEF Next, Stopped

-------------------------------------------------------------------------------
(* The invariants of every behaviour.                                          *)
LEMMA Invariance == Spec => [](IndInv /\ TimeInv)
<1>1. Init => IndInv /\ TimeInv
  BY InitInv DEF Init, TimeInv, OnTime, LeavesInTime
<1>2. IndInv /\ TimeInv /\ [Next]_vars => (IndInv /\ TimeInv)'
  BY NextInv, NextTime
<1> QED  BY <1>1, <1>2, PTL DEF Spec

(* The state of main()'s finally and of the exit handlers stays in its types,  *)
(* and no task is both running and cut short.                                  *)
THEOREM TypeCorrect == Spec => []TypeOK
<1>1. IndInv => TypeOK
  BY DEF IndInv
<1> QED  BY <1>1, Invariance, PTL

(* However many deliveries arrive while the worker stops, a task is cut short  *)
(* only after it was given the drain time, unless sub.drain() itself raised.   *)
THEOREM DrainIsHonoured == Spec => []CutOnlyAfterWait
<1>1. IndInv => CutOnlyAfterWait
  BY DEF IndInv
<1> QED  BY <1>1, Invariance, PTL

(* Whatever raises on the way, the exit handlers are reached only with the     *)
(* poller, the subscription, the pool and the connection dealt with.           *)
THEOREM NoStepSkipped == Spec => []EveryStepTried
<1>1. IndInv => EveryStepTried
  BY DEF IndInv, TriedSoFar, EveryStepTried, AtExit
<1> QED  BY <1>1, Invariance, PTL

(* Only SIGKILL kills.                                                         *)
LEMMA OnlyKillKills ==
    ASSUME TypeOK, HandlersInOrder, Next, pc' = "killed", pc # "killed"
    PROVE  Kill
<1> SUFFICES ASSUME ~Kill PROVE pc' # "killed"
  OBVIOUS
<1>1. CASE \E next : Returns(next) /\ next # "killed"
  BY <1>1, ReturnTime
<1>2. CASE CancelPoller \/ Drain \/ DrainFails \/ NoSubscription \/ WaitDone
  BY <1>1, <1>2 DEF CancelPoller, Drain, DrainFails, AfterFailedDrain,
         NoSubscription, WaitDone
<1>3. CASE CancelPending
  BY <1>3 DEF CancelPending, Takes
<1>4. CASE ShutdownPool \/ CloseNats \/ LoopEnds \/ JoinRenders
  BY <1>1, <1>4 DEF ShutdownPool, CloseNats, LoopEnds, JoinRenders
<1>5. CASE BeginFlush \/ FlushLogs \/ ShutdownMeter \/ MetricsHandler
            \/ LogsHandler \/ LoggingShutdown
  BY <1>1, <1>5
     DEF BeginFlush, FlushLogs, ShutdownMeter, MetricsHandler, LogsHandler,
         LoggingShutdown
<1>6. CASE Stopped \/ \E m \in Messages : Deliver(m) \/ Finish(m)
  BY <1>6 DEF Stopped, vars, Deliver, Finish
<1> QED  BY <1>2, <1>3, <1>4, <1>5, <1>6 DEF Next

(* SIGKILL comes during the drain of the subscription or the wait for the      *)
(* tasks in flight only under a grace period no longer than the two together,  *)
(* for any times: the room that _INFLIGHT_DRAIN_TIMEOUT_SECONDS takes.         *)
THEOREM DrainLeavesInTime == Spec => DrainFitsGrace
<1>1. IndInv /\ TimeInv /\ [Next]_vars =>
        [pc' = "killed" /\ pc \in {"drain", "wait"} =>
            grace <= BrokerTime + DrainTimeout]_vars
  <2> SUFFICES ASSUME IndInv, TimeInv, Next, pc' = "killed", pc \in {"drain", "wait"}
               PROVE  grace <= BrokerTime + DrainTimeout
    BY DEF vars
  <2>1. clock + Longest >= grace
    BY OnlyKillKills DEF IndInv, Kill
  <2>2. clock \in Nat /\ Longest \in Nat /\ grace \in Nat
    BY Longests, TimeAssumption DEF IndInv, TypeOK
  <2>3. clock + Longest <= BrokerTime + DrainTimeout
    BY <2>2, Longests, Bounds DEF IndInv, TimeInv, OnTime
  <2> QED  BY <2>1, <2>2, <2>3, TimeAssumption
<1> QED  BY <1>1, Invariance, PTL DEF Spec, DrainFitsGrace

(* For any times, a worker is killed only under a grace period that two        *)
(* drains, two flush budgets, the logger provider's handler and what there is  *)
(* to wait for can fill: no time-out of the SDK's adds to them.                *)
THEOREM ExitsInTime == Spec => []LeavesInTime
<1>1. TimeInv => LeavesInTime
  BY DEF TimeInv
<1> QED  BY <1>1, Invariance, PTL
===============================================================================
