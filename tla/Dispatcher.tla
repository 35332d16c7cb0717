------------------------------ MODULE Dispatcher ------------------------------
(* The NATS-facing half of the worker: worker/dispatcher.py decides ack, nak   *)
(* or dead-letter for every delivery of a request, and worker/main.py starts,  *)
(* drains and stops the replicas that run those handlers.                      *)
(*                                                                             *)
(* Every await of the handler is a step of its own, so the deliveries of one   *)
(* message, the replicas, the broker's ack_wait timer and the shutdown         *)
(* sequence interleave.  What the pipeline computes is a choice of verdict     *)
(* (module Orchestrator says which); the JetStream consumer is external and is *)
(* modelled from the way subscribe() configures and the handler uses it.       *)
EXTENDS Naturals, FiniteSets

CONSTANTS
    Msgs,          \* requests in the work-queue stream
    Workers,       \* worker replicas bound to the one durable consumer
    MaxDeliver,    \* DOCGEN_MAX_DELIVER
    PoolSize,      \* _render_pool_size(), passed on as max_ack_pending
    Undecodable,   \* messages _decode maps to None
    SlowHandlers,  \* TRUE: ack_wait may fire while a handler still runs
    MaxStops       \* bound on crashes and shutdowns in a behaviour

ASSUME MaxDeliverAssumption == MaxDeliver \in Nat \ {0}
ASSUME PoolSizeAssumption == PoolSize \in Nat \ {0}
ASSUME MessageAssumption == Undecodable \subseteq Msgs
ASSUME BoundAssumption == MaxStops \in Nat /\ SlowHandlers \in BOOLEAN

VARIABLES
    cons,      \* the consumer's view of each message
    ndel,      \* num_delivered of the latest delivery of each message
    pc,        \* pc[m][n]: where the handler of the n-th delivery of m is
    inflight,  \* inflight[w]: the handler tasks replica w tracks
    worker,    \* life cycle of each replica
    answers,   \* verdicts stored in the results stream, per message
    dlq,       \* reasons under which the message is stored in the DLQ stream
    refused,   \* messages for which some DLQ publish failed without storing
    stops      \* crashes and shutdowns so far

vars == <<cons, ndel, pc, inflight, worker, answers, dlq, refused, stops>>

-------------------------------------------------------------------------------
(* Server-side backstop, one above the handler's own bound.                    *)
Backstop == MaxDeliver + 1
Deliveries == 1..Backstop

(* A result is a success, a permanent failure or a transient failure.          *)
Verdicts == {"success", "permanent", "transient"}
Reasons == {"decode", "exhausted", "emit_failure"}

(* Where a handler can be.  Each running pc names the await the task is at; a  *)
(* verdict stands for publish_result of that verdict.                          *)
Running == Verdicts \cup {"build", "dlq", "ack", "nak", "efnak", "efdlq",
                          "efack", "drop", "dropack"}
(* How a handler ends: "done" its ack took effect, "retry" its nak took        *)
(* effect, "unacked" neither reached the broker, "lost" with its process,      *)
(* "cancelled" by the drain timeout.                                           *)
Ended == {"done", "retry", "unacked", "lost", "cancelled"}

ConsumerStates == {"new", "pending", "due", "exceeded", "gone"}

TypeOK ==
    /\ cons \in [Msgs -> ConsumerStates]
    /\ ndel \in [Msgs -> 0..Backstop]
    /\ pc \in [Msgs -> [Deliveries -> {"idle"} \cup Running \cup Ended]]
    /\ inflight \in [Workers -> SUBSET (Msgs \X Deliveries)]
    /\ worker \in [Workers -> {"up", "draining", "down"}]
    /\ answers \in [Msgs -> SUBSET Verdicts]
    /\ dlq \in [Msgs -> SUBSET Reasons]
    /\ refused \subseteq Msgs
    /\ stops \in 0..MaxStops

Init ==
    /\ cons = [m \in Msgs |-> "new"]
    /\ ndel = [m \in Msgs |-> 0]
    /\ pc = [m \in Msgs |-> [n \in Deliveries |-> "idle"]]
    /\ inflight = [w \in Workers |-> {}]
    /\ worker = [w \in Workers |-> "up"]
    /\ answers = [m \in Msgs |-> {}]
    /\ dlq = [m \in Msgs |-> {}]
    /\ refused = {}
    /\ stops = 0

-------------------------------------------------------------------------------
(* The JetStream consumer (external).                                          *)

(* Delivered and not acked: what max_ack_pending counts, a nak'd message that  *)
(* waits for its delay included.                                               *)
AckPending == {m \in Msgs : cons[m] \in {"pending", "due"}}

(* The consumer is one durable shared by every replica, so its max_ack_pending *)
(* is one replica's pool size whatever the number of replicas.                 *)
HasRoomOffByOne == Cardinality(AckPending) <= PoolSize
HasRoom == Cardinality(AckPending) < PoolSize

(* The max_deliver backstop bounds redelivery.                                 *)
MayRedeliverUnbounded(m) == cons[m] = "due"
MayRedeliverOneShort(m) == cons[m] = "due" /\ ndel[m] + 1 < Backstop
MayRedeliver(m) == cons[m] = "due" /\ ndel[m] < Backstop

Live(m, n) == pc[m][n] \in Running
LiveSomewhere(m) == \E n \in Deliveries : Live(m, n)

(* _handle_message starts with _decode.                                        *)
FirstStep(m) == IF m \in Undecodable THEN "drop" ELSE "build"

(* A delivery reaches a replica's callback, which spawns and tracks a task.    *)
(* Redelivery is not subject to max_ack_pending: the message is in it already. *)
Deliver(m, w) ==
    /\ worker[w] = "up"
    /\ (cons[m] = "new" /\ HasRoom) \/ MayRedeliver(m)
    /\ cons' = [cons EXCEPT ![m] = "pending"]
    /\ ndel' = [ndel EXCEPT ![m] = @ + 1]
    /\ pc' = [pc EXCEPT ![m][ndel[m] + 1] = FirstStep(m)]
    /\ inflight' = [inflight EXCEPT ![w] = @ \cup {<<m, ndel[m] + 1>>}]
    /\ UNCHANGED <<worker, answers, dlq, refused, stops>>

(* ack_wait is configured "comfortably above max render wall-clock"; where it  *)
(* really is (~SlowHandlers), it outlasts every live handler.                  *)
AckWaitTooShort(m) == TRUE
AckWaitOver(m) == SlowHandlers \/ ~LiveSomewhere(m)

(* ack_wait elapses with no ack or nak received.                               *)
AckWaitExpires(m) ==
    /\ cons[m] = "pending"
    /\ AckWaitOver(m)
    /\ cons' = [cons EXCEPT ![m] = "due"]
    /\ UNCHANGED <<ndel, pc, inflight, worker, answers, dlq, refused, stops>>

(* The backstop: after max_deliver deliveries the broker stops redelivering.   *)
(* The message stays in the work-queue stream.                                 *)
Exceed(m) ==
    /\ cons[m] = "due" /\ ndel[m] = Backstop
    /\ cons' = [cons EXCEPT ![m] = "exceeded"]
    /\ UNCHANGED <<ndel, pc, inflight, worker, answers, dlq, refused, stops>>

-------------------------------------------------------------------------------
(* The handler.                                                                *)

(* The task moves to p; a task that ends leaves inflight (_on_task_done).      *)
Goto(m, n, p) ==
    /\ pc' = [pc EXCEPT ![m][n] = p]
    /\ inflight' = IF p \in Ended
                   THEN [w \in Workers |-> inflight[w] \ {<<m, n>>}]
                   ELSE inflight

Terminal(v) == v \in {"success", "permanent"}
RetriesLeftOneMore(n) == n <= MaxDeliver
RetriesLeftOneLess(n) == n + 1 < MaxDeliver
RetriesLeft(n) == n < MaxDeliver

(* The branch _emit takes for a verdict, before its first await.               *)
EmitDlqFirst(v, n) ==
    IF Terminal(v) THEN v ELSE IF RetriesLeft(n) THEN "nak" ELSE "dlq"
Emit(v, n) == IF Terminal(v) \/ ~RetriesLeft(n) THEN v ELSE "nak"

(* _handle_emit_failure, entered when an await of _emit raises.                *)
EmitFailureNoDlq(n) == IF RetriesLeft(n) THEN "efnak" ELSE "efack"
EmitFailure(n) == IF RetriesLeft(n) THEN "efnak" ELSE "efdlq"

(* process_request may come to any verdict; an exception it does not classify  *)
(* is a transient failure.                                                     *)
BuildResult(m, n) ==
    /\ pc[m][n] = "build"
    /\ \E v \in Verdicts : Goto(m, n, Emit(v, n))
    /\ UNCHANGED <<cons, ndel, worker, answers, dlq, refused, stops>>

AfterResult(v) == IF Terminal(v) THEN "ack" ELSE "dlq"

(* publish_result waits for the stream's confirmation for a bounded time: the  *)
(* result may be stored and confirmed, stored while the wait times out, or     *)
(* not stored at all (always so, for a reply_to that no stream covers).        *)
PublishResult(m, n) ==
    LET v == pc[m][n] IN
    /\ v \in Verdicts
    /\ \/ /\ answers' = [answers EXCEPT ![m] = @ \cup {v}]
          /\ Goto(m, n, AfterResult(v)) \/ Goto(m, n, EmitFailure(n))
       \/ answers' = answers /\ Goto(m, n, EmitFailure(n))
    /\ UNCHANGED <<cons, ndel, worker, dlq, refused, stops>>

(* publish_dlq, with the same three outcomes.                                  *)
PublishDlq(m, n, reason, confirmed, raised) ==
    /\ \/ /\ dlq' = [dlq EXCEPT ![m] = @ \cup {reason}]
          /\ refused' = refused
          /\ Goto(m, n, confirmed) \/ Goto(m, n, raised)
       \/ /\ dlq' = dlq
          /\ refused' = refused \cup {m}
          /\ Goto(m, n, raised)
    /\ UNCHANGED <<cons, ndel, worker, answers, stops>>

DeadLetter(m, n) ==
    pc[m][n] = "dlq" /\ PublishDlq(m, n, "exhausted", "ack", EmitFailure(n))
EmitFailureDlq(m, n) ==
    pc[m][n] = "efdlq" /\ PublishDlq(m, n, "emit_failure", "efack", "efack")
DropUndecodable(m, n) ==
    pc[m][n] = "drop" /\ PublishDlq(m, n, "decode", "dropack", "dropack")

(* An ack is not confirmed.  It takes effect, even one of an older delivery or *)
(* after the backstop, or is lost on the way, or raises in the client.         *)
SendAck(m, n, raised) ==
    /\ \/ cons' = [cons EXCEPT ![m] = "gone"] /\ Goto(m, n, "done")
       \/ cons' = cons /\ Goto(m, n, "unacked")
       \/ cons' = cons /\ Goto(m, n, raised)
    /\ UNCHANGED <<ndel, worker, answers, dlq, refused, stops>>

Ack(m, n) == pc[m][n] = "ack" /\ SendAck(m, n, EmitFailure(n))
(* Both of these end the handler without an ack when the client raises.        *)
EmitFailureAck(m, n) == pc[m][n] = "efack" /\ SendAck(m, n, "unacked")
DropAck(m, n) == pc[m][n] = "dropack" /\ SendAck(m, n, "unacked")

(* A nak makes a pending message due (after its delay), whichever delivery it  *)
(* answers.                                                                    *)
SendNak(m, n, raised) ==
    /\ \/ /\ cons' = [cons EXCEPT ![m] = IF @ = "pending" THEN "due" ELSE @]
          /\ Goto(m, n, "retry")
       \/ cons' = cons /\ Goto(m, n, "unacked")
       \/ cons' = cons /\ Goto(m, n, raised)
    /\ UNCHANGED <<ndel, worker, answers, dlq, refused, stops>>

Nak(m, n) == pc[m][n] = "nak" /\ SendNak(m, n, EmitFailure(n))
EmitFailureNak(m, n) == pc[m][n] = "efnak" /\ SendNak(m, n, "unacked")

Handler(m, n) ==
    \/ BuildResult(m, n) \/ PublishResult(m, n) \/ DeadLetter(m, n)
    \/ Ack(m, n) \/ Nak(m, n)
    \/ EmitFailureNak(m, n) \/ EmitFailureDlq(m, n) \/ EmitFailureAck(m, n)
    \/ DropUndecodable(m, n) \/ DropAck(m, n)

-------------------------------------------------------------------------------
(* The replicas.                                                               *)

(* Every task of w ends as p and the process is gone.                          *)
Stop(w, p) ==
    /\ pc' = [m \in Msgs |-> [n \in Deliveries |->
                 IF <<m, n>> \in inflight[w] THEN p ELSE pc[m][n]]]
    /\ inflight' = [inflight EXCEPT ![w] = {}]
    /\ worker' = [worker EXCEPT ![w] = "down"]
    /\ UNCHANGED <<cons, ndel, answers, dlq, refused>>

Crash(w) ==
    /\ worker[w] # "down" /\ stops < MaxStops
    /\ stops' = stops + 1
    /\ Stop(w, "lost")

(* SIGTERM sets shutdown_event; sub.drain() then ends new deliveries.          *)
Sigterm(w) ==
    /\ worker[w] = "up" /\ stops < MaxStops
    /\ stops' = stops + 1
    /\ worker' = [worker EXCEPT ![w] = "draining"]
    /\ UNCHANGED <<cons, ndel, pc, inflight, answers, dlq, refused>>

(* main() awaits the tasks in flight and leaves when there are none ...        *)
DrainDone(w) ==
    /\ worker[w] = "draining" /\ inflight[w] = {}
    /\ Stop(w, "cancelled")
    /\ stops' = stops

(* ... or cancels them after _INFLIGHT_DRAIN_TIMEOUT_SECONDS.                  *)
DrainTimeout(w) ==
    /\ worker[w] = "draining" /\ inflight[w] # {}
    /\ Stop(w, "cancelled")
    /\ stops' = stops

(* The deployment restarts a replica that stopped; it subscribes again.        *)
Start(w) ==
    /\ worker[w] = "down"
    /\ worker' = [worker EXCEPT ![w] = "up"]
    /\ UNCHANGED <<cons, ndel, pc, inflight, answers, dlq, refused, stops>>

-------------------------------------------------------------------------------
Next ==
    \/ \E m \in Msgs : AckWaitExpires(m) \/ Exceed(m)
    \/ \E m \in Msgs, w \in Workers : Deliver(m, w)
    \/ \E m \in Msgs, n \in Deliveries : Handler(m, n)
    \/ \E w \in Workers : Crash(w) \/ Sigterm(w) \/ DrainDone(w)
                          \/ DrainTimeout(w) \/ Start(w)

(* A task on the event loop keeps running and each of its awaits is bounded    *)
(* (publishes by _PUBLISH_TIMEOUT_SECONDS; a render is assumed to return); the *)
(* broker keeps delivering and its timers fire; a drain ends by its timeout;   *)
(* the deployment restarts replicas.  Crashes and signals are never forced.    *)
Fairness ==
    /\ \A m \in Msgs :
         /\ WF_vars(\E w \in Workers : Deliver(m, w))
         /\ WF_vars(AckWaitExpires(m)) /\ WF_vars(Exceed(m))
         /\ \A n \in Deliveries : WF_vars(Handler(m, n))
    /\ \A w \in Workers :
         WF_vars(DrainDone(w) \/ DrainTimeout(w)) /\ WF_vars(Start(w))

SafetySpec == Init /\ [][Next]_vars
Spec == SafetySpec /\ Fairness

-------------------------------------------------------------------------------
(* What the dispatcher promises.                                               *)

(* A request leaves the work queue with no answer and no dead letter only if   *)
(* the DLQ itself refused it, and only a poison message or one whose delivery  *)
(* budget is spent: across every crash, timeout, duplicate and lost ack,       *)
(* _emit and _handle_emit_failure never ack first and record later.            *)
LossNeedsRefusedDlq ==
    \A m \in Msgs : (cons[m] = "gone" /\ answers[m] = {} /\ dlq[m] = {})
        => m \in refused /\ (m \in Undecodable \/ ndel[m] >= MaxDeliver)

(* A caller sees a transient failure as final, and an operator sees a request  *)
(* dead-lettered, only once DOCGEN_MAX_DELIVER deliveries were made: stale and *)
(* overlapping handlers count their own delivery, not the latest one.          *)
GivesUpOnlyWhenExhausted ==
    \A m \in Msgs : ("transient" \in answers[m] \/ dlq[m] \ {"decode"} # {})
        => ndel[m] >= MaxDeliver

(* Nobody finds a request dead-lettered as exhausted whose caller was never    *)
(* told: the final failed result is stored before the DLQ copy.                *)
DeadLetterAfterAnswer ==
    \A m \in Msgs : "exhausted" \in dlq[m] => "transient" \in answers[m]

(* The broker gives up on a request (kept in the stream, never redelivered)    *)
(* only if the last two deliveries both failed to report: the handler's own    *)
(* bound fires one delivery earlier, so no nak is ever what strands it.        *)
StrandedOnlyByLoss ==
    \A m \in Msgs : cons[m] = "exceeded" =>
        \A n \in {MaxDeliver, Backstop} :
            pc[m][n] \in Running \cup {"unacked", "lost", "cancelled"}

(* "The broker never hands us more than the render pool can work", all         *)
(* replicas together, redeliveries included.  Needs ~SlowHandlers.             *)
NeverOverrunsPool ==
    Cardinality({t \in Msgs \X Deliveries : Live(t[1], t[2])}) <= PoolSize

(* Once the broker has dropped a request nothing more is said about it: no     *)
(* late answer, no dead letter from an overlapping handler.  Needs             *)
(* ~SlowHandlers.                                                              *)
SettledIsQuiet ==
    [][\A m \in Msgs : cons[m] = "gone" =>
          answers'[m] = answers[m] /\ dlq'[m] = dlq[m]]_vars

(* "Cannot loop forever": every request is eventually acked or given up by the *)
(* broker, and no handler of it runs any more.                                 *)
EventuallyResolved ==
    \A m \in Msgs : <>[](cons[m] \in {"gone", "exceeded"} /\ ~LiveSomewhere(m))

(* The dispatcher implements the outcome matrix of its docstring: however the  *)
(* handlers, replicas and timers interleave, what the caller and the operator  *)
(* see is a behaviour of RequestLifecycle.                                     *)
LifecycleState == [m \in Msgs |->
    CASE cons[m] = "gone" -> "settled"
      [] cons[m] = "exceeded" -> "abandoned"
      [] OTHER -> "queued"]
Lifecycle == INSTANCE RequestLifecycle
             WITH state <- LifecycleState, attempts <- ndel
ImplementsLifecycle == Lifecycle!LSpec

-------------------------------------------------------------------------------
(* What the repository says of the dispatcher and the code does not do.        *)

(* worker/main.py on the handlers a shutdown cancels: "they will be            *)
(* redelivered after ack_wait".                                                *)
CancelledIsRedelivered ==
    \A m \in Msgs : cons[m] = "exceeded" => pc[m][Backstop] # "cancelled"

(* README.md: "competing replicas scale horizontally".  A request waits in the *)
(* stream for lack of room only while every running replica has work.          *)
QueuedOnlyWhenReplicasBusy ==
    \A m \in Msgs, w \in Workers :
        cons[m] = "new" /\ ~HasRoom /\ (\A k \in Msgs : cons[k] # "due")
            => worker[w] # "up" \/ inflight[w] # {}
===============================================================================
