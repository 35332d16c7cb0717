--------------------------- MODULE RequestLifecycle ---------------------------
(* What the worker promises the caller of a request and the operator of the    *)
(* queue, with no handlers, replicas or messages in sight: the outcome matrix  *)
(* at the head of worker/dispatcher.py.  Module Dispatcher implements it.      *)
EXTENDS Naturals

CONSTANTS Msgs, MaxDeliver, Undecodable

VARIABLES
    state,     \* "queued", "settled" (acked) or "abandoned" by the broker
    attempts,  \* deliveries made
    answers,   \* verdicts the caller can read
    dlq,       \* reasons an operator finds the request dead-lettered for
    refused    \* requests the dead-letter queue has refused at least once

lvars == <<state, attempts, answers, dlq, refused>>

LInit ==
    /\ state = [m \in Msgs |-> "queued"]
    /\ attempts = [m \in Msgs |-> 0]
    /\ answers = [m \in Msgs |-> {}]
    /\ dlq = [m \in Msgs |-> {}]
    /\ refused = {}

Exhausted(m) == attempts[m] >= MaxDeliver

(* A request is tried at most once more than the delivery budget.              *)
Attempt(m) ==
    /\ state[m] = "queued" /\ attempts[m] <= MaxDeliver
    /\ attempts' = [attempts EXCEPT ![m] = @ + 1]
    /\ UNCHANGED <<state, answers, dlq, refused>>

(* Only a decodable request that was tried is answered, and a transient        *)
(* failure is an answer only when the budget is spent.                         *)
Answer(m, v) ==
    /\ m \notin Undecodable /\ attempts[m] > 0
    /\ v = "transient" => Exhausted(m)
    /\ answers' = [answers EXCEPT ![m] = @ \cup {v}]
    /\ UNCHANGED <<state, attempts, dlq, refused>>

DeadLetterAllowed(m, r) ==
    \/ r = "decode" /\ m \in Undecodable /\ attempts[m] > 0
    \/ r = "exhausted" /\ Exhausted(m) /\ "transient" \in answers[m]
    \/ r = "emit_failure" /\ Exhausted(m) /\ m \notin Undecodable

DeadLetterAs(m, r) ==
    /\ DeadLetterAllowed(m, r)
    /\ dlq' = [dlq EXCEPT ![m] = @ \cup {r}]
    /\ UNCHANGED <<state, attempts, answers, refused>>

RefuseDeadLetter(m) ==
    /\ \E r \in {"decode", "exhausted", "emit_failure"} : DeadLetterAllowed(m, r)
    /\ refused' = refused \cup {m}
    /\ UNCHANGED <<state, attempts, answers, dlq>>

(* A request leaves the queue when somebody can find out what became of it, or *)
(* when nothing more can be done: it is spent (or poison) and the dead-letter  *)
(* queue would not take it.                                                    *)
Settle(m) ==
    /\ \/ answers[m] # {} \/ dlq[m] # {}
       \/ m \in refused /\ (m \in Undecodable \/ Exhausted(m))
    /\ state' = [state EXCEPT ![m] = "settled"]
    /\ UNCHANGED <<attempts, answers, dlq, refused>>

(* The broker gives up only after the delivery beyond the budget.              *)
Abandon(m) ==
    /\ state[m] = "queued" /\ attempts[m] = MaxDeliver + 1
    /\ state' = [state EXCEPT ![m] = "abandoned"]
    /\ UNCHANGED <<attempts, answers, dlq, refused>>

LNext ==
    \E m \in Msgs :
        \/ Attempt(m) \/ Settle(m) \/ Abandon(m) \/ RefuseDeadLetter(m)
        \/ \E v \in {"success", "permanent", "transient"} : Answer(m, v)
        \/ \E r \in {"decode", "exhausted", "emit_failure"} : DeadLetterAs(m, r)

LSpec == LInit /\ [][LNext]_lvars
===============================================================================
