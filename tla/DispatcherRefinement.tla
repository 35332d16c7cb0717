-------------------------- MODULE DispatcherRefinement --------------------------
(* Dispatcher implements RequestLifecycle: proof that every step of the        *)
(* handlers, the replicas and the broker is a step of the outcome matrix, or   *)
(* one that neither the caller nor the operator can see.                       *)
EXTENDS DispatcherProofs

(* The abstract state of a message, by the consumer's state of it.             *)
AbstractState(c) ==
    CASE c = "gone" -> "settled"
      [] c = "exceeded" -> "abandoned"
      [] OTHER -> "queued"

(* LifecycleState maps the consumer's states one by one.                       *)
LEMMA StateMap == LifecycleState = [m \in Msgs |-> AbstractState(cons[m])]
BY DEF LifecycleState, AbstractState

(* ... and changes with one message as the consumer does.                      *)
LEMMA StateMapExcept ==
    ASSUME TypeOK, NEW m \in Msgs, NEW c, cons' = [cons EXCEPT ![m] = c]
    PROVE  LifecycleState' = [LifecycleState EXCEPT ![m] = AbstractState(c)]
<1>1. LifecycleState' = [k \in Msgs |-> AbstractState(cons'[k])]
  BY DEF LifecycleState, AbstractState
<1>2. \A k \in Msgs : cons'[k] = IF k = m THEN c ELSE cons[k]
  BY DEF TypeOK
<1> QED  BY <1>1, <1>2, StateMap

(* A step of the consumer that keeps the message queued is not visible.        *)
LEMMA StateMapSame ==
    ASSUME TypeOK, NEW m \in Msgs, NEW c, cons' = [cons EXCEPT ![m] = c],
           AbstractState(c) = AbstractState(cons[m])
    PROVE  LifecycleState' = LifecycleState
<1>1. LifecycleState' = [LifecycleState EXCEPT ![m] = AbstractState(c)]
  BY StateMapExcept
<1>2. LifecycleState = [k \in Msgs |-> AbstractState(cons[k])]
  BY StateMap
<1> QED  BY <1>1, <1>2

(* Before the first delivery nothing has been answered, dead-lettered or       *)
(* settled.                                                                    *)
LEMMA InitMaps == Init => Lifecycle!LInit
BY DEF Init, Lifecycle!LInit, LifecycleState

(* A step of the dispatcher is a step of the outcome matrix, or shows nothing  *)
(* of itself there.                                                            *)
LEMMA StepMaps ==
    ASSUME IndInv, [Next]_vars
    PROVE  [Lifecycle!LNext]_(Lifecycle!lvars)
<1> DEFINE Visible == <<LifecycleState, ndel, answers, dlq, refused>>
<1>1. ASSUME NEW m \in Msgs, NEW w \in Workers, Deliver(m, w)
      PROVE  Lifecycle!LNext
  <2>1. /\ cons[m] \in {"new", "due"} /\ ndel[m] <= MaxDeliver
        /\ cons' = [cons EXCEPT ![m] = "pending"]
    BY <1>1, MaxDeliverAssumption
       DEF Deliver, MayRedeliver, Backstop, IndInv, TypeOK, Counted
  <2>2. LifecycleState' = LifecycleState
    BY <2>1, StateMapSame DEF AbstractState, IndInv
  <2>3. LifecycleState[m] = "queued"
    BY <2>1, StateMap DEF AbstractState
  <2>4. Lifecycle!Attempt(m)
    BY <1>1, <2>1, <2>2, <2>3 DEF Lifecycle!Attempt, Deliver
  <2> QED  BY <2>4 DEF Lifecycle!LNext
<1>2. ASSUME NEW m \in Msgs, AckWaitExpires(m)
      PROVE  UNCHANGED Visible
  <2>1. cons[m] = "pending" /\ cons' = [cons EXCEPT ![m] = "due"]
    BY <1>2 DEF AckWaitExpires
  <2>2. LifecycleState' = LifecycleState
    BY <2>1, StateMapSame DEF AbstractState, IndInv
  <2> QED  BY <1>2, <2>2 DEF AckWaitExpires
<1>3. ASSUME NEW m \in Msgs, Exceed(m)
      PROVE  Lifecycle!LNext
  <2>1. /\ cons[m] = "due" /\ ndel[m] = MaxDeliver + 1
        /\ cons' = [cons EXCEPT ![m] = "exceeded"]
    BY <1>3 DEF Exceed, Backstop
  <2>2. LifecycleState' = [LifecycleState EXCEPT ![m] = "abandoned"]
    BY <2>1, StateMapExcept DEF AbstractState, IndInv
  <2>3. LifecycleState[m] = "queued"
    BY <2>1, StateMap DEF AbstractState
  <2>4. Lifecycle!Abandon(m)
    BY <1>3, <2>1, <2>2, <2>3 DEF Lifecycle!Abandon, Exceed
  <2> QED  BY <2>4 DEF Lifecycle!LNext
<1>4. ASSUME NEW m \in Msgs, NEW n \in Deliveries, BuildResult(m, n)
      PROVE  UNCHANGED Visible
  BY <1>4 DEF BuildResult, LifecycleState
<1>5. ASSUME NEW m \in Msgs, NEW n \in Deliveries, PublishResult(m, n)
      PROVE  Lifecycle!LNext \/ UNCHANGED Visible
  <2> DEFINE v == pc[m][n]
  <2>1. /\ v \in Verdicts
        /\ UNCHANGED <<cons, ndel, dlq, refused>>
        /\ \/ answers' = [answers EXCEPT ![m] = @ \cup {v}]
           \/ answers' = answers
    BY <1>5 DEF PublishResult
  <2>2. KnownBy(m, n) /\ n \in Nat /\ n <= ndel[m] /\ n > 0
    BY <2>1, LiveWasDelivered, MaxDeliverAssumption
       DEF IndInv, HandlersKnow, Verdicts, Deliveries, Backstop
  <2>3. ndel[m] \in Nat /\ MaxDeliver \in Nat
    BY MaxDeliverAssumption DEF IndInv, TypeOK, Backstop
  <2>4. m \notin Undecodable /\ ndel[m] > 0 /\ (v = "transient" => ndel[m] >= MaxDeliver)
    BY <2>1, <2>2, <2>3 DEF KnownBy, Running, Verdicts
  <2>5. LifecycleState' = LifecycleState
    BY <2>1 DEF LifecycleState
  <2>6. CASE answers' = answers
    BY <2>1, <2>5, <2>6
  <2>7. CASE answers' = [answers EXCEPT ![m] = @ \cup {v}]
    <3> HIDE DEF v
    <3>1. Lifecycle!Answer(m, v)
      BY <2>1, <2>4, <2>5, <2>7 DEF Lifecycle!Answer, Lifecycle!Exhausted
    <3> QED  BY <2>1, <3>1 DEF Lifecycle!LNext, Verdicts
  <2> QED  BY <2>1, <2>6, <2>7
<1>6. ASSUME NEW m \in Msgs, NEW n \in Deliveries,
             DeadLetter(m, n) \/ EmitFailureDlq(m, n) \/ DropUndecodable(m, n)
      PROVE  Lifecycle!LNext
  <2>1. PICK r \in Reasons :
          /\ \/ pc[m][n] = "dlq" /\ r = "exhausted"
             \/ pc[m][n] = "efdlq" /\ r = "emit_failure"
             \/ pc[m][n] = "drop" /\ r = "decode"
          /\ \/ dlq' = [dlq EXCEPT ![m] = @ \cup {r}] /\ refused' = refused
             \/ dlq' = dlq /\ refused' = refused \cup {m}
          /\ UNCHANGED <<cons, ndel, answers>>
    BY <1>6 DEF DeadLetter, EmitFailureDlq, DropUndecodable, PublishDlq, Reasons
  <2>2. KnownBy(m, n) /\ n \in Nat /\ n <= ndel[m] /\ n > 0
    BY <2>1, LiveWasDelivered, MaxDeliverAssumption
       DEF IndInv, HandlersKnow, Deliveries, Backstop
  <2>3. ndel[m] \in Nat /\ MaxDeliver \in Nat
    BY MaxDeliverAssumption DEF IndInv, TypeOK, Backstop
  <2>4. Lifecycle!DeadLetterAllowed(m, r)
    BY <2>1, <2>2, <2>3
       DEF Lifecycle!DeadLetterAllowed, Lifecycle!Exhausted, KnownBy, Running
  <2>5. LifecycleState' = LifecycleState
    BY <2>1 DEF LifecycleState
  <2>6. Lifecycle!DeadLetterAs(m, r) \/ Lifecycle!RefuseDeadLetter(m)
    BY <2>1, <2>4, <2>5
       DEF Lifecycle!DeadLetterAs, Lifecycle!RefuseDeadLetter, Reasons
  <2> QED  BY <2>6 DEF Lifecycle!LNext, Reasons
<1>7. ASSUME NEW m \in Msgs, NEW n \in Deliveries,
             Ack(m, n) \/ EmitFailureAck(m, n) \/ DropAck(m, n)
      PROVE  Lifecycle!LNext \/ UNCHANGED Visible
  <2>1. /\ pc[m][n] \in {"ack", "efack", "dropack"}
        /\ UNCHANGED <<ndel, answers, dlq, refused>>
        /\ cons' = cons \/ cons' = [cons EXCEPT ![m] = "gone"]
    BY <1>7 DEF Ack, EmitFailureAck, DropAck, SendAck
  <2>2. KnownBy(m, n) /\ n \in Nat /\ n <= ndel[m]
    BY <2>1, LiveWasDelivered DEF IndInv, HandlersKnow
  <2>3. ndel[m] \in Nat /\ MaxDeliver \in Nat
    BY MaxDeliverAssumption DEF IndInv, TypeOK, Backstop
  <2>4. \/ answers[m] # {} \/ dlq[m] # {}
        \/ m \in refused /\ (m \in Undecodable \/ ndel[m] >= MaxDeliver)
    BY <2>1, <2>2, <2>3 DEF KnownBy
  <2>5. CASE cons' = cons
    BY <2>1, <2>5 DEF LifecycleState
  <2>6. CASE cons' = [cons EXCEPT ![m] = "gone"]
    <3>1. LifecycleState' = [LifecycleState EXCEPT ![m] = "settled"]
      BY <2>6, StateMapExcept DEF AbstractState, IndInv
    <3>2. Lifecycle!Settle(m)
      BY <2>1, <2>4, <3>1 DEF Lifecycle!Settle, Lifecycle!Exhausted
    <3> QED  BY <3>2 DEF Lifecycle!LNext
  <2> QED  BY <2>1, <2>5, <2>6
<1>8. ASSUME NEW m \in Msgs, NEW n \in Deliveries, Nak(m, n) \/ EmitFailureNak(m, n)
      PROVE  UNCHANGED Visible
  <2>1. /\ UNCHANGED <<ndel, answers, dlq, refused>>
        /\ \/ cons' = cons
           \/ cons' = [cons EXCEPT ![m] = IF @ = "pending" THEN "due" ELSE @]
    BY <1>8 DEF Nak, EmitFailureNak, SendNak
  <2>2. CASE cons' = cons
    BY <2>1, <2>2 DEF LifecycleState
  <2>3. CASE cons' = [cons EXCEPT ![m] = IF @ = "pending" THEN "due" ELSE @]
    <3> DEFINE c == IF cons[m] = "pending" THEN "due" ELSE cons[m]
    <3>1. AbstractState(c) = AbstractState(cons[m])
      BY DEF AbstractState
    <3>2. cons' = [cons EXCEPT ![m] = c]
      BY <2>3
    <3> HIDE DEF c
    <3>3. LifecycleState' = LifecycleState
      BY <3>1, <3>2, StateMapSame DEF IndInv
    <3> QED  BY <2>1, <3>3
  <2> QED  BY <2>1, <2>2, <2>3
<1>9. ASSUME NEW w \in Workers,
             \/ Crash(w) \/ Sigterm(w) \/ DrainDone(w) \/ DrainTimeout(w)
             \/ Start(w)
      PROVE  UNCHANGED Visible
  BY <1>9 DEF Crash, Sigterm, DrainDone, DrainTimeout, Start, Stop, LifecycleState
<1>10. ASSUME UNCHANGED vars
       PROVE  UNCHANGED Visible
  <2>1. UNCHANGED <<cons, ndel, answers, dlq, refused>>
    BY <1>10 DEF vars
  <2> QED  BY <2>1 DEF LifecycleState
<1>11. Lifecycle!LNext \/ UNCHANGED Visible
  BY <1>1, <1>2, <1>3, <1>4, <1>5, <1>6, <1>7, <1>8, <1>9, <1>10 DEF Next, Handler
<1> QED  BY <1>11 DEF Lifecycle!lvars

(* Whatever the handlers, replicas and timers do, the caller and the operator  *)
(* see a behaviour of RequestLifecycle.                                        *)
THEOREM DispatcherImplementsLifecycle == SafetySpec => ImplementsLifecycle
<1>1. IndInv /\ [Next]_vars => [Lifecycle!LNext]_(Lifecycle!lvars)
  BY StepMaps
<1> QED
  BY InitMaps, <1>1, Invariance, PTL DEF SafetySpec, ImplementsLifecycle, Lifecycle!LSpec
=================================================================================
