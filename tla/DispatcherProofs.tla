--------------------------- MODULE DispatcherProofs ---------------------------
(* The promises of Dispatcher for every number of messages, replicas, stops    *)
(* and every delivery budget: those that hold with overlapping handlers too,   *)
(* and then those that need ack_wait to outlast the handlers.                  *)
EXTENDS Dispatcher, FiniteSetTheorems, FunctionTheorems, TLAPS

(* The delivery counter and the handlers agree: delivery n was made iff its    *)
(* handler is not idle, and a message not yet delivered has no delivery.       *)
Counted ==
    \A m \in Msgs :
        /\ cons[m] = "new" => ndel[m] = 0
        /\ cons[m] = "exceeded" => ndel[m] = Backstop
        /\ \A n \in Deliveries : pc[m][n] = "idle" <=> n > ndel[m]

(* A tracked task is running, and on one replica only.                         *)
Tracked ==
    \A w \in Workers : \A m \in Msgs : \A n \in Deliveries :
        <<m, n>> \in inflight[w] =>
            /\ pc[m][n] \in Running
            /\ \A x \in Workers : <<m, n>> \in inflight[x] => x = w

(* What a handler knows at each await.                                         *)
KnownBy(m, n) ==
    /\ pc[m][n] \in {"nak", "efnak", "retry"} => n < MaxDeliver
    /\ pc[m][n] \in {"transient", "dlq", "efdlq", "efack"} => n >= MaxDeliver
    /\ pc[m][n] = "ack" => answers[m] # {}
    /\ pc[m][n] = "dlq" => "transient" \in answers[m]
    /\ pc[m][n] \in {"efack", "dropack"} => dlq[m] # {} \/ m \in refused
    /\ pc[m][n] \in {"drop", "dropack"} => m \in Undecodable
    /\ pc[m][n] \in Running \ {"drop", "dropack"} => m \notin Undecodable
    /\ pc[m][n] = "done" => cons[m] = "gone"
HandlersKnow == \A m \in Msgs : \A n \in Deliveries : KnownBy(m, n)

IndInv ==
    /\ TypeOK /\ Counted /\ Tracked /\ HandlersKnow
    /\ LossNeedsRefusedDlq /\ GivesUpOnlyWhenExhausted /\ DeadLetterAfterAnswer

-------------------------------------------------------------------------------
(* What moving one task does to the handlers and to the tracked tasks.         *)
LEMMA GotoFacts ==
    ASSUME TypeOK, NEW m \in Msgs, NEW n \in Deliveries,
           NEW p \in Running \cup Ended, Goto(m, n, p)
    PROVE  /\ pc' \in [Msgs -> [Deliveries -> {"idle"} \cup Running \cup Ended]]
           /\ inflight' \in [Workers -> SUBSET (Msgs \X Deliveries)]
           /\ pc'[m][n] = p
           /\ \A k \in Msgs : \A j \in Deliveries :
                 k # m \/ j # n => pc'[k][j] = pc[k][j]
           /\ \A w \in Workers : inflight'[w] \subseteq inflight[w]
           /\ p \in Ended => \A w \in Workers : <<m, n>> \notin inflight'[w]
<1>1. pc' = [pc EXCEPT ![m][n] = p]
  BY DEF Goto
<1>2. pc \in [Msgs -> [Deliveries -> {"idle"} \cup Running \cup Ended]]
  BY DEF TypeOK
<1>3. /\ pc' \in [Msgs -> [Deliveries -> {"idle"} \cup Running \cup Ended]]
      /\ pc'[m][n] = p
      /\ \A k \in Msgs : \A j \in Deliveries :
            k # m \/ j # n => pc'[k][j] = pc[k][j]
  BY <1>1, <1>2
<1>4. /\ inflight' \in [Workers -> SUBSET (Msgs \X Deliveries)]
      /\ \A w \in Workers : inflight'[w] \subseteq inflight[w]
      /\ p \in Ended => \A w \in Workers : <<m, n>> \notin inflight'[w]
  <2>1. CASE p \in Ended
    <3>1. inflight' = [w \in Workers |-> inflight[w] \ {<<m, n>>}]
      BY <2>1 DEF Goto
    <3>2. inflight \in [Workers -> SUBSET (Msgs \X Deliveries)]
      BY DEF TypeOK
    <3> QED  BY <3>1, <3>2
  <2>2. CASE p \notin Ended
    BY <2>2 DEF Goto, TypeOK
  <2> QED  BY <2>1, <2>2
<1> QED  BY <1>3, <1>4

(* A step of one running handler that only adds answers, dead letters and      *)
(* refusals, and moves messages only towards "due" or "gone", keeps what every *)
(* other handler knows.                                                        *)
LEMMA HandlerStep ==
    ASSUME TypeOK, Counted, Tracked, HandlersKnow,
           NEW m \in Msgs, NEW n \in Deliveries, NEW p \in Running \cup Ended,
           Live(m, n), Goto(m, n, p), KnownBy(m, n)',
           UNCHANGED <<ndel, worker, stops>>,
           cons' \in [Msgs -> ConsumerStates],
           \A k \in Msgs : \/ cons'[k] = cons[k] \/ cons'[k] = "gone"
                           \/ cons[k] = "pending" /\ cons'[k] = "due",
           answers' \in [Msgs -> SUBSET Verdicts],
           \A k \in Msgs : answers[k] \subseteq answers'[k],
           dlq' \in [Msgs -> SUBSET Reasons],
           \A k \in Msgs : dlq[k] \subseteq dlq'[k],
           refused' \subseteq Msgs, refused \subseteq refused'
    PROVE  TypeOK' /\ Counted' /\ Tracked' /\ HandlersKnow'
<1>1. /\ pc' \in [Msgs -> [Deliveries -> {"idle"} \cup Running \cup Ended]]
      /\ inflight' \in [Workers -> SUBSET (Msgs \X Deliveries)]
      /\ pc'[m][n] = p
      /\ \A k \in Msgs : \A j \in Deliveries :
            k # m \/ j # n => pc'[k][j] = pc[k][j]
      /\ \A w \in Workers : inflight'[w] \subseteq inflight[w]
      /\ p \in Ended => \A w \in Workers : <<m, n>> \notin inflight'[w]
  BY GotoFacts
<1>2. TypeOK'
  BY <1>1 DEF TypeOK
<1>3. p # "idle" /\ pc[m][n] # "idle"
  BY DEF Live, Running, Ended, Verdicts
<1>4. Counted'
  <2> SUFFICES ASSUME NEW k \in Msgs
               PROVE  /\ cons'[k] = "new" => ndel'[k] = 0
                      /\ cons'[k] = "exceeded" => ndel'[k] = Backstop'
                      /\ \A j \in Deliveries : pc'[k][j] = "idle" <=> j > ndel'[k]
    BY DEF Counted, Deliveries, Backstop
  <2>1. ndel'[k] = ndel[k]
    OBVIOUS
  <2>2. \A j \in Deliveries : pc'[k][j] = "idle" <=> pc[k][j] = "idle"
    BY <1>1, <1>3
  <2> QED  BY <2>1, <2>2 DEF Counted, Backstop
<1>5. Tracked'
  <2> SUFFICES ASSUME NEW w \in Workers, NEW k \in Msgs, NEW j \in Deliveries,
                      <<k, j>> \in inflight'[w]
               PROVE  /\ pc'[k][j] \in Running
                      /\ \A y \in Workers : <<k, j>> \in inflight'[y] => y = w
    BY DEF Tracked, Deliveries, Backstop
  <2>1. \A y \in Workers : <<k, j>> \in inflight'[y] => y = w
    BY <1>1 DEF Tracked
  <2>2. CASE k = m /\ j = n
    BY <1>1, <2>1, <2>2
  <2>3. CASE k # m \/ j # n
    BY <1>1, <2>1, <2>3 DEF Tracked
  <2> QED  BY <2>2, <2>3
<1>6. HandlersKnow'
  <2> SUFFICES ASSUME NEW k \in Msgs, NEW j \in Deliveries
               PROVE  KnownBy(k, j)'
    BY DEF HandlersKnow, Deliveries, Backstop
  <2>1. CASE k = m /\ j = n
    BY <2>1
  <2>2. CASE k # m \/ j # n
    <3>1. pc'[k][j] = pc[k][j] /\ KnownBy(k, j)
      BY <1>1, <2>2 DEF HandlersKnow
    <3>2. cons[k] = "gone" => cons'[k] = "gone"
      OBVIOUS
    <3>3. answers[k] \subseteq answers'[k] /\ dlq[k] \subseteq dlq'[k]
      OBVIOUS
    <3> QED  BY <3>1, <3>2, <3>3 DEF KnownBy
  <2> QED  BY <2>1, <2>2
<1> QED  BY <1>2, <1>4, <1>5, <1>6

(* A running handler belongs to a delivery that was made.                      *)
LEMMA LiveWasDelivered ==
    ASSUME TypeOK, Counted, NEW m \in Msgs, NEW n \in Deliveries,
           pc[m][n] # "idle"
    PROVE  n \in Nat /\ n <= ndel[m]
BY MaxDeliverAssumption DEF TypeOK, Counted, Deliveries, Backstop

(* The pipeline came to a verdict.                                             *)
LEMMA BuildResultStep ==
    ASSUME IndInv, NEW m \in Msgs, NEW n \in Deliveries, BuildResult(m, n)
    PROVE  IndInv'
<1>1. PICK v \in Verdicts : Goto(m, n, Emit(v, n))
  BY DEF BuildResult
<1> DEFINE p == Emit(v, n)
<1>2. n \in Nat
  BY MaxDeliverAssumption DEF Deliveries, Backstop
<1>3. /\ p \in Verdicts \cup {"nak"}
      /\ p = "nak" => n < MaxDeliver
      /\ p = "transient" => n >= MaxDeliver
  BY <1>2, MaxDeliverAssumption DEF Emit, Terminal, RetriesLeft, Verdicts
<1>4. p \in Running \cup Ended
  BY <1>3 DEF Running
<1>5. pc'[m][n] = p
  BY <1>1, <1>4, GotoFacts DEF IndInv
<1>6. Live(m, n) /\ m \notin Undecodable
  BY DEF BuildResult, Live, Running, IndInv, HandlersKnow, KnownBy
<1>7. KnownBy(m, n)'
  BY <1>3, <1>5, <1>6 DEF KnownBy, Verdicts
<1> HIDE DEF p
<1>8. TypeOK' /\ Counted' /\ Tracked' /\ HandlersKnow'
  <2>1. Goto(m, n, p)
    BY <1>1 DEF p
  <2>2. UNCHANGED <<cons, ndel, worker, answers, dlq, refused, stops>>
    BY DEF BuildResult
  <2> QED  BY <1>4, <1>6, <1>7, <2>1, <2>2, HandlerStep DEF IndInv, TypeOK
<1> QED
  BY <1>8 DEF IndInv, BuildResult, LossNeedsRefusedDlq,
              GivesUpOnlyWhenExhausted, DeadLetterAfterAnswer

(* A result was published, or was not.                                         *)
LEMMA PublishResultStep ==
    ASSUME IndInv, NEW m \in Msgs, NEW n \in Deliveries, PublishResult(m, n)
    PROVE  IndInv'
<1> DEFINE v == pc[m][n]
<1>1. /\ v \in Verdicts
      /\ UNCHANGED <<cons, ndel, worker, dlq, refused, stops>>
  BY DEF PublishResult
<1>2. Live(m, n) /\ m \notin Undecodable /\ (v = "transient" => n >= MaxDeliver)
  BY <1>1 DEF Live, Running, Verdicts, IndInv, HandlersKnow, KnownBy
<1>3. n \in Nat /\ n <= ndel[m]
  BY <1>1, LiveWasDelivered DEF IndInv, Verdicts
<1>4. PICK p \in {AfterResult(v), EmitFailure(n)} :
        /\ Goto(m, n, p)
        /\ \/ answers' = [answers EXCEPT ![m] = @ \cup {v}]
           \/ answers' = answers /\ p = EmitFailure(n)
  BY DEF PublishResult
<1>5. /\ answers' \in [Msgs -> SUBSET Verdicts]
      /\ \A k \in Msgs : answers[k] \subseteq answers'[k]
      /\ \A k \in Msgs : answers'[k] \subseteq answers[k] \cup {v}
      /\ \A k \in Msgs : k # m => answers'[k] = answers[k]
      /\ p # EmitFailure(n) => v \in answers'[m]
  <2>1. answers \in [Msgs -> SUBSET Verdicts]
    BY DEF IndInv, TypeOK
  <2>2. CASE answers' = [answers EXCEPT ![m] = @ \cup {v}]
    BY <1>1, <2>1, <2>2
  <2>3. CASE answers' = answers /\ p = EmitFailure(n)
    BY <2>1, <2>3
  <2> QED  BY <1>4, <2>2, <2>3
<1>6. /\ \/ EmitFailure(n) = "efnak" /\ n < MaxDeliver
         \/ EmitFailure(n) = "efdlq" /\ n >= MaxDeliver
      /\ \/ AfterResult(v) = "ack"
         \/ AfterResult(v) = "dlq" /\ v = "transient"
  BY <1>1, <1>3, MaxDeliverAssumption
     DEF EmitFailure, RetriesLeft, AfterResult, Terminal, Verdicts
<1>7. p \in Running \cup Ended
  BY <1>4, <1>6 DEF Running
<1>8. pc'[m][n] = p
  BY <1>4, <1>7, GotoFacts DEF IndInv
<1>9. KnownBy(m, n)'
  BY <1>1, <1>2, <1>4, <1>5, <1>6, <1>8 DEF KnownBy
<1> HIDE DEF v
<1>10. TypeOK' /\ Counted' /\ Tracked' /\ HandlersKnow'
  BY <1>1, <1>2, <1>4, <1>5, <1>7, <1>9, HandlerStep DEF IndInv, TypeOK
<1>11. LossNeedsRefusedDlq' /\ DeadLetterAfterAnswer'
  BY <1>1, <1>5 DEF IndInv, LossNeedsRefusedDlq, DeadLetterAfterAnswer
<1>12. GivesUpOnlyWhenExhausted'
  <2>1. v = "transient" => ndel[m] >= MaxDeliver
    BY <1>2, <1>3, MaxDeliverAssumption DEF v, IndInv, TypeOK, Backstop
  <2> QED  BY <1>1, <1>5, <2>1 DEF IndInv, GivesUpOnlyWhenExhausted
<1> QED  BY <1>10, <1>11, <1>12 DEF IndInv

(* The branch an emit failure takes, by what is left of the budget.            *)
LEMMA EmitFailureBranch ==
    ASSUME NEW n \in Nat
    PROVE  \/ EmitFailure(n) = "efnak" /\ n < MaxDeliver
           \/ EmitFailure(n) = "efdlq" /\ n >= MaxDeliver
BY MaxDeliverAssumption DEF EmitFailure, RetriesLeft

(* One of the three dead-letter publishes, whatever its outcome.               *)
LEMMA DlqStep ==
    ASSUME IndInv, NEW m \in Msgs, NEW n \in Deliveries,
           DeadLetter(m, n) \/ EmitFailureDlq(m, n) \/ DropUndecodable(m, n)
    PROVE  IndInv'
<1>1. pc[m][n] \in {"dlq", "efdlq", "drop"}
  BY DEF DeadLetter, EmitFailureDlq, DropUndecodable
<1>2. Live(m, n) /\ KnownBy(m, n)
  BY <1>1 DEF Live, Running, IndInv, HandlersKnow
<1>3. n \in Nat /\ n <= ndel[m] /\ ndel[m] \in Nat
  <2>1. n \in Nat /\ n <= ndel[m]
    BY <1>1, LiveWasDelivered DEF IndInv
  <2>2. ndel[m] \in Nat
    BY MaxDeliverAssumption DEF IndInv, TypeOK, Backstop
  <2> QED  BY <2>1, <2>2
<1>4. PICK reason \in Reasons, p \in {"ack", "efack", "dropack", EmitFailure(n)} :
        /\ Goto(m, n, p)
        /\ \/ dlq' = [dlq EXCEPT ![m] = @ \cup {reason}] /\ refused' = refused
           \/ /\ dlq' = dlq /\ refused' = refused \cup {m}
              /\ p # "ack"
        /\ \/ pc[m][n] = "dlq" /\ reason = "exhausted" /\ p \in {"ack", EmitFailure(n)}
           \/ pc[m][n] = "efdlq" /\ reason = "emit_failure" /\ p = "efack"
           \/ pc[m][n] = "drop" /\ reason = "decode" /\ p = "dropack"
  <2>1. EmitFailure(n) # "ack"
    BY <1>3, EmitFailureBranch
  <2>2. CASE DeadLetter(m, n)
    BY <2>1, <2>2 DEF DeadLetter, PublishDlq, Reasons
  <2>3. CASE EmitFailureDlq(m, n)
    BY <2>3 DEF EmitFailureDlq, PublishDlq, Reasons
  <2>4. CASE DropUndecodable(m, n)
    BY <2>4 DEF DropUndecodable, PublishDlq, Reasons
  <2> QED  BY <2>2, <2>3, <2>4
<1>5. UNCHANGED <<cons, ndel, worker, answers, stops>>
  BY DEF DeadLetter, EmitFailureDlq, DropUndecodable, PublishDlq
<1>6. /\ dlq' \in [Msgs -> SUBSET Reasons]
      /\ \A k \in Msgs : dlq[k] \subseteq dlq'[k]
      /\ \A k \in Msgs : k # m => dlq'[k] = dlq[k]
      /\ dlq'[m] \subseteq dlq[m] \cup {reason}
      /\ refused' \subseteq Msgs /\ refused \subseteq refused'
      /\ dlq'[m] # {} \/ m \in refused'
  <2>1. dlq \in [Msgs -> SUBSET Reasons] /\ refused \subseteq Msgs
    BY DEF IndInv, TypeOK
  <2>2. CASE dlq' = [dlq EXCEPT ![m] = @ \cup {reason}] /\ refused' = refused
    BY <2>1, <2>2
  <2>3. CASE dlq' = dlq /\ refused' = refused \cup {m}
    BY <2>1, <2>3
  <2> QED  BY <1>4, <2>2, <2>3
<1>7. p \in Running \cup Ended
  BY <1>3, <1>4, EmitFailureBranch DEF Running
<1>8. pc'[m][n] = p
  <2>1. TypeOK /\ Goto(m, n, p)
    BY <1>4 DEF IndInv
  <2> QED  BY <1>7, <2>1, GotoFacts
<1>9. KnownBy(m, n)'
  <2>1. m \in Undecodable <=> pc[m][n] = "drop"
    BY <1>1, <1>2 DEF KnownBy, Running
  <2>2. CASE pc[m][n] = "dlq" /\ p = "ack"
    BY <1>2, <1>5, <1>8, <2>1, <2>2 DEF KnownBy
  <2>3. CASE pc[m][n] = "dlq" /\ p = EmitFailure(n)
    BY <1>2, <1>3, <1>5, <1>8, <2>1, <2>3, EmitFailureBranch DEF KnownBy
  <2>4. CASE pc[m][n] = "efdlq" /\ p = "efack"
    BY <1>2, <1>6, <1>8, <2>1, <2>4 DEF KnownBy
  <2>5. CASE pc[m][n] = "drop" /\ p = "dropack"
    BY <1>6, <1>8, <2>1, <2>5 DEF KnownBy
  <2> QED  BY <1>4, <2>2, <2>3, <2>4, <2>5
<1>10. TypeOK' /\ Counted' /\ Tracked' /\ HandlersKnow'
  BY <1>2, <1>4, <1>5, <1>6, <1>7, <1>9, HandlerStep DEF IndInv, TypeOK
<1>11. LossNeedsRefusedDlq'
  BY <1>5, <1>6 DEF IndInv, LossNeedsRefusedDlq
<1>12. DeadLetterAfterAnswer'
  BY <1>2, <1>4, <1>5, <1>6 DEF IndInv, DeadLetterAfterAnswer, KnownBy
<1>13. GivesUpOnlyWhenExhausted'
  <2>1. reason = "decode" \/ ndel[m] >= MaxDeliver
    BY <1>2, <1>3, <1>4, MaxDeliverAssumption DEF KnownBy
  <2> QED  BY <1>5, <1>6, <2>1 DEF IndInv, GivesUpOnlyWhenExhausted
<1> QED  BY <1>10, <1>11, <1>12, <1>13 DEF IndInv

(* One of the three acks: it only takes effect where somebody was told.        *)
LEMMA AckStep ==
    ASSUME IndInv, NEW m \in Msgs, NEW n \in Deliveries,
           Ack(m, n) \/ EmitFailureAck(m, n) \/ DropAck(m, n)
    PROVE  IndInv'
<1>1. pc[m][n] \in {"ack", "efack", "dropack"}
  BY DEF Ack, EmitFailureAck, DropAck
<1>2. Live(m, n) /\ KnownBy(m, n)
  BY <1>1 DEF Live, Running, IndInv, HandlersKnow
<1>3. n \in Nat /\ n <= ndel[m] /\ ndel[m] \in Nat
  <2>1. n \in Nat /\ n <= ndel[m]
    BY <1>1, LiveWasDelivered DEF IndInv
  <2>2. ndel[m] \in Nat
    BY MaxDeliverAssumption DEF IndInv, TypeOK, Backstop
  <2> QED  BY <2>1, <2>2
<1>4. PICK p \in {"done", "unacked", EmitFailure(n)} :
        /\ Goto(m, n, p)
        /\ \/ cons' = [cons EXCEPT ![m] = "gone"] /\ p = "done"
           \/ cons' = cons /\ p = "unacked"
           \/ cons' = cons /\ p = EmitFailure(n) /\ pc[m][n] = "ack"
  BY DEF Ack, EmitFailureAck, DropAck, SendAck
<1>5. UNCHANGED <<ndel, worker, answers, dlq, refused, stops>>
  BY DEF Ack, EmitFailureAck, DropAck, SendAck
<1>6. /\ cons' \in [Msgs -> ConsumerStates]
      /\ \A k \in Msgs : k # m => cons'[k] = cons[k]
      /\ cons'[m] = cons[m] \/ cons'[m] = "gone"
      /\ p = "done" => cons'[m] = "gone"
  BY <1>3, <1>4, EmitFailureBranch DEF IndInv, TypeOK, ConsumerStates
<1>7. p \in Running \cup Ended
  BY <1>3, <1>4, EmitFailureBranch DEF Running, Ended
<1>8. pc'[m][n] = p
  <2>1. TypeOK /\ Goto(m, n, p)
    BY <1>4 DEF IndInv
  <2> QED  BY <1>7, <2>1, GotoFacts
<1>9. KnownBy(m, n)'
  <2>1. CASE p = "done"
    BY <1>6, <1>8, <2>1 DEF KnownBy, Running, Verdicts
  <2>2. CASE p = "unacked"
    BY <1>8, <2>2 DEF KnownBy, Running, Verdicts
  <2>3. CASE p = EmitFailure(n) /\ pc[m][n] = "ack"
    <3>1. m \notin Undecodable
      BY <1>2, <2>3 DEF KnownBy, Running
    <3> QED  BY <1>3, <1>8, <2>3, <3>1, EmitFailureBranch DEF KnownBy
  <2> QED  BY <1>4, <2>1, <2>2, <2>3
<1>10. TypeOK' /\ Counted' /\ Tracked' /\ HandlersKnow'
  <2>1. /\ TypeOK /\ Counted /\ Tracked /\ HandlersKnow /\ Goto(m, n, p)
        /\ UNCHANGED <<ndel, worker, stops>>
        /\ answers' = answers /\ dlq' = dlq /\ refused' = refused
    BY <1>4, <1>5 DEF IndInv
  <2>2. /\ answers' \in [Msgs -> SUBSET Verdicts]
        /\ \A k \in Msgs : answers[k] \subseteq answers'[k]
        /\ dlq' \in [Msgs -> SUBSET Reasons]
        /\ \A k \in Msgs : dlq[k] \subseteq dlq'[k]
        /\ refused' \subseteq Msgs /\ refused \subseteq refused'
    BY <2>1 DEF TypeOK
  <2> QED  BY <1>2, <1>6, <1>7, <1>9, <2>1, <2>2, HandlerStep
<1>11. LossNeedsRefusedDlq'
  <2>1. \/ answers[m] # {} \/ dlq[m] # {}
        \/ m \in refused /\ (m \in Undecodable \/ ndel[m] >= MaxDeliver)
    BY <1>1, <1>2, <1>3, MaxDeliverAssumption DEF KnownBy
  <2> QED  BY <1>5, <1>6, <2>1 DEF IndInv, LossNeedsRefusedDlq
<1>12. DeadLetterAfterAnswer' /\ GivesUpOnlyWhenExhausted'
  BY <1>5 DEF IndInv, DeadLetterAfterAnswer, GivesUpOnlyWhenExhausted
<1> QED  BY <1>10, <1>11, <1>12 DEF IndInv

(* One of the two naks.                                                        *)
LEMMA NakStep ==
    ASSUME IndInv, NEW m \in Msgs, NEW n \in Deliveries,
           Nak(m, n) \/ EmitFailureNak(m, n)
    PROVE  IndInv'
<1>1. pc[m][n] \in {"nak", "efnak"}
  BY DEF Nak, EmitFailureNak
<1>2. /\ Live(m, n) /\ n < MaxDeliver /\ m \notin Undecodable
      /\ n \in Nat /\ MaxDeliver \in Nat
  <2>1. Live(m, n) /\ KnownBy(m, n)
    BY <1>1 DEF Live, Running, IndInv, HandlersKnow
  <2>2. n \in Nat
    BY MaxDeliverAssumption DEF Deliveries, Backstop
  <2> QED  BY <1>1, <2>1, <2>2, MaxDeliverAssumption DEF KnownBy, Running
<1>3. EmitFailure(n) = "efnak"
  BY <1>2 DEF EmitFailure, RetriesLeft
<1>4. PICK p \in {"retry", "unacked", "efnak"} :
        /\ Goto(m, n, p)
        /\ \/ cons' = [cons EXCEPT ![m] = IF @ = "pending" THEN "due" ELSE @]
           \/ cons' = cons
  BY <1>3 DEF Nak, EmitFailureNak, SendNak
<1>5. UNCHANGED <<ndel, worker, answers, dlq, refused, stops>>
  BY DEF Nak, EmitFailureNak, SendNak
<1>6. /\ cons' \in [Msgs -> ConsumerStates]
      /\ \A k \in Msgs : \/ cons'[k] = cons[k]
                         \/ cons[k] = "pending" /\ cons'[k] = "due"
  BY <1>4 DEF IndInv, TypeOK, ConsumerStates
<1>7. p \in Running \cup Ended
  BY <1>4 DEF Running, Ended
<1>8. pc'[m][n] = p
  <2>1. TypeOK /\ Goto(m, n, p)
    BY <1>4 DEF IndInv
  <2> QED  BY <1>7, <2>1, GotoFacts
<1>9. KnownBy(m, n)'
  BY <1>2, <1>4, <1>8 DEF KnownBy
<1>10. TypeOK' /\ Counted' /\ Tracked' /\ HandlersKnow'
  <2>1. /\ TypeOK /\ Counted /\ Tracked /\ HandlersKnow /\ Goto(m, n, p)
        /\ UNCHANGED <<ndel, worker, stops>>
        /\ answers' = answers /\ dlq' = dlq /\ refused' = refused
    BY <1>4, <1>5 DEF IndInv
  <2>2. /\ answers' \in [Msgs -> SUBSET Verdicts]
        /\ \A k \in Msgs : answers[k] \subseteq answers'[k]
        /\ dlq' \in [Msgs -> SUBSET Reasons]
        /\ \A k \in Msgs : dlq[k] \subseteq dlq'[k]
        /\ refused' \subseteq Msgs /\ refused \subseteq refused'
    BY <2>1 DEF TypeOK
  <2> QED  BY <1>2, <1>6, <1>7, <1>9, <2>1, <2>2, HandlerStep
<1>11. LossNeedsRefusedDlq' /\ DeadLetterAfterAnswer' /\ GivesUpOnlyWhenExhausted'
  BY <1>5, <1>6 DEF IndInv, LossNeedsRefusedDlq, DeadLetterAfterAnswer,
                    GivesUpOnlyWhenExhausted
<1> QED  BY <1>10, <1>11 DEF IndInv

(* A delivery, first or repeated.                                              *)
LEMMA DeliverStep ==
    ASSUME IndInv, NEW m \in Msgs, NEW w \in Workers, Deliver(m, w)
    PROVE  IndInv'
<1> DEFINE n == ndel[m] + 1
<1>1. /\ cons[m] \in {"new", "due"}
      /\ cons' = [cons EXCEPT ![m] = "pending"]
      /\ ndel' = [ndel EXCEPT ![m] = n]
      /\ pc' = [pc EXCEPT ![m][n] = FirstStep(m)]
      /\ inflight' = [inflight EXCEPT ![w] = @ \cup {<<m, n>>}]
      /\ UNCHANGED <<worker, answers, dlq, refused, stops>>
  BY DEF Deliver, MayRedeliver
<1>2. ndel[m] \in Nat /\ n \in Deliveries /\ pc[m][n] = "idle"
  <2>1. ndel[m] \in 0..Backstop /\ Backstop \in Nat /\ Backstop > 0
    BY MaxDeliverAssumption DEF IndInv, TypeOK, Backstop
  <2>2. ndel[m] < Backstop
    BY <2>1 DEF Deliver, MayRedeliver, IndInv, Counted
  <2>3. n \in Deliveries
    BY <2>1, <2>2 DEF Deliveries
  <2> QED  BY <2>1, <2>3 DEF IndInv, Counted
<1>3. /\ cons' \in [Msgs -> ConsumerStates]
      /\ cons'[m] = "pending"
      /\ \A k \in Msgs : k # m => cons'[k] = cons[k]
  BY <1>1 DEF IndInv, TypeOK, ConsumerStates
<1>4. /\ ndel' \in [Msgs -> 0..Backstop]
      /\ ndel'[m] = n
      /\ \A k \in Msgs : k # m => ndel'[k] = ndel[k]
  BY <1>1, <1>2 DEF IndInv, TypeOK, Deliveries
<1>5. FirstStep(m) \in Running /\ FirstStep(m) \in {"build", "drop"}
  BY DEF FirstStep, Running
<1>6. /\ pc' \in [Msgs -> [Deliveries -> {"idle"} \cup Running \cup Ended]]
      /\ pc'[m][n] = FirstStep(m)
      /\ \A k \in Msgs : \A j \in Deliveries :
            k # m \/ j # n => pc'[k][j] = pc[k][j]
  <2>1. pc \in [Msgs -> [Deliveries -> {"idle"} \cup Running \cup Ended]]
    BY DEF IndInv, TypeOK
  <2> HIDE DEF n
  <2> QED  BY <1>1, <1>2, <1>5, <2>1
<1>7. /\ inflight' \in [Workers -> SUBSET (Msgs \X Deliveries)]
      /\ inflight'[w] = inflight[w] \cup {<<m, n>>}
      /\ \A x \in Workers : x # w => inflight'[x] = inflight[x]
  <2>1. inflight \in [Workers -> SUBSET (Msgs \X Deliveries)]
    BY DEF IndInv, TypeOK
  <2> HIDE DEF n
  <2> QED  BY <1>1, <1>2, <2>1
<1>8. TypeOK'
  BY <1>1, <1>3, <1>4, <1>6, <1>7 DEF IndInv, TypeOK
<1>9. Counted'
  <2> SUFFICES ASSUME NEW k \in Msgs
               PROVE  /\ cons'[k] = "new" => ndel'[k] = 0
                      /\ cons'[k] = "exceeded" => ndel'[k] = Backstop'
                      /\ \A j \in Deliveries : pc'[k][j] = "idle" <=> j > ndel'[k]
    BY DEF Counted, Deliveries, Backstop
  <2>1. CASE k # m
    BY <1>3, <1>4, <1>6, <2>1 DEF IndInv, Counted, Backstop
  <2>2. CASE k = m
    <3>1. ASSUME NEW j \in Deliveries
          PROVE  pc'[m][j] = "idle" <=> j > n
      <4>1. j \in Nat
        BY MaxDeliverAssumption DEF Deliveries, Backstop
      <4>2. pc[m][j] = "idle" <=> j > ndel[m]
        BY DEF IndInv, Counted
      <4>3. CASE j = n
        BY <1>2, <1>5, <1>6, <4>1, <4>3
      <4>4. CASE j # n
        BY <1>2, <1>6, <4>1, <4>2, <4>4
      <4> QED  BY <4>3, <4>4
    <3> QED  BY <1>3, <1>4, <2>2, <3>1
  <2> QED  BY <2>1, <2>2
<1> HIDE DEF n
<1>10. Tracked'
  <2> SUFFICES ASSUME NEW x \in Workers, NEW k \in Msgs, NEW j \in Deliveries,
                      <<k, j>> \in inflight'[x]
               PROVE  /\ pc'[k][j] \in Running
                      /\ \A y \in Workers : <<k, j>> \in inflight'[y] => y = x
    BY DEF Tracked, Deliveries, Backstop
  <2>1. CASE k = m /\ j = n
    <3>1. \A y \in Workers : <<m, n>> \notin inflight[y]
      BY <1>2 DEF IndInv, Tracked, Running, Verdicts
    <3> QED  BY <1>5, <1>6, <1>7, <2>1, <3>1
  <2>2. CASE k # m \/ j # n
    <3>1. \A y \in Workers : <<k, j>> \in inflight'[y] => <<k, j>> \in inflight[y]
      BY <1>7, <2>2
    <3> QED  BY <1>6, <2>2, <3>1 DEF IndInv, Tracked
  <2> QED  BY <2>1, <2>2
<1>11. HandlersKnow'
  <2> SUFFICES ASSUME NEW k \in Msgs, NEW j \in Deliveries
               PROVE  KnownBy(k, j)'
    BY DEF HandlersKnow, Deliveries, Backstop
  <2>1. CASE k = m /\ j = n
    BY <1>6, <2>1 DEF KnownBy, FirstStep
  <2>2. CASE k # m \/ j # n
    <3>1. pc'[k][j] = pc[k][j] /\ KnownBy(k, j)
      BY <1>6, <2>2 DEF IndInv, HandlersKnow
    <3>2. cons[k] = "gone" => cons'[k] = "gone"
      BY <1>1, <1>3
    <3> QED  BY <1>1, <3>1, <3>2 DEF KnownBy
  <2> QED  BY <2>1, <2>2
<1>12. LossNeedsRefusedDlq' /\ DeadLetterAfterAnswer'
  BY <1>1, <1>3, <1>4 DEF IndInv, LossNeedsRefusedDlq, DeadLetterAfterAnswer
<1>13. GivesUpOnlyWhenExhausted'
  <2>1. ndel[m] >= MaxDeliver => n >= MaxDeliver
    BY <1>2, MaxDeliverAssumption DEF n
  <2> QED  BY <1>1, <1>4, <2>1 DEF IndInv, GivesUpOnlyWhenExhausted
<1> QED  BY <1>8, <1>9, <1>10, <1>11, <1>12, <1>13 DEF IndInv

(* The broker's timers.                                                        *)
LEMMA TimerStep ==
    ASSUME IndInv, NEW m \in Msgs, AckWaitExpires(m) \/ Exceed(m)
    PROVE  IndInv'
<1>1. /\ UNCHANGED <<ndel, pc, inflight, worker, answers, dlq, refused, stops>>
      /\ \/ cons[m] = "pending" /\ cons' = [cons EXCEPT ![m] = "due"]
         \/ /\ cons[m] = "due" /\ ndel[m] = Backstop
            /\ cons' = [cons EXCEPT ![m] = "exceeded"]
  BY DEF AckWaitExpires, Exceed
<1>2. TypeOK'
  BY <1>1 DEF IndInv, TypeOK, ConsumerStates
<1>3. Counted' /\ Tracked'
  BY <1>1 DEF IndInv, TypeOK, Counted, Tracked
<1>4. HandlersKnow'
  BY <1>1 DEF IndInv, TypeOK, HandlersKnow, KnownBy
<1>5. LossNeedsRefusedDlq' /\ DeadLetterAfterAnswer' /\ GivesUpOnlyWhenExhausted'
  BY <1>1 DEF IndInv, TypeOK, LossNeedsRefusedDlq, DeadLetterAfterAnswer,
              GivesUpOnlyWhenExhausted
<1> QED  BY <1>2, <1>3, <1>4, <1>5 DEF IndInv

(* A replica stops, by a crash or at the end of a drain: the tasks it tracked  *)
(* end without a word, and know nothing any more.                              *)
LEMMA StopStep ==
    ASSUME IndInv, NEW w \in Workers, NEW p \in {"lost", "cancelled"},
           Stop(w, p), stops' \in 0..MaxStops
    PROVE  IndInv'
<1>1. UNCHANGED <<cons, ndel, answers, dlq, refused>>
  BY DEF Stop
<1>2. p \in Ended /\ p \notin Running /\ p # "idle"
  BY DEF Ended, Running, Verdicts
<1>3. /\ pc' \in [Msgs -> [Deliveries -> {"idle"} \cup Running \cup Ended]]
      /\ \A k \in Msgs : \A j \in Deliveries :
            \/ pc'[k][j] = pc[k][j] /\ <<k, j>> \notin inflight[w]
            \/ pc'[k][j] = p /\ <<k, j>> \in inflight[w]
  BY <1>2 DEF Stop, IndInv, TypeOK
<1>4. TypeOK'
  BY <1>1, <1>3 DEF Stop, IndInv, TypeOK
<1>5. \A k \in Msgs : \A j \in Deliveries : pc'[k][j] = "idle" <=> pc[k][j] = "idle"
  BY <1>2, <1>3 DEF IndInv, Tracked, Running, Verdicts
<1>6. Counted'
  BY <1>1, <1>5 DEF IndInv, Counted
<1>7. Tracked'
  <2> SUFFICES ASSUME NEW x \in Workers, NEW k \in Msgs, NEW j \in Deliveries,
                      <<k, j>> \in inflight'[x]
               PROVE  /\ pc'[k][j] \in Running
                      /\ \A y \in Workers : <<k, j>> \in inflight'[y] => y = x
    BY DEF Tracked, Deliveries, Backstop
  <2>1. /\ inflight'[w] = {}
        /\ \A y \in Workers : y # w => inflight'[y] = inflight[y]
    BY DEF Stop, IndInv, TypeOK
  <2>2. x # w /\ <<k, j>> \notin inflight[w]
    BY <2>1 DEF IndInv, Tracked
  <2> QED  BY <1>3, <2>1, <2>2 DEF IndInv, Tracked
<1>8. HandlersKnow'
  <2> SUFFICES ASSUME NEW k \in Msgs, NEW j \in Deliveries
               PROVE  KnownBy(k, j)'
    BY DEF HandlersKnow, Deliveries, Backstop
  <2>1. CASE pc'[k][j] = pc[k][j]
    BY <1>1, <2>1 DEF IndInv, HandlersKnow, KnownBy
  <2>2. CASE pc'[k][j] = p
    BY <1>2, <2>2 DEF KnownBy
  <2> QED  BY <1>3, <2>1, <2>2
<1>9. LossNeedsRefusedDlq' /\ DeadLetterAfterAnswer' /\ GivesUpOnlyWhenExhausted'
  BY <1>1 DEF IndInv, LossNeedsRefusedDlq, DeadLetterAfterAnswer,
              GivesUpOnlyWhenExhausted
<1> QED  BY <1>4, <1>6, <1>7, <1>8, <1>9 DEF IndInv

-------------------------------------------------------------------------------
(* The invariant holds initially ...                                           *)
LEMMA InitInv == Init => IndInv
<1> SUFFICES ASSUME Init PROVE IndInv
  OBVIOUS
<1>1. Backstop \in Nat /\ MaxStops \in Nat
  BY MaxDeliverAssumption, BoundAssumption DEF Backstop
<1>2. TypeOK
  BY <1>1 DEF Init, TypeOK, ConsumerStates
<1>3. Counted
  BY <1>1 DEF Init, Counted, Deliveries
<1>4. Tracked /\ HandlersKnow
  BY DEF Init, Tracked, HandlersKnow, KnownBy, Running, Verdicts
<1>5. LossNeedsRefusedDlq /\ GivesUpOnlyWhenExhausted /\ DeadLetterAfterAnswer
  BY DEF Init, LossNeedsRefusedDlq, GivesUpOnlyWhenExhausted,
         DeadLetterAfterAnswer
<1> QED  BY <1>2, <1>3, <1>4, <1>5 DEF IndInv

(* ... and every action keeps it.                                              *)
LEMMA NextInv == IndInv /\ [Next]_vars => IndInv'
<1> SUFFICES ASSUME IndInv, [Next]_vars PROVE IndInv'
  OBVIOUS
<1>1. ASSUME NEW m \in Msgs, AckWaitExpires(m) \/ Exceed(m)
      PROVE  IndInv'
  BY <1>1, TimerStep
<1>2. ASSUME NEW m \in Msgs, NEW w \in Workers, Deliver(m, w)
      PROVE  IndInv'
  BY <1>2, DeliverStep
<1>3. ASSUME NEW m \in Msgs, NEW n \in Deliveries, Handler(m, n)
      PROVE  IndInv'
  BY <1>3, BuildResultStep, PublishResultStep, DlqStep, AckStep, NakStep
     DEF Handler
<1>4. ASSUME NEW w \in Workers, Crash(w)
      PROVE  IndInv'
  <2>1. Stop(w, "lost") /\ stops' \in 0..MaxStops
    BY <1>4, BoundAssumption DEF Crash, IndInv, TypeOK
  <2> QED  BY <2>1, StopStep
<1>5. ASSUME NEW w \in Workers, DrainDone(w) \/ DrainTimeout(w)
      PROVE  IndInv'
  <2>1. Stop(w, "cancelled") /\ stops' \in 0..MaxStops
    BY <1>5 DEF DrainDone, DrainTimeout, IndInv, TypeOK
  <2> QED  BY <2>1, StopStep
<1>6. ASSUME NEW w \in Workers, Sigterm(w) \/ Start(w)
      PROVE  IndInv'
  <2>1. /\ UNCHANGED <<cons, ndel, pc, inflight, answers, dlq, refused>>
        /\ worker' \in [Workers -> {"up", "draining", "down"}]
        /\ stops' \in 0..MaxStops
    BY <1>6, BoundAssumption DEF Sigterm, Start, IndInv, TypeOK
  <2>2. TypeOK' /\ Counted' /\ Tracked' /\ HandlersKnow'
    BY <2>1 DEF IndInv, TypeOK, Counted, Tracked, HandlersKnow, KnownBy
  <2>3. LossNeedsRefusedDlq' /\ GivesUpOnlyWhenExhausted' /\ DeadLetterAfterAnswer'
    BY <2>1 DEF IndInv, LossNeedsRefusedDlq, GivesUpOnlyWhenExhausted,
                DeadLetterAfterAnswer
  <2> QED  BY <2>2, <2>3 DEF IndInv
<1>7. CASE UNCHANGED vars
  <2>1. TypeOK' /\ Counted' /\ Tracked' /\ HandlersKnow'
    BY <1>7 DEF vars, IndInv, TypeOK, Counted, Tracked, HandlersKnow, KnownBy
  <2>2. LossNeedsRefusedDlq' /\ GivesUpOnlyWhenExhausted' /\ DeadLetterAfterAnswer'
    BY <1>7 DEF vars, IndInv, LossNeedsRefusedDlq, GivesUpOnlyWhenExhausted,
                DeadLetterAfterAnswer
  <2> QED  BY <2>1, <2>2 DEF IndInv
<1> QED  BY <1>1, <1>2, <1>3, <1>4, <1>5, <1>6, <1>7 DEF Next

(* The inductive invariant holds in every reachable state of the dispatcher.   *)
THEOREM Invariance == SafetySpec => []IndInv
BY InitInv, NextInv, PTL DEF SafetySpec

(* Every variable of the dispatcher keeps its type; in particular no delivery  *)
(* beyond the max_deliver backstop is ever made.                               *)
THEOREM TypeCorrect == SafetySpec => []TypeOK
<1>1. IndInv => TypeOK
  BY DEF IndInv
<1> QED  BY <1>1, Invariance, PTL

(* No request vanishes: one that left the queue with neither an answer nor a   *)
(* dead letter was refused by the DLQ, and was poison or out of budget.        *)
THEOREM NothingVanishes == SafetySpec => []LossNeedsRefusedDlq
<1>1. IndInv => LossNeedsRefusedDlq
  BY DEF IndInv
<1> QED  BY <1>1, Invariance, PTL

(* No handler, stale ones included, gives up on a request before               *)
(* DOCGEN_MAX_DELIVER deliveries were made.                                    *)
THEOREM NeverGivesUpEarly == SafetySpec => []GivesUpOnlyWhenExhausted
<1>1. IndInv => GivesUpOnlyWhenExhausted
  BY DEF IndInv
<1> QED  BY <1>1, Invariance, PTL

(* An exhausted request is dead-lettered only after its caller was answered.   *)
THEOREM AnswerPrecedesDeadLetter == SafetySpec => []DeadLetterAfterAnswer
<1>1. IndInv => DeadLetterAfterAnswer
  BY DEF IndInv
<1> QED  BY <1>1, Invariance, PTL

(* The broker's backstop strands a request only when its last two deliveries   *)
(* failed to report, never because a handler asked for a retry.                *)
THEOREM BackstopIsLastResort == SafetySpec => []StrandedOnlyByLoss
<1>1. IndInv => StrandedOnlyByLoss
  <2> SUFFICES ASSUME IndInv, NEW m \in Msgs, cons[m] = "exceeded",
                      NEW n \in {MaxDeliver, Backstop}
               PROVE  pc[m][n] \in Running \cup {"unacked", "lost", "cancelled"}
    BY DEF StrandedOnlyByLoss
  <2>1. n \in Deliveries /\ n >= MaxDeliver /\ ~(n > Backstop)
    BY MaxDeliverAssumption DEF Deliveries, Backstop
  <2>2. ndel[m] = Backstop
    BY DEF IndInv, Counted
  <2>3. pc[m][n] # "idle"
    BY <2>1, <2>2 DEF IndInv, Counted
  <2>4. pc[m][n] # "done"
    BY <2>1 DEF IndInv, HandlersKnow, KnownBy
  <2>5. pc[m][n] # "retry"
    <3>1. n \in Nat /\ MaxDeliver \in Nat
      BY MaxDeliverAssumption DEF Backstop
    <3>2. KnownBy(m, n)
      BY <2>1 DEF IndInv, HandlersKnow
    <3> QED  BY <2>1, <3>1, <3>2 DEF KnownBy
  <2>6. pc[m][n] \in {"idle"} \cup Running \cup Ended
    BY <2>1 DEF IndInv, TypeOK
  <2> QED  BY <2>3, <2>4, <2>5, <2>6 DEF Ended
<1> QED  BY <1>1, Invariance, PTL
-------------------------------------------------------------------------------
(* Where ack_wait does outlast the handlers, one consumer slot is one handler: *)
(* a message has a running handler only while the broker waits for its answer, *)
(* and only one.                                                               *)
OneHandler ==
    \A m \in Msgs : \A n \in Deliveries : Live(m, n) =>
        /\ cons[m] = "pending"
        /\ \A j \in Deliveries : Live(m, j) => j = n

(* max_ack_pending bounds the slots: a redelivery keeps the one it has.        *)
RoomKept == IsFiniteSet(AckPending) /\ Cardinality(AckPending) <= PoolSize

(* What a step of one handler may touch.                                       *)
LEMMA HandlerTouches ==
    ASSUME TypeOK, NEW m \in Msgs, NEW n \in Deliveries, Handler(m, n)
    PROVE  /\ Live(m, n)
           /\ \A k \in Msgs : \A j \in Deliveries :
                 Live(k, j)' => Live(k, j)
           /\ cons' \in [Msgs -> ConsumerStates]
           /\ \A k \in Msgs : k # m => cons'[k] = cons[k]
           /\ \A k \in Msgs : cons'[k] \in {"pending", "due"} => cons[k] \in {"pending", "due"}
           /\ cons'[m] = cons[m] \/ ~Live(m, n)'
           /\ \A k \in Msgs : k # m => answers'[k] = answers[k] /\ dlq'[k] = dlq[k]
<1>1. Live(m, n)
  BY DEF Handler, BuildResult, PublishResult, DeadLetter, Ack, Nak,
         EmitFailureNak,
         EmitFailureDlq, EmitFailureAck, DropUndecodable, DropAck, Live, Running
<1>2. PICK p \in Running \cup Ended :
         /\ Goto(m, n, p)
         /\ \/ cons' = cons
            \/ cons' = [cons EXCEPT ![m] = "gone"] /\ p = "done"
            \/ /\ cons' = [cons EXCEPT ![m] = IF @ = "pending" THEN "due" ELSE @]
               /\ p = "retry"
         /\ \A k \in Msgs : k # m => answers'[k] = answers[k] /\ dlq'[k] = dlq[k]
  <2>1. /\ \A v \in Verdicts : Emit(v, n) \in Running /\ AfterResult(v) \in Running
        /\ EmitFailure(n) \in Running
    BY DEF Emit, AfterResult, EmitFailure, Running
  <2>2. CASE BuildResult(m, n) \/ PublishResult(m, n)
    BY <2>1, <2>2 DEF BuildResult, PublishResult, TypeOK
  <2>3. CASE DeadLetter(m, n) \/ EmitFailureDlq(m, n) \/ DropUndecodable(m, n)
    BY <2>1, <2>3 DEF DeadLetter, EmitFailureDlq, DropUndecodable, PublishDlq,
                      TypeOK, Running
  <2>4. CASE Ack(m, n) \/ EmitFailureAck(m, n) \/ DropAck(m, n)
    BY <2>1, <2>4 DEF Ack, EmitFailureAck, DropAck, SendAck, Ended
  <2>5. CASE Nak(m, n) \/ EmitFailureNak(m, n)
    BY <2>1, <2>5 DEF Nak, EmitFailureNak, SendNak, Ended
  <2> QED  BY <2>2, <2>3, <2>4, <2>5 DEF Handler
<1>3. /\ pc'[m][n] = p
      /\ \A k \in Msgs : \A j \in Deliveries : k # m \/ j # n => pc'[k][j] = pc[k][j]
  <2>1. Goto(m, n, p) /\ p \in Running \cup Ended
    BY <1>2
  <2>2. pc' = [pc EXCEPT ![m][n] = p]
    BY <2>1 DEF Goto
  <2> QED  BY <2>2 DEF TypeOK
<1>4. \A k \in Msgs : \A j \in Deliveries : Live(k, j)' => Live(k, j)
  BY <1>1, <1>3 DEF Live
<1>5. p \in {"done", "retry"} => ~Live(m, n)'
  BY <1>3 DEF Live, Running, Verdicts
<1>6. /\ cons' \in [Msgs -> ConsumerStates]
      /\ \A k \in Msgs : k # m => cons'[k] = cons[k]
      /\ \A k \in Msgs : cons'[k] \in {"pending", "due"} => cons[k] \in {"pending", "due"}
  BY <1>2 DEF TypeOK, ConsumerStates
<1>7. cons'[m] = cons[m] \/ ~Live(m, n)'
  BY <1>2, <1>5
<1> QED  BY <1>1, <1>2, <1>4, <1>6, <1>7

(* A second delivery comes only after the answer to the first, if ack_wait is  *)
(* long enough.                                                                *)
LEMMA OneHandlerStep ==
    ASSUME ~SlowHandlers, TypeOK, OneHandler, [Next]_vars
    PROVE  OneHandler'
<1> SUFFICES ASSUME NEW k \in Msgs, NEW i \in Deliveries, Live(k, i)'
             PROVE  /\ cons'[k] = "pending"
                    /\ \A j \in Deliveries : Live(k, j)' => j = i
  BY DEF OneHandler, Deliveries, Backstop
<1>1. ASSUME NEW m \in Msgs, AckWaitExpires(m) \/ Exceed(m)
      PROVE  /\ cons'[k] = "pending"
             /\ \A j \in Deliveries : Live(k, j)' => j = i
  BY <1>1 DEF AckWaitExpires, AckWaitOver, LiveSomewhere, Exceed, OneHandler,
         Live, TypeOK
<1>2. ASSUME NEW m \in Msgs, NEW w \in Workers, Deliver(m, w)
      PROVE  /\ cons'[k] = "pending"
             /\ \A j \in Deliveries : Live(k, j)' => j = i
  <2>1. /\ cons[m] # "pending" /\ cons' = [cons EXCEPT ![m] = "pending"]
        /\ pc' = [pc EXCEPT ![m][ndel[m] + 1] = FirstStep(m)]
    BY <1>2 DEF Deliver, MayRedeliver
  <2>2. cons'[m] = "pending" /\ \A j \in Msgs : j # m => cons'[j] = cons[j]
    BY <2>1 DEF TypeOK
  <2>3. \A x \in Msgs : \A j \in Deliveries :
           x # m \/ j # ndel[m] + 1 => pc'[x][j] = pc[x][j]
    BY <2>1 DEF TypeOK
  <2>4. \A j \in Deliveries : ~Live(m, j)
    BY <2>1 DEF OneHandler
  <2> QED  BY <2>2, <2>3, <2>4 DEF OneHandler, Live
<1>3. ASSUME NEW m \in Msgs, NEW n \in Deliveries, Handler(m, n)
      PROVE  /\ cons'[k] = "pending"
             /\ \A j \in Deliveries : Live(k, j)' => j = i
  BY <1>3, HandlerTouches DEF OneHandler
<1>4. ASSUME NEW w \in Workers, NEW p \in {"lost", "cancelled"}, Stop(w, p)
      PROVE  /\ cons'[k] = "pending"
             /\ \A j \in Deliveries : Live(k, j)' => j = i
  <2>1. \A j \in Deliveries : Live(k, j)' => Live(k, j)
    BY <1>4 DEF Stop, Live, Running, Verdicts
  <2> QED  BY <1>4, <2>1 DEF Stop, OneHandler
<1>5. ASSUME NEW w \in Workers, Sigterm(w) \/ Start(w)
      PROVE  /\ cons'[k] = "pending"
             /\ \A j \in Deliveries : Live(k, j)' => j = i
  BY <1>5 DEF Sigterm, Start, OneHandler, Live
<1>6. CASE UNCHANGED vars
  BY <1>6 DEF vars, OneHandler, Live
<1> QED
  BY <1>1, <1>2, <1>3, <1>4, <1>5, <1>6
     DEF Next, Crash, DrainDone, DrainTimeout

(* Only a first delivery takes a slot, and the broker makes it only where one  *)
(* is free.                                                                    *)
LEMMA RoomStep ==
    ASSUME TypeOK, RoomKept, [Next]_vars
    PROVE  RoomKept'
<1>1. CASE AckPending' \subseteq AckPending
  <2>1. IsFiniteSet(AckPending') /\ Cardinality(AckPending') <= Cardinality(AckPending)
    BY <1>1, FS_Subset DEF RoomKept
  <2>2. Cardinality(AckPending') \in Nat /\ Cardinality(AckPending) \in Nat
    BY <2>1, FS_CardinalityType DEF RoomKept
  <2> QED  BY <2>1, <2>2, PoolSizeAssumption DEF RoomKept
<1>2. ASSUME NEW m \in Msgs, NEW w \in Workers, Deliver(m, w)
      PROVE  RoomKept'
  <2>1. AckPending' = AckPending \cup {m}
    BY <1>2 DEF Deliver, AckPending, TypeOK
  <2>2. CASE m \in AckPending
    BY <1>1, <2>1, <2>2
  <2>3. CASE m \notin AckPending
    <3>1. Cardinality(AckPending) < PoolSize
      BY <1>2, <2>3 DEF Deliver, MayRedeliver, AckPending, HasRoom
    <3>2. IsFiniteSet(AckPending') /\ Cardinality(AckPending') = Cardinality(AckPending) + 1
      BY <2>1, <2>3, FS_AddElement DEF RoomKept
    <3>3. Cardinality(AckPending) \in Nat
      BY FS_CardinalityType DEF RoomKept
    <3> QED  BY <3>1, <3>2, <3>3, PoolSizeAssumption DEF RoomKept
  <2> QED  BY <2>2, <2>3
<1>3. ASSUME NEW m \in Msgs, AckWaitExpires(m) \/ Exceed(m)
      PROVE  AckPending' \subseteq AckPending
  BY <1>3 DEF AckWaitExpires, Exceed, AckPending, TypeOK
<1>4. ASSUME NEW m \in Msgs, NEW n \in Deliveries, Handler(m, n)
      PROVE  AckPending' \subseteq AckPending
  BY <1>4, HandlerTouches DEF AckPending
<1>5. ASSUME NEW w \in Workers,
             Crash(w) \/ Sigterm(w) \/ DrainDone(w) \/ DrainTimeout(w) \/ Start(w)
      PROVE  AckPending' = AckPending
  BY <1>5 DEF Crash, Sigterm, DrainDone, DrainTimeout, Start, Stop, AckPending
<1>6. CASE UNCHANGED vars
  BY <1>1, <1>6 DEF vars, AckPending
<1> QED  BY <1>1, <1>2, <1>3, <1>4, <1>5, <1>6 DEF Next

(* So both hold throughout.                                                    *)
LEMMA SlotInvariance ==
    ASSUME ~SlowHandlers
    PROVE  SafetySpec => [](TypeOK /\ OneHandler /\ RoomKept)
<1>1. Init => OneHandler /\ RoomKept
  <2> SUFFICES ASSUME Init  PROVE OneHandler /\ RoomKept
    OBVIOUS
  <2>1. AckPending = {}
    BY DEF Init, AckPending
  <2>2. RoomKept
    BY <2>1, FS_EmptySet, PoolSizeAssumption DEF RoomKept
  <2> QED  BY <2>2 DEF Init, OneHandler, Live, Running, Verdicts
<1>2. TypeOK /\ OneHandler /\ RoomKept /\ [Next]_vars => OneHandler' /\ RoomKept'
  BY OneHandlerStep, RoomStep
<1>3. SafetySpec => []TypeOK
  BY TypeCorrect
<1> QED  BY <1>1, <1>2, <1>3, PTL DEF SafetySpec

(* "The broker never hands us more than the render pool can work": whatever    *)
(* the number of replicas, requests, crashes and redeliveries, no more         *)
(* handlers run than the pool has processes, if ack_wait outlasts them.        *)
THEOREM PoolIsNeverOverrun ==
    ASSUME ~SlowHandlers
    PROVE  SafetySpec => []NeverOverrunsPool
<1>1. TypeOK /\ OneHandler /\ RoomKept => NeverOverrunsPool
  <2> SUFFICES ASSUME OneHandler, RoomKept  PROVE NeverOverrunsPool
    OBVIOUS
  <2> DEFINE Tasks == {t \in Msgs \X Deliveries : Live(t[1], t[2])}
             f == [t \in Tasks |-> t[1]]
  <2>1. f \in Injection(Tasks, AckPending)
    <3>1. f \in [Tasks -> AckPending]
      BY DEF OneHandler, AckPending
    <3>2. \A s, t \in Tasks : f[s] = f[t] => s = t
      BY DEF OneHandler
    <3> HIDE DEF f, Tasks
    <3> QED  BY <3>1, <3>2, Fun_IsInj
  <2> HIDE DEF f
  <2>2. IsFiniteSet(Tasks) /\ Cardinality(Tasks) <= Cardinality(AckPending)
    BY <2>1, FS_Injection DEF RoomKept
  <2>3. Cardinality(Tasks) \in Nat /\ Cardinality(AckPending) \in Nat
    BY <2>2, FS_CardinalityType DEF RoomKept
  <2>4. Cardinality(Tasks) <= PoolSize
    BY <2>2, <2>3, PoolSizeAssumption DEF RoomKept
  <2> QED  BY <2>4 DEF NeverOverrunsPool
<1> QED  BY <1>1, SlotInvariance, PTL

(* After the ack of a request nobody, no stale or duplicate handler, answers   *)
(* or dead-letters it, if ack_wait outlasts the handlers.                      *)
THEOREM SettledStaysQuiet ==
    ASSUME ~SlowHandlers
    PROVE  SafetySpec => SettledIsQuiet
<1>1. TypeOK /\ OneHandler /\ [Next]_vars =>
         [\A m \in Msgs : cons[m] = "gone" =>
             answers'[m] = answers[m] /\ dlq'[m] = dlq[m]]_vars
  <2> SUFFICES ASSUME TypeOK, OneHandler, Next, NEW k \in Msgs, cons[k] = "gone"
               PROVE  answers'[k] = answers[k] /\ dlq'[k] = dlq[k]
    OBVIOUS
  <2>1. ASSUME NEW m \in Msgs, NEW n \in Deliveries, Handler(m, n)
        PROVE  answers'[k] = answers[k] /\ dlq'[k] = dlq[k]
    BY <2>1, HandlerTouches DEF OneHandler
  <2>2. CASE ~\E m \in Msgs, n \in Deliveries : Handler(m, n)
    BY <2>2
       DEF Next, AckWaitExpires, Exceed, Deliver, Crash, Sigterm, DrainDone,
                DrainTimeout, Start, Stop
  <2> QED  BY <2>1, <2>2
<1> QED  BY <1>1, SlotInvariance, PTL DEF SafetySpec, SettledIsQuiet
===============================================================================
