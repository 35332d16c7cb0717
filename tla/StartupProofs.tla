---------------------------- MODULE StartupProofs -----------------------------
(* The promises of Startup for any number of replicas, builds, connection      *)
(* attempts and faults, and whatever the builds declare.                       *)
EXTENDS Startup, TLAPS

(* What a replica knows at each step: a durable whose config it read stays, up *)
(* to what builds declare, and no replica is up without one.                   *)
ReadIsCurrent ==
    \A w \in Replicas :
        /\ pc[w] = At("update") =>
              /\ durable # <<>> /\ seen[w] # <<>>
              /\ seen[w]["other"] = durable["other"]
        /\ Up(w) => durable # <<>>

(* A replica that is past reconciling has seen to it that the stored limits    *)
(* are those of some build ...                                                 *)
Reconciling(w) == pc[w] \notin {At("subscribe"), At("up")}
SomeBuildStored ==
    (\E w \in Replicas : ~Reconciling(w)) /\ durable # <<>> =>
        \E b \in Builds : Stored(b)

(* ... and when all are, of the build of one of them: the one that reconciled  *)
(* or wrote last.                                                              *)
LastWriterStored ==
    (\A w \in Replicas : ~Reconciling(w)) /\ durable # <<>> =>
        \E w \in Replicas : Stored(build[w])

(* A replica that is about to connect has used up one attempt fewer.           *)
ConnectionsCounted ==
    \A w \in Replicas :
        /\ pc[w] = At("down") => conns[w] = 0
        /\ pc[w] = At("connect") => conns[w] < attempt[w]

IndInv ==
    /\ TypeOK /\ ReadIsCurrent /\ SomeBuildStored /\ LastWriterStored
    /\ ConnectionsCounted /\ LeaksOnePerAttempt

-------------------------------------------------------------------------------
(* The steps of a replica, one after the other, are different steps.           *)
LEMMA Steps ==
    /\ DOMAIN DesiredStreams = {1, 2, 3} /\ Len(DesiredStreams) = 3
    /\ \A i \in DOMAIN DesiredStreams : <<"stream", i>> \in Adding \cap Starting
    /\ {At("connect"), At("info"), At("update"), At("subscribe")} \subseteq Starting
    /\ \A s \in {At("down"), At("connect"), At("info"), At("update"),
                 At("subscribe"), At("up")} : s \notin Adding
    /\ \A s, t : At(s) = At(t) => s = t
<1>1. DOMAIN DesiredStreams = {1, 2, 3} /\ Len(DesiredStreams) = 3
  BY DEF DesiredStreams
<1>2. \A s, t : At(s) = At(t) => s = t
  BY DEF At
<1>3. \A s : s # "stream" => At(s) \notin Adding
  BY DEF At, Adding
<1>4. \A i \in DOMAIN DesiredStreams : <<"stream", i>> \in Adding \cap Starting
  BY DEF Adding, Starting
<1>5. {At("connect"), At("info"), At("update"), At("subscribe")} \subseteq Starting
  BY DEF At, Starting
<1> QED  BY <1>1, <1>2, <1>3, <1>4, <1>5

(* What ensure_consumer_config sends back has the limits of the build that     *)
(* sends it, whatever it read, and of all else what it read.                   *)
LEMMA EvolveStores ==
    ASSUME BuildAssumption, NEW w \in Replicas, build[w] \in Builds, NEW cfg
    PROVE  /\ DOMAIN Evolve(w, cfg) = Fields /\ Evolve(w, cfg) # <<>>
           /\ \A x \in Reconciled : Evolve(w, cfg)[x] = Limits[build[w]][x]
           /\ Evolve(w, cfg)["other"] = cfg["other"]
<1>1. DOMAIN Evolve(w, cfg) = Fields
  BY DEF Evolve
<1>2. "other" \in Fields /\ "other" \notin Reconciled /\ Reconciled \subseteq Fields
  BY DEF Fields, Reconciled
<1>3. Evolve(w, cfg) # <<>>
  BY <1>1, <1>2
<1>4. \A x \in Reconciled : Evolve(w, cfg)[x] = Limits[build[w]][x]
  BY <1>2 DEF Evolve, Drift, Declared
<1>5. Evolve(w, cfg)["other"] = cfg["other"]
  BY <1>2 DEF Evolve, Drift
<1> QED  BY <1>1, <1>3, <1>4, <1>5

(* So has the durable that js.subscribe creates.                               *)
LEMMA CreatedStores ==
    ASSUME NEW w \in Replicas
    PROVE  /\ DOMAIN Created(w) = Fields /\ Created(w) # <<>>
           /\ \A x \in Reconciled : Created(w)[x] = Limits[build[w]][x]
<1>1. DOMAIN Created(w) = Fields
  BY DEF Created
<1>2. "other" \in Fields /\ Reconciled \subseteq Fields
  BY DEF Fields
<1>3. Created(w) # <<>>
  BY <1>1, <1>2
<1>4. \A x \in Reconciled : Created(w)[x] = Limits[build[w]][x]
  BY <1>2 DEF Created, Declared
<1> QED  BY <1>1, <1>3, <1>4

(* A replica goes on to a next step; the others stay where they are.           *)
LEMMA GotoFacts ==
    ASSUME TypeOK, NEW w \in Replicas,
           NEW p \in Starting \cup {At("down"), At("up")}, Goto(w, p)
    PROVE  /\ pc' \in [Replicas -> Starting \cup {At("down"), At("up")}]
           /\ pc'[w] = p
           /\ \A x \in Replicas \ {w} : pc'[x] = pc[x]
BY DEF Goto, TypeOK

(* A replica that has still to reconcile leaves the limits to the others.      *)
LEMMA StillReconciling ==
    ASSUME SomeBuildStored, NEW w \in Replicas, Reconciling(w)',
           \A x \in Replicas \ {w} : pc'[x] = pc[x],
           \/ durable' = durable
           \/ \E b \in Builds : Stored(b)'
    PROVE  SomeBuildStored' /\ LastWriterStored'
<1>1. CASE durable' = durable
  BY <1>1 DEF SomeBuildStored, LastWriterStored, Reconciling, Stored
<1>2. CASE \E b \in Builds : Stored(b)'
  BY <1>2 DEF SomeBuildStored, LastWriterStored, Reconciling
<1> QED  BY <1>1, <1>2

(* One that has reconciled found or left those of its own build.               *)
LEMMA OwnBuildStored ==
    ASSUME NEW w \in Replicas, build[w] \in Builds, build' = build,
           Stored(build[w])'
    PROVE  SomeBuildStored' /\ LastWriterStored'
BY DEF SomeBuildStored, LastWriterStored, Stored

-------------------------------------------------------------------------------
(* Before any replica has started.                                             *)
LEMMA InitInv == Init => IndInv
<1> SUFFICES ASSUME Init PROVE IndInv
  OBVIOUS
<1>1. TypeOK
  BY BuildAssumption, BoundAssumption DEF Init, TypeOK, Builds
<1>2. ReadIsCurrent /\ SomeBuildStored /\ LastWriterStored
  BY Steps, ReplicaAssumption DEF Init, ReadIsCurrent, SomeBuildStored,
         LastWriterStored, Reconciling, Up
<1>3. ConnectionsCounted /\ LeaksOnePerAttempt
  BY Steps DEF Init, ConnectionsCounted, LeaksOnePerAttempt
<1> QED  BY <1>1, <1>2, <1>3 DEF IndInv

(* Every step of every replica keeps it.                                       *)
LEMMA NextInv == IndInv /\ [Next]_vars => IndInv'
<1> SUFFICES ASSUME TypeOK, ReadIsCurrent, SomeBuildStored, LastWriterStored,
                    ConnectionsCounted, LeaksOnePerAttempt, [Next]_vars
             PROVE  IndInv'
  BY DEF IndInv
<1> USE DEF IndInv
<1>1. ASSUME NEW w \in Replicas, Start(w) PROVE IndInv'
  <2>1. /\ pc'[w] = At("connect")
        /\ pc' \in [Replicas -> Starting \cup {At("down"), At("up")}]
        /\ \A x \in Replicas \ {w} : pc'[x] = pc[x]
    BY <1>1, GotoFacts, Steps DEF Start
  <2>2. TypeOK'
    <3>1. build' \in [Replicas -> Builds]
      BY <1>1, BuildAssumption DEF Start, TypeOK, Builds
    <3>2. attempt' \in [Replicas -> 1..MaxAttempts]
      BY <1>1, BoundAssumption DEF Start, TypeOK
    <3> QED  BY <1>1, <2>1, <3>1, <3>2 DEF Start, TypeOK
  <2>3. ReadIsCurrent'
    BY <1>1, <2>1, Steps DEF Start, TypeOK, ReadIsCurrent, Up
  <2>4. SomeBuildStored' /\ LastWriterStored'
    <3>1. Reconciling(w)'
      BY <2>1, Steps DEF Reconciling
    <3>2. durable' = durable
      BY <1>1 DEF Start
    <3> QED  BY <2>1, <3>1, <3>2, StillReconciling
  <2>5. ConnectionsCounted' /\ LeaksOnePerAttempt'
    BY <1>1, <2>1, Steps
       DEF Start, TypeOK, ConnectionsCounted, LeaksOnePerAttempt
  <2> QED  BY <2>2, <2>3, <2>4, <2>5
<1>2. ASSUME NEW w \in Replicas, Connect(w) PROVE IndInv'
  <2>1. /\ pc'[w] \in Adding
        /\ pc' \in [Replicas -> Starting \cup {At("down"), At("up")}]
        /\ \A x \in Replicas \ {w} : pc'[x] = pc[x]
    BY <1>2, GotoFacts, Steps DEF Connect
  <2>2. TypeOK'
    <3>1. conns' \in [Replicas -> Nat]
      BY <1>2 DEF Connect, TypeOK
    <3> QED  BY <1>2, <2>1, <3>1 DEF Connect, TypeOK
  <2>3. ReadIsCurrent'
    BY <1>2, <2>1, Steps DEF Connect, TypeOK, ReadIsCurrent, Up
  <2>4. SomeBuildStored' /\ LastWriterStored'
    <3>1. Reconciling(w)'
      BY <2>1, Steps DEF Reconciling
    <3>2. durable' = durable
      BY <1>2 DEF Connect
    <3> QED  BY <2>1, <3>1, <3>2, StillReconciling
  <2>5. ConnectionsCounted' /\ LeaksOnePerAttempt'
    <3>1. pc'[w] # At("down") /\ pc'[w] # At("connect")
      BY <2>1, Steps
    <3>2. /\ conns'[w] = conns[w] + 1 /\ conns[w] \in Nat /\ attempt' = attempt
          /\ \A x \in Replicas \ {w} : conns'[x] = conns[x]
      BY <1>2 DEF Connect, TypeOK
    <3>3. conns[w] < attempt[w] /\ attempt[w] \in Nat
      BY <1>2 DEF Connect, TypeOK, ConnectionsCounted
    <3> QED
      BY <2>1, <3>1, <3>2, <3>3 DEF ConnectionsCounted, LeaksOnePerAttempt
  <2> QED  BY <2>2, <2>3, <2>4, <2>5
<1>3. ASSUME NEW w \in Replicas, NEW i \in DOMAIN DesiredStreams,
            AddStream(w, i) PROVE IndInv'
  <2>1. /\ pc'[w] \in Adding \cup {At("info")}
        /\ pc' \in [Replicas -> Starting \cup {At("down"), At("up")}]
        /\ \A x \in Replicas \ {w} : pc'[x] = pc[x]
    BY <1>3, GotoFacts, Steps DEF AddStream
  <2>2. TypeOK'
    BY <1>3, <2>1 DEF AddStream, TypeOK, AllStreams
  <2>3. ReadIsCurrent'
    BY <1>3, <2>1, Steps DEF AddStream, TypeOK, ReadIsCurrent, Up
  <2>4. SomeBuildStored' /\ LastWriterStored'
    <3>1. Reconciling(w)'
      BY <2>1, Steps DEF Reconciling
    <3>2. durable' = durable
      BY <1>3 DEF AddStream
    <3> QED  BY <2>1, <3>1, <3>2, StillReconciling
  <2>5. ConnectionsCounted' /\ LeaksOnePerAttempt'
    <3>1. /\ pc[w] # At("down") /\ pc[w] # At("connect")
          /\ pc'[w] # At("down") /\ pc'[w] # At("connect")
      BY <1>3, <2>1, Steps DEF AddStream
    <3>2. conns' = conns /\ attempt' = attempt
      BY <1>3 DEF AddStream
    <3> QED  BY <2>1, <3>1, <3>2 DEF ConnectionsCounted, LeaksOnePerAttempt
  <2> QED  BY <2>2, <2>3, <2>4, <2>5
<1>4. ASSUME NEW w \in Replicas, ConsumerInfo(w) PROVE IndInv'
  <2>1. /\ \/ pc'[w] = At("update") /\ durable # <<>>
           \/ pc'[w] = At("subscribe") /\ durable = <<>>
           \/ pc'[w] = At("subscribe") /\ Drift(w, durable) = {}
        /\ pc' \in [Replicas -> Starting \cup {At("down"), At("up")}]
        /\ \A x \in Replicas \ {w} : pc'[x] = pc[x]
    BY <1>4, GotoFacts, Steps DEF ConsumerInfo, AfterNotFound
  <2>2. TypeOK'
    BY <1>4, <2>1 DEF ConsumerInfo, TypeOK
  <2>3. ReadIsCurrent'
    BY <1>4, <2>1, Steps DEF ConsumerInfo, TypeOK, ReadIsCurrent, Up
  <2>4. SomeBuildStored' /\ LastWriterStored'
    <3>1. durable' = durable /\ build' = build /\ build[w] \in Builds
      BY <1>4 DEF ConsumerInfo, TypeOK
    <3>2. CASE pc'[w] = At("update")
      BY <2>1, <3>1, <3>2, Steps, StillReconciling DEF Reconciling
    <3>3. CASE durable = <<>>
      BY <3>1, <3>3 DEF SomeBuildStored, LastWriterStored
    <3>4. CASE durable # <<>> /\ Drift(w, durable) = {}
      <4>1. Stored(build[w])'
        BY <3>1, <3>4 DEF Drift, Declared, Stored
      <4> QED  BY <3>1, <4>1, OwnBuildStored
    <3> QED  BY <2>1, <3>2, <3>3, <3>4
  <2>5. ConnectionsCounted' /\ LeaksOnePerAttempt'
    <3>1. /\ pc[w] # At("down") /\ pc[w] # At("connect")
          /\ pc'[w] # At("down") /\ pc'[w] # At("connect")
      BY <1>4, <2>1, Steps DEF ConsumerInfo
    <3>2. conns' = conns /\ attempt' = attempt
      BY <1>4 DEF ConsumerInfo
    <3> QED  BY <2>1, <3>1, <3>2 DEF ConnectionsCounted, LeaksOnePerAttempt
  <2> QED  BY <2>2, <2>3, <2>4, <2>5
<1>5. ASSUME NEW w \in Replicas, AddConsumer(w) PROVE IndInv'
  <2>1. /\ pc'[w] = At("subscribe")
        /\ pc' \in [Replicas -> Starting \cup {At("down"), At("up")}]
        /\ \A x \in Replicas \ {w} : pc'[x] = pc[x]
    BY <1>5, GotoFacts, Steps DEF AddConsumer
  <2>2. TypeOK'
    BY <1>5, <2>1, EvolveStores, BuildAssumption DEF AddConsumer, TypeOK
  <2>3. ReadIsCurrent'
    <3>1. durable' # <<>> /\ durable'["other"] = durable["other"]
      BY <1>5, EvolveStores, BuildAssumption
         DEF AddConsumer, TypeOK, ReadIsCurrent
    <3> QED
      BY <1>5, <2>1, <3>1, Steps DEF AddConsumer, ReadIsCurrent, Up
  <2>4. SomeBuildStored' /\ LastWriterStored'
    <3>1. build[w] \in Builds /\ build' = build /\ Stored(build[w])'
      BY <1>5, EvolveStores, BuildAssumption DEF AddConsumer, TypeOK, Stored
    <3> QED  BY <3>1, OwnBuildStored
  <2>5. ConnectionsCounted' /\ LeaksOnePerAttempt'
    BY <1>5, <2>1, Steps
       DEF AddConsumer, TypeOK, ConnectionsCounted, LeaksOnePerAttempt
  <2> QED  BY <2>2, <2>3, <2>4, <2>5
<1>6. ASSUME NEW w \in Replicas, Subscribe(w) PROVE IndInv'
  <2>1. /\ pc'[w] = At("up")
        /\ pc' \in [Replicas -> Starting \cup {At("down"), At("up")}]
        /\ \A x \in Replicas \ {w} : pc'[x] = pc[x]
    BY <1>6, GotoFacts, Steps DEF Subscribe
  <2>2. TypeOK'
    BY <1>6, <2>1, CreatedStores DEF Subscribe, TypeOK
  <2>3. ReadIsCurrent'
    BY <1>6, <2>1, Steps, CreatedStores DEF Subscribe, ReadIsCurrent, Up
  <2>4. SomeBuildStored' /\ LastWriterStored'
    <3>1. build[w] \in Builds /\ build' = build /\ pc[w] = At("subscribe")
      BY <1>6 DEF Subscribe, TypeOK
    <3>2. CASE durable = <<>>
      <4>1. Stored(build[w])'
        BY <1>6, <3>1, <3>2, CreatedStores DEF Subscribe, Stored
      <4> QED  BY <3>1, <4>1, OwnBuildStored
    <3>3. CASE durable # <<>>
      <4>1. durable' = durable
        BY <1>6, <3>3 DEF Subscribe
      <4>2. \A x \in Replicas : Reconciling(x)' <=> Reconciling(x)
        BY <2>1, <3>1, Steps DEF Reconciling
      <4> QED
        BY <3>1, <4>1, <4>2 DEF SomeBuildStored, LastWriterStored, Stored
    <3> QED  BY <3>2, <3>3
  <2>5. ConnectionsCounted' /\ LeaksOnePerAttempt'
    BY <1>6, <2>1, Steps
       DEF Subscribe, TypeOK, ConnectionsCounted, LeaksOnePerAttempt
  <2> QED  BY <2>2, <2>3, <2>4, <2>5
<1>7. ASSUME NEW w \in Replicas, ConnectFails(w) PROVE IndInv'
  <2>1. /\ pc'[w] \in {At("down"), At("connect")}
        /\ pc' \in [Replicas -> Starting \cup {At("down"), At("up")}]
        /\ \A x \in Replicas \ {w} : pc'[x] = pc[x]
    BY <1>7, GotoFacts, Steps DEF ConnectFails, Exit
  <2>2. TypeOK'
    <3>1. conns' \in [Replicas -> Nat] /\ faults' \in 0..MaxFaults
      BY <1>7, BoundAssumption DEF ConnectFails, Exit, Fault, TypeOK
    <3>2. attempt' \in [Replicas -> 1..MaxAttempts]
      <4>1. CASE attempt' = [attempt EXCEPT ![w] = NextAttempt(w)] /\ AttemptsLeft(w)
        BY <4>1, BoundAssumption DEF AttemptsLeft, NextAttempt, TypeOK
      <4>2. CASE attempt' = attempt
        BY <4>2 DEF TypeOK
      <4> QED  BY <1>7, <4>1, <4>2 DEF ConnectFails
    <3> QED  BY <1>7, <2>1, <3>1, <3>2 DEF ConnectFails, Exit, TypeOK
  <2>3. ReadIsCurrent'
    BY <1>7, <2>1, Steps DEF ConnectFails, Exit, TypeOK, ReadIsCurrent, Up
  <2>4. SomeBuildStored' /\ LastWriterStored'
    <3>1. Reconciling(w)'
      BY <2>1, Steps DEF Reconciling
    <3>2. durable' = durable
      BY <1>7 DEF ConnectFails
    <3> QED  BY <2>1, <3>1, <3>2, StillReconciling
  <2>5. ConnectionsCounted' /\ LeaksOnePerAttempt'
    <3>1. \A x \in Replicas \ {w} :
             conns'[x] = conns[x] /\ attempt'[x] = attempt[x]
      BY <1>7 DEF ConnectFails, Exit, NextAttempt, TypeOK
    <3>2. conns[w] \in Nat /\ attempt[w] \in Nat /\ conns[w] <= attempt[w]
      BY <1>7, Steps DEF ConnectFails, TypeOK, LeaksOnePerAttempt
    <3>3. \/ pc'[w] = At("down") /\ conns'[w] = 0
          \/ pc'[w] = At("connect") /\ conns'[w] < attempt'[w]
      BY <1>7, <3>2 DEF ConnectFails, Goto, Exit, NextAttempt, TypeOK
    <3>4. conns'[w] \in Nat /\ attempt'[w] \in Nat
      BY <1>7, <3>2 DEF ConnectFails, Exit, NextAttempt, TypeOK
    <3> QED
      BY <2>1, <3>1, <3>3, <3>4, Steps
         DEF ConnectionsCounted, LeaksOnePerAttempt
  <2> QED  BY <2>2, <2>3, <2>4, <2>5
<1>8. ASSUME NEW w \in Replicas, SubscribeFails(w) PROVE IndInv'
  <2>1. /\ pc'[w] = At("down")
        /\ pc' \in [Replicas -> Starting \cup {At("down"), At("up")}]
        /\ \A x \in Replicas \ {w} : pc'[x] = pc[x]
    BY <1>8, GotoFacts, Steps DEF SubscribeFails, Exit
  <2>2. TypeOK'
    <3>1. conns' \in [Replicas -> Nat] /\ faults' \in 0..MaxFaults
      BY <1>8, BoundAssumption DEF SubscribeFails, Exit, Fault, TypeOK
    <3>2. durable' = <<>> \/ DOMAIN durable' = Fields
      BY <1>8, EvolveStores, CreatedStores, BuildAssumption
         DEF SubscribeFails, TypeOK
    <3> QED  BY <1>8, <2>1, <3>1, <3>2 DEF SubscribeFails, Exit, TypeOK
  <2>3. ReadIsCurrent'
    <3>1. /\ durable # <<>> => durable' # <<>> /\ durable'["other"] = durable["other"]
          /\ \A x \in Replicas \ {w} : seen'[x] = seen[x]
      BY <1>8, Steps, EvolveStores, BuildAssumption
         DEF SubscribeFails, Exit, TypeOK, ReadIsCurrent
    <3> QED  BY <2>1, <3>1, Steps DEF ReadIsCurrent, Up
  <2>4. SomeBuildStored' /\ LastWriterStored'
    <3>1. Reconciling(w)'
      BY <2>1, Steps DEF Reconciling
    <3>2. durable' = durable \/ \E b \in Builds : Stored(b)'
      BY <1>8, EvolveStores, CreatedStores, BuildAssumption
         DEF SubscribeFails, TypeOK, Stored
    <3> QED  BY <2>1, <3>1, <3>2, StillReconciling
  <2>5. ConnectionsCounted' /\ LeaksOnePerAttempt'
    BY <1>8, <2>1, Steps
       DEF SubscribeFails, Exit, TypeOK, ConnectionsCounted, LeaksOnePerAttempt
  <2> QED  BY <2>2, <2>3, <2>4, <2>5
<1>9. ASSUME NEW w \in Replicas, Stop(w) PROVE IndInv'
  <2>1. /\ pc'[w] = At("down")
        /\ pc' \in [Replicas -> Starting \cup {At("down"), At("up")}]
        /\ \A x \in Replicas \ {w} : pc'[x] = pc[x]
    BY <1>9, GotoFacts, Steps DEF Stop, Exit
  <2>2. TypeOK'
    <3>1. conns' \in [Replicas -> Nat] /\ faults' \in 0..MaxFaults
      BY <1>9, BoundAssumption DEF Stop, Exit, Fault, TypeOK
    <3> QED  BY <1>9, <2>1, <3>1 DEF Stop, Exit, TypeOK
  <2>3. ReadIsCurrent'
    BY <1>9, <2>1, Steps DEF Stop, Exit, TypeOK, ReadIsCurrent, Up
  <2>4. SomeBuildStored' /\ LastWriterStored'
    <3>1. Reconciling(w)'
      BY <2>1, Steps DEF Reconciling
    <3>2. durable' = durable
      BY <1>9 DEF Stop
    <3> QED  BY <2>1, <3>1, <3>2, StillReconciling
  <2>5. ConnectionsCounted' /\ LeaksOnePerAttempt'
    BY <1>9, <2>1, Steps
       DEF Stop, Exit, TypeOK, ConnectionsCounted, LeaksOnePerAttempt
  <2> QED  BY <2>2, <2>3, <2>4, <2>5
<1>10. CASE UNCHANGED vars
  BY <1>10 DEF vars, TypeOK, ReadIsCurrent, SomeBuildStored, LastWriterStored,
         Reconciling, Stored, Up, ConnectionsCounted, LeaksOnePerAttempt
<1> QED
  BY <1>1, <1>2, <1>3, <1>4, <1>5, <1>6, <1>7, <1>8, <1>9, <1>10
     DEF Next, Advance

-------------------------------------------------------------------------------
(* The invariant of every behaviour.                                           *)
LEMMA Invariance == Spec => []IndInv
<1>1. Init => IndInv
  BY InitInv
<1>2. IndInv /\ [Next]_vars => IndInv'
  BY NextInv
<1> QED  BY <1>1, <1>2, PTL DEF Spec

(* The bookkeeping of every replica that connects, and the broker's, stays in  *)
(* its types: no attempt beyond _NATS_CONNECT_MAX_ATTEMPTS among them.         *)
THEOREM TypeCorrect == Spec => []TypeOK
<1>1. IndInv => TypeOK
  BY DEF IndInv
<1> QED  BY <1>1, Invariance, PTL

(* However many replicas of however many builds read, compare and write the    *)
(* one durable at once, none is up on limits that no build declared.           *)
THEOREM LimitsAreSomeBuilds == Spec => []NoMixedLimits
<1>1. IndInv => NoMixedLimits
  BY Steps
     DEF IndInv, ReadIsCurrent, SomeBuildStored, Reconciling, Up, NoMixedLimits
<1> QED  BY <1>1, Invariance, PTL

(* When every replica is up on one build the limits are that build's: a stale  *)
(* write of an older build is made good by the replica that made it when it    *)
(* comes back.                                                                 *)
THEOREM RolloutTakesEffect == Spec => []RolloutConverges
<1>1. IndInv => RolloutConverges
  <2> SUFFICES ASSUME IndInv, NEW b \in Builds,
                      \A w \in Replicas : Up(w) /\ build[w] = b
               PROVE  Stored(b)
    BY DEF RolloutConverges
  <2>1. durable # <<>>
    BY ReplicaAssumption DEF IndInv, ReadIsCurrent
  <2>2. \E w \in Replicas : Stored(build[w])
    BY <2>1 DEF IndInv, LastWriterStored, Reconciling, Up
  <2> QED  BY <2>2
<1> QED  BY <1>1, Invariance, PTL

(* The bounded retry leaks at most one connection for each attempt, and no     *)
(* replica goes on without a connection.                                       *)
THEOREM LeakIsBounded == Spec => []LeaksOnePerAttempt
<1>1. IndInv => LeaksOnePerAttempt
  BY DEF IndInv
<1> QED  BY <1>1, Invariance, PTL

(* What no build declares, the deliver subject among it, survives every        *)
(* update, those made from a stale read included: no step of another replica   *)
(* changes it in between.                                                      *)
THEOREM UndeclaredSurvives == Spec => KeepsUndeclared
<1>1. IndInv /\ [Next]_vars =>
        [durable # <<>> => durable'["other"] = durable["other"]]_vars
  <2> SUFFICES ASSUME IndInv, Next, durable # <<>>
               PROVE  durable'["other"] = durable["other"]
    OBVIOUS
  <2>1. PICK w \in Replicas :
            Advance(w) \/ ConnectFails(w) \/ SubscribeFails(w) \/ Stop(w)
    BY DEF Next
  <2>2. CASE AddConsumer(w) \/ SubscribeFails(w)
    <3>1. pc[w] = At("update") => Evolve(w, seen[w])["other"] = durable["other"]
      BY EvolveStores, BuildAssumption DEF IndInv, TypeOK, ReadIsCurrent
    <3> QED  BY <2>2, <3>1 DEF AddConsumer, SubscribeFails
  <2>3. CASE ~(AddConsumer(w) \/ SubscribeFails(w))
    <3>1. durable' = durable
      BY <2>1, <2>3 DEF Advance, Start, Connect, AddStream, ConsumerInfo,
             Subscribe, ConnectFails, Stop
    <3> QED  BY <3>1
  <2> QED  BY <2>2, <2>3
<1> QED  BY <1>1, Invariance, PTL DEF Spec, KeepsUndeclared
===============================================================================
