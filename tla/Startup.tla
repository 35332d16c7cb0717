------------------------------- MODULE Startup -------------------------------
(* How replicas come up: worker/main.py connects with a bounded retry,         *)
(* core/queue/init.py declares the streams, and core/queue/helper.py brings    *)
(* the limits of the one durable consumer in step with the build before it     *)
(* binds to it.  Replicas of several builds do this at the same time, which is *)
(* what a rolling deployment is, and each broker call is a step of its own.    *)
EXTENDS Naturals, Sequences

CONSTANTS
    Replicas,     \* worker replicas
    Latest,       \* builds are numbered 0..Latest
    Limits,       \* Limits[b]: the consumer fields build b declares
    Stray,        \* the stored config of a durable some earlier build created
    MaxAttempts,  \* _NATS_CONNECT_MAX_ATTEMPTS
    MaxFaults     \* bound on failing calls and crashes in a behaviour

Builds == 0..Latest
(* Of the fields the helper reconciles, subscribe() declares all but backoff.  *)
(* The stored config also has what no build declares: "other" stands for the   *)
(* deliver subject, the queue group, the filter and backoff.                   *)
Reconciled == {"ack_wait", "max_deliver", "max_ack_pending"}
Fields == Reconciled \cup {"other"}

ASSUME ReplicaAssumption == Replicas # {}
ASSUME BuildAssumption ==
    /\ Latest \in Nat
    /\ \A b \in Builds : DOMAIN Limits[b] = Reconciled
    /\ DOMAIN Stray = Fields
ASSUME BoundAssumption == MaxAttempts \in Nat \ {0} /\ MaxFaults \in Nat

VARIABLES
    streams,  \* streams that exist
    durable,  \* stored config of the durable; <<>> while there is none
    pc, build, attempt, conns, seen,  \* per replica: step, build, connect
                                      \* attempt, open connections, and the
                                      \* stored config consumer_info returned
    faults

vars == <<streams, durable, pc, build, attempt, conns, seen, faults>>

-------------------------------------------------------------------------------
(* _desired_streams, in the order they are declared.                           *)
DesiredStreams == <<"requests", "results", "dlq">>
AllStreams == {DesiredStreams[i] : i \in DOMAIN DesiredStreams}
Adding == {<<"stream", i>> : i \in DOMAIN DesiredStreams}
Starting == {<<"connect", 0>>, <<"info", 0>>, <<"update", 0>>, <<"subscribe", 0>>}
            \cup Adding
At(step) == <<step, 0>>

TypeOK ==
    /\ streams \subseteq AllStreams
    /\ durable = <<>> \/ DOMAIN durable = Fields
    /\ pc \in [Replicas -> Starting \cup {At("down"), At("up")}]
    /\ build \in [Replicas -> Builds]
    /\ attempt \in [Replicas -> 1..MaxAttempts]
    /\ conns \in [Replicas -> Nat]
    /\ DOMAIN seen = Replicas
    /\ \A w \in Replicas : seen[w] = <<>> \/ DOMAIN seen[w] = Fields
    /\ faults \in 0..MaxFaults

(* A first deployment, or one that finds what an earlier build left.           *)
Init ==
    /\ \/ streams = {} /\ durable = <<>>
       \/ streams = AllStreams /\ durable \in {<<>>, Stray}
    /\ pc = [w \in Replicas |-> At("down")]
    /\ build \in [Replicas -> Builds]
    /\ attempt = [w \in Replicas |-> 1]
    /\ conns = [w \in Replicas |-> 0]
    /\ seen = [w \in Replicas |-> <<>>]
    /\ faults = 0

Goto(w, p) == pc' = [pc EXCEPT ![w] = p]
Fault == faults < MaxFaults /\ faults' = faults + 1

-------------------------------------------------------------------------------
(* The orchestrator starts a process, of the same or of a later build.         *)
Start(w) ==
    /\ pc[w] = At("down")
    /\ Goto(w, At("connect"))
    /\ \E b \in build[w]..Latest : build' = [build EXCEPT ![w] = b]
    /\ attempt' = [attempt EXCEPT ![w] = 1]
    /\ UNCHANGED <<streams, durable, conns, seen, faults>>

(* nats.connect in init_nats.  The client of a failed attempt that got this    *)
(* far is overwritten, not closed: its connection stays open.                  *)
Connect(w) ==
    /\ pc[w] = At("connect")
    /\ conns' = [conns EXCEPT ![w] = @ + 1]
    /\ Goto(w, <<"stream", 1>>)
    /\ UNCHANGED <<streams, durable, build, attempt, seen, faults>>

AddStream(w, i) ==
    /\ pc[w] = <<"stream", i>>
    /\ streams' = streams \cup {DesiredStreams[i]}
    /\ Goto(w, IF i = Len(DesiredStreams) THEN At("info") ELSE <<"stream", i + 1>>)
    /\ UNCHANGED <<durable, build, attempt, conns, seen, faults>>

(* The process ends; with it go its connections.                               *)
Exit(w) ==
    /\ Goto(w, At("down"))
    /\ conns' = [conns EXCEPT ![w] = 0]
    /\ seen' = [seen EXCEPT ![w] = <<>>]

(* _connect_nats_with_retry after init_nats raised: start over, or give up.    *)
AttemptsLeftOneMore(w) == attempt[w] <= MaxAttempts
AttemptsLeft(w) == attempt[w] < MaxAttempts
SameAttempt(w) == attempt[w]
NextAttempt(w) == attempt[w] + 1

ConnectFails(w) ==
    /\ pc[w] \in Adding \cup {At("connect")}
    /\ Fault
    /\ \/ /\ AttemptsLeft(w)
          /\ attempt' = [attempt EXCEPT ![w] = NextAttempt(w)]
          /\ Goto(w, At("connect"))
          /\ UNCHANGED <<conns, seen>>
       \/ ~AttemptsLeft(w) /\ Exit(w) /\ attempt' = attempt
    /\ UNCHANGED <<streams, durable, build>>

-------------------------------------------------------------------------------
(* ensure_consumer_config.                                                     *)
Declared(w) == Limits[build[w]]

(* Declared fields in which the stored config differs.                         *)
DriftOfBackstop(w, cfg) == {x \in {"max_deliver"} : cfg[x] # Declared(w)[x]}
Drift(w, cfg) == {x \in Reconciled : cfg[x] # Declared(w)[x]}

(* current.evolve( **drift ): the declared values over the config as read.     *)
EvolveAfresh(w, cfg) ==
    [x \in Fields |-> IF x \in Reconciled THEN Declared(w)[x] ELSE 0]
Evolve(w, cfg) ==
    [x \in Fields |-> IF x \in Drift(w, cfg) THEN Declared(w)[x] ELSE cfg[x]]

(* The durable does not exist yet: js.subscribe will create it.                *)
AfterNotFoundPoll == "info"
AfterNotFound == "subscribe"

ConsumerInfo(w) ==
    /\ pc[w] = At("info")
    /\ seen' = [seen EXCEPT ![w] = durable]
    /\ Goto(w, IF durable = <<>> THEN At(AfterNotFound)
               ELSE IF Drift(w, durable) = {} THEN At("subscribe") ELSE At("update"))
    /\ UNCHANGED <<streams, durable, build, attempt, conns, faults>>

AddConsumer(w) ==
    /\ pc[w] = At("update")
    /\ durable' = Evolve(w, seen[w])
    /\ Goto(w, At("subscribe"))
    /\ UNCHANGED <<streams, build, attempt, conns, seen, faults>>

(* js.subscribe (external) creates the durable from the declared config, or    *)
(* binds to the one that exists, whatever its config.                          *)
Created(w) == [x \in Fields |-> IF x \in Reconciled THEN Declared(w)[x] ELSE 0]
Subscribe(w) ==
    /\ pc[w] = At("subscribe")
    /\ durable' = IF durable = <<>> THEN Created(w) ELSE durable
    /\ Goto(w, At("up"))
    /\ UNCHANGED <<streams, build, attempt, conns, seen, faults>>

(* One of these calls fails, before or after it took effect, or the broker     *)
(* rejects the update: main() closes everything and the process ends.          *)
SubscribeFails(w) ==
    /\ pc[w] \in {At("info"), At("update"), At("subscribe")}
    /\ Fault
    /\ Exit(w)
    /\ \/ durable' = durable
       \/ pc[w] = At("update") /\ durable' = Evolve(w, seen[w])
       \/ pc[w] = At("subscribe") /\ durable = <<>> /\ durable' = Created(w)
    /\ UNCHANGED <<streams, build, attempt>>

(* The process dies or is stopped for the next build.                          *)
Stop(w) ==
    /\ pc[w] # At("down")
    /\ Fault
    /\ Exit(w)
    /\ UNCHANGED <<streams, durable, build, attempt>>

Advance(w) ==
    \/ Start(w) \/ Connect(w)
    \/ \E i \in DOMAIN DesiredStreams : AddStream(w, i)
    \/ ConsumerInfo(w) \/ AddConsumer(w) \/ Subscribe(w)

Next == \E w \in Replicas :
            Advance(w) \/ ConnectFails(w) \/ SubscribeFails(w) \/ Stop(w)

(* Broker calls return within the client's timeouts and the orchestrator       *)
(* restarts what stopped; nothing has to fail.                                 *)
Fairness == \A w \in Replicas : WF_vars(Advance(w))

Spec == Init /\ [][Next]_vars /\ Fairness

-------------------------------------------------------------------------------
Up(w) == pc[w] = At("up")
Stored(b) == durable # <<>> /\ \A x \in Reconciled : durable[x] = Limits[b][x]

(* Replicas that read, compare and write at once never leave the limits of     *)
(* two builds mixed, and none comes up on limits that no build declared: the   *)
(* reason subscribe_durable exists.                                            *)
NoMixedLimits == (\E w \in Replicas : Up(w)) => \E b \in Builds : Stored(b)

(* "A new value takes effect on the next worker restart" (dispatcher.py): when *)
(* a rollout is over and every replica is up on one build, the limits are that *)
(* build's, whichever replica's write or creation came last on the way.        *)
RolloutConverges ==
    \A b \in Builds : (\A w \in Replicas : Up(w) /\ build[w] = b) => Stored(b)

(* "The deliver subject, queue group and filter cannot change on a push        *)
(* consumer, and must go back exactly as they are": updates from stale reads   *)
(* included.                                                                   *)
KeepsUndeclared == [][durable # <<>> => durable'["other"] = durable["other"]]_vars

(* However the calls of all replicas interleave and fail, once the broker is   *)
(* reachable every replica comes up.                                           *)
EventuallyUp == <>[](\A w \in Replicas : Up(w))

(* init_nats overwrites the client of an attempt that connected and then       *)
(* failed to declare a stream, and nothing closes it: the leak is at most one  *)
(* connection for each attempt of the bounded retry, and a replica never goes  *)
(* on without one.                                                             *)
LeaksOnePerAttempt ==
    \A w \in Replicas : pc[w] # At("down") =>
        /\ conns[w] <= attempt[w]
        /\ pc[w] # At("connect") => conns[w] >= 1
===============================================================================
