\* Two replicas, two requests, one consumer-wide limit.
CONSTANTS
    m1 = m1  m2 = m2  w1 = w1  w2 = w2
    Msgs = {m1, m2}
    Workers = {w1, w2}
    MaxDeliver = 1
    PoolSize = 1
    Undecodable = {}
    SlowHandlers = FALSE
    MaxStops = 0
SPECIFICATION SafetySpec
INVARIANTS
    QueuedOnlyWhenReplicasBusy
CHECK_DEADLOCK FALSE
