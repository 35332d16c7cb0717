\* Shutdown cancels the last delivery the broker will make.
CONSTANTS
    m1 = m1  m2 = m2  w1 = w1  w2 = w2
    Msgs = {m1}
    Workers = {w1, w2}
    MaxDeliver = 1
    PoolSize = 1
    Undecodable = {}
    SlowHandlers = FALSE
    MaxStops = 2
SPECIFICATION SafetySpec
INVARIANTS
    CancelledIsRedelivered
CHECK_DEADLOCK FALSE
