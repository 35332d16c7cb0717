\* An ordinary and an undecodable request share one slot; ack_wait outlasts
\* the handlers.
CONSTANTS
    m1 = m1  m2 = m2  w1 = w1  w2 = w2
    Msgs = {m1, m2}
    Workers = {w1, w2}
    MaxDeliver = 1
    PoolSize = 1
    Undecodable = {m2}
    SlowHandlers = FALSE
    MaxStops = 1
SPECIFICATION Spec
INVARIANTS
    NeverOverrunsPool
PROPERTIES
    SettledIsQuiet
    EventuallyResolved
CHECK_DEADLOCK FALSE
