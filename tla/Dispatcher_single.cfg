\* One well-formed request through every failure, duplicate and restart.
CONSTANTS
    m1 = m1  m2 = m2  w1 = w1  w2 = w2
    Msgs = {m1}
    Workers = {w1, w2}
    MaxDeliver = 2
    PoolSize = 1
    Undecodable = {}
    SlowHandlers = TRUE
    MaxStops = 2
SPECIFICATION SafetySpec
SYMMETRY WorkerSymmetry
INVARIANTS
    TypeOK
    LossNeedsRefusedDlq
    GivesUpOnlyWhenExhausted
    DeadLetterAfterAnswer
    StrandedOnlyByLoss
PROPERTIES
    ImplementsLifecycle
CHECK_DEADLOCK FALSE
