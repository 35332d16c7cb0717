\* The worker's own time-outs under Docker's grace period and a longer one, with
\* two deliveries.
CONSTANTS
    m1 = m1  m2 = m2
    Messages = {m1, m2}
    Graces = {10, 30}
    DrainTimeout = 25
    FlushTimeout = 5
    SdkTimeout = 30
    LogsTime = 3
    BrokerTime = 2
    RenderTail = 5
SPECIFICATION Spec
INVARIANTS
    TypeOK
    CutOnlyAfterWait
    EveryStepTried
    LeavesInTime
PROPERTIES
    DrainFitsGrace
