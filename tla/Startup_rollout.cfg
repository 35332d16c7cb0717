\* Two replicas of two builds come up, fail and are replaced.
CONSTANTS
    w1 = w1  w2 = w2
    Replicas = {w1, w2}
    Latest = 1
    Limits <- TwoBuilds
    Stray <- Leftover
    MaxAttempts = 2
    MaxFaults = 4
SPECIFICATION Spec
INVARIANTS
    TypeOK
    NoMixedLimits
    RolloutConverges
    LeaksOnePerAttempt
PROPERTIES
    KeepsUndeclared
    EventuallyUp
CHECK_DEADLOCK FALSE
