\* Two requests of every class, two attempts each, overlapping and cut.
CONSTANTS
    r1 = r1  r2 = r2
    Requests = {r1, r2}
    RequestKinds <- EveryKind
    MaxAttempts = 2
SPECIFICATION Spec
INVARIANTS
    TypeOK
    SuccessMeansStored
    VerdictIsFinal
PROPERTIES
    RedeliveryIsIdempotent
CHECK_DEADLOCK FALSE
