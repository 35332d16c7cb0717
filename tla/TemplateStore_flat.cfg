\* Three fetches of two templates while they are published and withdrawn.
CONSTANTS
    a = a  ab = ab  c = c  bad = bad  f1 = f1  f2 = f2  f3 = f3
    Prefixes = {a, c}
    Below <- Flat
    Malformed = {c}
    Rejected = {bad}
    Fetchers = {f1, f2, f3}
    SharedDisk = TRUE
    MaxCrashes = 1
SPECIFICATION Spec
SYMMETRY FetcherSymmetry
INVARIANTS
    TypeOK
    HitIsComplete
    NoLeakWithoutCrash
    NotFoundOnlyIfAbsent
CHECK_DEADLOCK FALSE
