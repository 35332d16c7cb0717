\* One template stored below another; the outer one is fetched second.
CONSTANTS
    a = a  ab = ab  c = c  bad = bad  f1 = f1  f2 = f2  f3 = f3
    Prefixes = {a, ab}
    Below <- Nested
    Malformed = {}
    Rejected = {}
    Fetchers = {f1, f2}
    SharedDisk = FALSE
    MaxCrashes = 0
SPECIFICATION Spec
INVARIANTS
    NotFoundOnlyIfAbsent
CHECK_DEADLOCK FALSE
