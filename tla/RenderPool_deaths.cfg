\* Four renders, one of which hangs, one or two processes, two deaths.
CONSTANTS
    r1 = r1  r2 = r2  r3 = r3  r4 = r4
    Renders = {r1, r2, r3, r4}
    Hosts <- SmallHosts
    Hanging = {r1}
    MaxDeaths = 2
SPECIFICATION Spec
INVARIANTS
    TypeOK
    BlastRadius
    AdmittedHasProcess
    PermitsBalance
PROPERTIES
    EveryRenderEnds
    EventuallyExits
CHECK_DEADLOCK FALSE
