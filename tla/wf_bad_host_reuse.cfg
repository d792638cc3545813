SPECIFICATION Spec
CONSTANTS
    Pod = {p1, p2}
    p1 = p1
    p2 = p2
    NoPod = NoPod
    DbMayFail = FALSE
    Overruns = FALSE
    MaxSwap = 0
    MaxBadHost = 1
    MaxUnreachable = 0
    Attempts <- CodeAttempts
INVARIANT BadHostSwapIsFresh
SYMMETRY PodSymmetry
\* The workflow ends.
CHECK_DEADLOCK FALSE
