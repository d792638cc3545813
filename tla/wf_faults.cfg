SPECIFICATION Spec
CONSTANTS
    Pod = {p1, p2}
    p1 = p1
    p2 = p2
    NoPod = NoPod
    DbMayFail = TRUE
    Overruns = TRUE
    MaxSwap = 1
    MaxBadHost = 1
    MaxUnreachable = 1
    Attempts <- FewAttempts
INVARIANT TeardownComplete
PROPERTY CustodyKept
\* The workflow ends.
CHECK_DEADLOCK FALSE
