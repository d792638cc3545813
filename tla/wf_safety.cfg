SPECIFICATION Spec
CONSTANTS
    Pod = {p1, p2, p3}
    p1 = p1
    p2 = p2
    p3 = p3
    NoPod = NoPod
    DbMayFail = FALSE
    Overruns = FALSE
    MaxSwap = 1
    MaxBadHost = 1
    MaxUnreachable = 2
    Attempts <- FewAttempts
INVARIANT TypeOK
INVARIANT SwapIsFresh
INVARIANT SettledWhenDone
PROPERTY EnqueuedInReporting
PROPERTY Termination
\* The workflow ends.
CHECK_DEADLOCK FALSE
