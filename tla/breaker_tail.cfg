SPECIFICATION BreakerSpec
CONSTANTS
    TailLen = 4
    InWindow = 2
    MinSamples = 3
    ErrorRate = 60
    MaxLines = 6
    MaxFetches = 5
INVARIANT DominatedTail
\* The bounds stop everything.
CHECK_DEADLOCK FALSE
