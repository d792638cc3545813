SPECIFICATION Spec
CONSTANTS
    Worker = {w1, w2}
    w1 = w1
    w2 = w2
    NoPod = NoPod
    Pod = {}
    NoText = NoText
    MaxRetries = 5
    MaxSent = 2
    MaxCrashes = 2
    Uncaught = TRUE
    Detector = TRUE
    DbMayFail = TRUE
INVARIANT TypeOK
PROPERTY DecidedOnce
INVARIANT NeverForgotten
PROPERTY Resolved
\* The job is done.
CHECK_DEADLOCK FALSE
