SPECIFICATION Spec
CONSTANTS
    NoRound = NoRound
    Stuck = 5
    Window = 11
    MinDelta = 2
    RoundBudget = 4
    MaxFailures = 2
    Interval = 1
    LogTakes = 1
    TurnTakes = 2
    MaxLost = 2
    MaxBlind = 1
    MinPace = 1
    Rounds = 4
    MaxTime = 14
INVARIANT SlowMeansSlow
INVARIANT StuckMeansStalled
INVARIANT StuckIsNoticed
\* The loop ends, or the clock.
CHECK_DEADLOCK FALSE
