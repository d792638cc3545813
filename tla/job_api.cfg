SPECIFICATION Spec
CONSTANTS
    Request = {r1, r2}
    r1 = r1
    r2 = r2
    Content = {c1, c2}
    c1 = c1
    c2 = c2
    NoContent = NoContent
    MaxJobs = 2
    MaxTokens = 1
    Pod = {}
    NoPod = NoPod
    DbMayFail = FALSE
SYMMETRY Symmetries
INVARIANT TwinsOverlapped
INVARIANT LiveHasWorkflow
INVARIANT RunsWhatItShows
INVARIANT EveryJobIsListed
INVARIANT SharedIsFinished
\* Every job may be gone and the bounds reached.
CHECK_DEADLOCK FALSE
