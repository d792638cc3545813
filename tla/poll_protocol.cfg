SPECIFICATION Spec
CONSTANTS
    Files <- MCFiles
    Written <- MCWritten
    ChatLog = "chat"
    UploadAttempts = 2
    MaxRestarts = 2
    MaxPolls = 5
    MaxFailures = 3
    MaxUnreachable = 1
INVARIANT TypeOK
INVARIANT GivesUpOnOutageOnly
INVARIANT SavedIsWhole
INVARIANT CompletedIsWhole
PROPERTY ResultsNotDiscarded
PROPERTY OnePipeline
PROPERTY Termination
\* The activity ends.
CHECK_DEADLOCK FALSE
