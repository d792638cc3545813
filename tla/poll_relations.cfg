SPECIFICATION Spec
CONSTANTS
    Files <- MCFiles
    Written <- MCWritten
    ChatLog = "chat"
    UploadAttempts = 2
    MaxRestarts = 1
    MaxPolls = 4
    MaxFailures = 2
    MaxUnreachable = 1
INVARIANT RelationsFailSoft
\* The activity ends.
CHECK_DEADLOCK FALSE
