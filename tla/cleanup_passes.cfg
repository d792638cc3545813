SPECIFICATION Spec
CONSTANTS
    Job = {j1}
    j1 = j1
    Pod = {p1, p2, p3}
    p1 = p1
    p2 = p2
    p3 = p3
    NoPod = NoPod
    NoJob = NoJob
    Foreign = {}
    Legacy = {p3}
    DbMayFail = TRUE
PROPERTY NoKillInGrace
PROPERTY NoKillNamed
PROPERTY OrphansGo
