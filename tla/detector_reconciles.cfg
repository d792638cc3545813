SPECIFICATION Spec
CONSTANTS
    Job = {j1}
    j1 = j1
    Pod = {p1, p2}
    p1 = p1
    p2 = p2
    NoPod = NoPod
    Budget <- Budgets
    MaxTime = 3
    MaxStart = 1
    Drafts = TRUE
    DbMayFail = FALSE
PROPERTY NeverReapsRunning
PROPERTY StaleReconciled
