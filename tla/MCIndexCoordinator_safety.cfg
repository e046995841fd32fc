CONSTANTS
    r1 = r1
    p1 = p1
    p2 = p2
    t1 = t1
    t2 = t2
    Run = {r1}
    Page <- MCPage
    Task <- MCTask
    RunOf <- OneRun
    MaxAttempt = 2
    BatchPages = 2
    MaxActive = 2
    ProviderSlots = 1
    Restarts = TRUE
    FrontendLoss = TRUE
SPECIFICATION Spec
SYMMETRY MCSymmetry
INVARIANTS
    
    ActivePagesCovered
    TerminalRunHasNoWorkingPage
PROPERTIES
    MaintenanceExcludesIndexing
    ImplementsLedger
CHECK_DEADLOCK FALSE
