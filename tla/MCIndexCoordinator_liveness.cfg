CONSTANTS
    r1 = r1
    p1 = p1
    p2 = p2
    t1 = t1
    t2 = t2
    Run = {r1}
    Page <- MCPage
    Task <- MCTask
    RunOf <- OneRun
    MaxAttempt = 1
    BatchPages = 2
    MaxActive = 2
    ProviderSlots = 1
    Restarts = TRUE
    FrontendLoss = FALSE
SPECIFICATION FairSpec
PROPERTIES
    
    ClaimsSettle
CHECK_DEADLOCK FALSE
