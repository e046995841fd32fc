CONSTANTS
    t1 = t1
    t2 = t2
    t3 = t3
    import = import
    Task = {t1, t2, t3}
    Kind = {import}
    MaxCount = 2
    MaxTicket = 2
SPECIFICATION FairSpec
INVARIANTS
    GateIsAccurate
    MutualExclusion
PROPERTIES
    QueueIsFair
    ImplementsAccess
    MaintenanceServed
    ShutdownReleasesWaiters
CHECK_DEADLOCK FALSE
