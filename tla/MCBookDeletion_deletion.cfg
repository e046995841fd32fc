CONSTANTS
    b1 = b1
    b2 = b2
    None = None
    Books = {b1, b2}
    MaxFaults = 2
    MaxCrashes = 2
SPECIFICATION FairSpec
INVARIANTS
    NothingIsLost
    OldOrGone
PROPERTIES
    StartRecovers
CHECK_DEADLOCK FALSE
