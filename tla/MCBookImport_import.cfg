CONSTANTS
    b1 = b1
    b2 = b2
    f1 = f1
    f2 = f2
    f3 = f3
    u = u
    s1 = s1
    s2 = s2
    None = None
    Books = {b1, b2}
    Flows = {f1, f2}
    Users = {u}
    Sources = {s1, s2}
    MaxRestarts = 1
SPECIFICATION FairImportSpec

    
PROPERTIES
    CancelledCommitIsUndone
CHECK_DEADLOCK FALSE
