CONSTANTS
    p1 = p1
    p2 = p2
    f1 = f1
    a1 = a1
    None = None
    Profiles = {p1, p2}
    Files = {f1}
    Admins = {a1}
    ForeignAnswers = {"refused"}
    MAX_CLEANUP_ATTEMPTS = 2
    MaxClaims = 3
    MaxKeys = 2
    MaxFaults = 1
SYMMETRY ProfileSymmetry
SPECIFICATION Spec
INVARIANTS
    
    NeverDeletedTwice
    KeyFollowsItsProfile
