CONSTANTS
    b1 = b1
    v1 = v1
    v2 = v2
    u1 = u1
    u2 = u2
    None = None
    l1 = l1
    Blocks = {b1}
    Values = {v1, v2}
    Texts = {u1, u2}
    Recognitions <- MCRecognitions
    Loads = {l1}
    MaxVersion = 3
    MaxRevision = 3
SPECIFICATION ContentSpec
INVARIANTS
    ActiveOverItsOriginal
    SearchFollowsTheUser

    
CHECK_DEADLOCK FALSE
