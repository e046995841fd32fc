CONSTANTS
    r1 = r1
    r2 = r2
    c1 = c1
    c2 = c2
    Request = {r1, r2}
    Conversation = {c1, c2}
    Fresh = Fresh
    MaxActive = 2
    MaxRetained = 1
SPECIFICATION FairSpec
INVARIANTS
    CompletedIsKept
    AnswersFollowTheirHistory
    HoldingsAreSound
PROPERTIES
    StoppedIsNeverKept
    RequestsEnd
CHECK_DEADLOCK FALSE
