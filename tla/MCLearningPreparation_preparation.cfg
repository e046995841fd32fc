CONSTANTS
    p1 = p1
    c1 = c1
    c2 = c2
    None = None
    Preparations = {p1}
    Calls = {c1, c2}
    Libraries <- MCLibraries
    Passage <- MCPassage
    Outline <- MCOutline
    Pair <- MCPair
    Placeholder <- MCPlaceholder
    Resembles <- MCResembles
    MaxHits = 2
    MaxPairs = 2
    MaxPreparations = 1
    MaxTokens = 2
    MaxChanges = 1
    Window = 20
    OutputTokens = 1
    StandardCap = 8
    LongCap = 20
    MinimumOutput = 2
    SmallWindow = 4
    ProtocolReserve = 1
    Base = 1
SYMMETRY CallSymmetry
SPECIFICATION Spec
INVARIANTS
    StartedAsAgreed
    PromptIsRight

    
CHECK_DEADLOCK FALSE
