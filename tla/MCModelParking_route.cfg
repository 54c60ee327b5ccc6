SPECIFICATION Spec
CONSTANTS
    m1 = m1
    w = w
    c1 = c1
    j1 = j1
    j2 = j2
    None = None
    Models <- TwoModels
    NeedsCli <- Whisper
    Callers <- NoCaller
    MaxTrash = 0
    Jobs <- OneJob
    Preferred <- Both
    Recommended = m1
INVARIANTS
    RecommendationIsPinned
PROPERTY PinIsKept
