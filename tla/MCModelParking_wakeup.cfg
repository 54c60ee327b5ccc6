SPECIFICATION SpecNoDbError
CONSTANTS
    m1 = m1
    w = w
    c1 = c1
    j1 = j1
    j2 = j2
    None = None
    Models <- OneModel
    NeedsCli <- Whisper
    Callers <- NoCaller
    MaxTrash = 1
    Jobs <- OneJob
    Preferred <- Only
    Recommended = w
PROPERTY WaitingResumes
