SPECIFICATION StoreSpec
CONSTANTS
    m1 = m1
    w = w
    c1 = c1
    c2 = c2
    None = None
    Models <- OneModel
    NeedsCli <- NoCli
    Callers <- OneCaller
    MaxTrash = 2
INVARIANT RecordedModelIntact
