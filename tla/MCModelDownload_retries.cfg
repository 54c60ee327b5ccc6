SPECIFICATION Spec
CONSTANTS
    Manifests <- Both
    Sources = 2
    Interval = 2
    MaxFaults = 6
INVARIANTS
    TypeOK
    RecordedIsWritten
    CompletedIsGood
PROPERTY RetriesSucceed
CHECK_DEADLOCK FALSE
