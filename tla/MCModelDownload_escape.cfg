SPECIFICATION Spec
CONSTANTS
    Manifests <- OneFileSet
    Sources = 2
    Interval = 2
    MaxFaults = 4
INVARIANT EveryErrorIsRecorded
CHECK_DEADLOCK FALSE
