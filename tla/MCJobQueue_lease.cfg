SPECIFICATION Spec
CONSTANTS
    w1 = w1  w2 = w2  f1 = f1  f2 = f2  None = None
    MaxJobs = 1
    Workers <- TwoWorkers
    Fingerprints <- OneRequest
    MaxAttempts = 3
    LeaseTicks = 2
    RetryTicks = 1
INVARIANTS
    TypeOK
    StageNamesNextRun
    ArtifactsMatchStage
    OwnerCommitsItsStage
PROPERTIES
    TerminalIsFinal
    OnlyLiveOwnerMovesRow
    ImplementsLifecycle
