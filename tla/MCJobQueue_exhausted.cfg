SPECIFICATION Spec
CONSTANTS
    w1 = w1  w2 = w2  f1 = f1  f2 = f2  None = None
    MaxJobs = 1
    Workers <- OneWorker
    Fingerprints <- OneRequest
    MaxAttempts = 2
    LeaseTicks = 1
    RetryTicks = 1
PROPERTIES
    SpentJobEnds
