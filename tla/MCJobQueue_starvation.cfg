SPECIFICATION SpecStaysUp
CONSTANTS
    w1 = w1  w2 = w2  f1 = f1  f2 = f2  None = None
    MaxJobs = 2
    Workers <- OneWorker
    Fingerprints <- TwoRequests
    MaxAttempts = 2
    LeaseTicks = 1
    RetryTicks = 1
INVARIANT
    OneActiveJobPerRequest
PROPERTY
    NoStarvation
CHECK_DEADLOCK FALSE
