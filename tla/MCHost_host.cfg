SPECIFICATION HostSpec
CONSTANTS
    NPids = 3
    Schema = 2
    MaxKills = 1
    NoPid = NoPid
    Urls = {"a1", "a2", "b"}
    Origin <- TwoSites
    Payloads <- SmallBodies
    MaxPuts = 2
    MaxTrouble = 2
    None = None
    Rests = {0, 1}
    Foreign <- SomeFiles
    Keep = 2
    MaxRequests = 3
    MaxMishaps = 2
    Absent = Absent
INVARIANTS
    HostTypeOK
    OneEngine
    BackupHoldsItsVersion
    RowNamesItsKey
    CompletedIsRunnable
    KeyStaysAtItsEndpoint
    PointerFollowsRow
    UnadoptedKeysAreGone
    AnswersAgree
PROPERTIES
    StaleLockYields
    NothingIsLost
    OperationsAreSurgical
    RestoreIsReversible
CHECK_DEADLOCK FALSE
