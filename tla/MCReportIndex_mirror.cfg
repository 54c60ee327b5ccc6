SPECIFICATION Spec
CONSTANTS
    Jobs = {1}
    NPaths = 3
    Batch = 2
    MaxFaults = 2
    None = None
    OtherJobs = {2}
    OtherReports = {3}
INVARIANTS
    TypeOK
    FtsPaired
    QuietRunMirrorsDisk
PROPERTIES
    FilesAreKept
    OutageLosesNothing
    PagesPartitionTasks
    OrphanedRunHeals
