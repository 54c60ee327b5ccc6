SPECIFICATION Spec
CONSTANTS
    Jobs = {1}
    NPaths = 2
    Batch = 1
    MaxFaults = 1
    None = None
    OtherJobs = {2}
    OtherReports = {3}
PROPERTY PipelineRowsAreKept
