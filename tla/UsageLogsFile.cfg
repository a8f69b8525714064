SPECIFICATION Spec
CONSTANTS
    Logs = {1, 2, 3}
    Admins = {a1}
    Backend = "file"
    MaxFiles = 1
    MaxErrors = 1
    MaxCrashes = 1
    MaxPrunes = 0
INVARIANTS PipelineKept SnapshotComplete
CHECK_DEADLOCK FALSE
