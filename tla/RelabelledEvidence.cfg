SPECIFICATION ProbesSpec
CONSTANTS
    Routes = {"r"}
    ChannelSize = 1
    QueueSize = 1
    MaxRunning = 1
    MaxAsks = 2
    MaxEdits = 1
    MaxPolicies = 1
    NoJob = NoJob
INVARIANT EvidenceOfItsConfiguration
CHECK_DEADLOCK FALSE
