SPECIFICATION TrafficSpec
CONSTANTS
    BodyKinds = {"chat", "responses", "toResponses", "toChat"}
    Chunks <- SmallChunks
    MaxSkipped = 1
    MaxSends = 2
    MaxChunks = 3
    Keepalive = 2
    IdleTimeout = 3
    MaxDuration = 11
    MaxReads = 3
    Senders = {"q1", "q2"}
    NoSender = "none"
    SyncKeys = {"k1"}
    SyncModels = {"m"}
    Interval = 2
    LastTime = 3
    MaxJobs = 1
    Routes = {"r"}
    ChannelSize = 1
    QueueSize = 1
    MaxRunning = 1
    MaxAsks = 2
    MaxEdits = 1
    MaxPolicies = 1
    NoJob = NoJob
    Plans = {"chat", "responses", "reasoning"}
    MaxOdd = 2
INVARIANTS StreamTold SilenceBounded PlanStoresProof
PROPERTIES StreamSlotsComeBack RecoveryShared  SubmissionsSettle
CHECK_DEADLOCK FALSE
