SPECIFICATION RoutingSpec
CONSTANTS
    Routes = {"r1", "r2"}
    UpstreamOf <- MCUpstreamOf
    PinnedRoutes = {"r1"}
    Faults = {"transient", "concurrency", "unclassified"}
    Delays = {2}
    ReplayBackoff = 1
    SameRouteFloor = 1
    SameRouteCeiling = 3
    TransientThreshold = 2
    SameHostTransient = TRUE
    SameRouteRetryEnabled = TRUE
    LastResortEnabled = TRUE
    SlotQueueEnabled = TRUE
    FastFailEnabled = TRUE
    PinEscapeEnabled = TRUE
    AccountRounds = 1
    RetryEnabled = TRUE
    MaxWait = 3
    MaxRounds = 1
    ConcurrencyMaxWait = 3
    ConcurrencyMaxRounds = 1
    AlignmentEnabled = TRUE
    TruncationEnabled = TRUE
    BusyMaxRounds = 1
    RateLimitRetryEnabled = TRUE
    BusyRetry = 2
    MaxJitter = 0
INVARIANTS WaitsWithinBudget
PROPERTIES EveryRequestEnds
CHECK_DEADLOCK FALSE
