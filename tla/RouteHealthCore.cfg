SPECIFICATION Spec
CONSTANTS
    r1 = r1  r2 = r2  r3 = r3  k1 = k1  k2 = k2  u1 = u1  u2 = u2
    Requests = {p1, p2}
    Routes = {r1}
    Keys = {k1}
    Upstreams = {u1}
    KeyOf <- OneRouteKey
    UpstreamOf <- OneKeyUpstream
    RouteFailures = {"TransientServer", "RateLimited"}
    KeyFailures = {"Credentials"}
    RetryAfters = {}
    Tunings <- Unenforced
    ScheduleLen = 2
    StreakReset = 2
    BusyRetry = 1
    HalfOpenStepCap = 2
    RouteCapacity = 1
    PerUpstreamCapacity = 1
    MaxClock = 2
    MaxGen = 2
SYMMETRY Symmetry
INVARIANTS ClassRetained
PROPERTIES ProbeExclusive ProbeSuccessKeepsNewer
