SPECIFICATION Spec
CONSTANTS
    r1 = r1  r2 = r2  r3 = r3  k1 = k1  k2 = k2  u1 = u1  u2 = u2
    Requests = {p1, p2}
    Routes = {r1, r2, r3}
    Keys = {k1, k2}
    Upstreams = {u1, u2}
    KeyOf <- TwoUpstreamKey
    UpstreamOf <- TwoUpstreams
    RouteFailures = {"TransientServer"}
    KeyFailures = {}
    RetryAfters = {}
    Tunings <- ShortenedTtl
    ScheduleLen = 2
    StreakReset = 2
    BusyRetry = 1
    HalfOpenStepCap = 2
    RouteCapacity = 2
    PerUpstreamCapacity = 1
    MaxClock = 1
    MaxGen = 1
INVARIANTS LeaseWithinTtl
PROPERTIES CapacitySafe
SYMMETRY Symmetry
