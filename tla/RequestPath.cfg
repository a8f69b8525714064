SPECIFICATION PathSpec
CONSTANTS
    r1 = r1  r2 = r2  r3 = r3  g1 = g1
    Requests = {r1, r2, r3}
    Groups = {g1}
    GroupOf <- MixedGroups
    GroupCap <- OneSlotEach
    MaxConcurrency = 2
    PerMinute = 2
    MinuteLen = 1
    QuotaLimit = 2
    QuotaLen = 2
    LeaseTtl = 1
    MaxClock = 3
    Calls = {"c1", "c2"}
    Buckets = {"a", "b"}
    BucketCap = 1
    TotalCap = 1
    RedisLeaseTtl = 2
    StaleAfter = 1
    MaxWire = 2
    MaxTimeouts = 1
    LastNow = 3
    Waiters = {"u", "v"}
    ProbeTtl = 1
    Cooldown = 1
    NamedDelay = 2
    MaxTokens = 4
    MaxLate = 1
    LastSecond = 2
    Attempts = {"p", "q"}
    Cool = 1
    HalfOpenTtl = 2
    Exclusive = 1
    MaxStep = 2
    MaxObserved = 1
    LastMoment = 3
    Owners = {"d", "e"}
    Ids = {"x", "l"}
    Legacy = "l"
    HistoryTtl = 0
    HistoryLimit = 2
    LastHour = 1
    MaxTasks = 2
    Providers = {"a", "b", "c"}
    Upstreams = {"ab", "c"}
    UpstreamOf <- TwoKeysAndOne
    StageTries = 2
    MaxTurns = 2
    Candidates = 4
    ExtraLimit = 2
    Tools = {1, 2}
    Styles = {"indexed", "ided", "bare", "anon"}
    MaxChatEvents = 7
    Pieces = 2
INVARIANTS AdmissionKept WindowKept LeasesTrue AccountTrue HistoriesSafe LastAnswerSanitised RaceSafe CallsTranslated PartsTranslated
PROPERTIES FinishesTrue FallbackNeverClimbs
CHECK_DEADLOCK FALSE
