SPECIFICATION AdminSpec
CONSTANTS
    k1 = k1  k2 = k2  r1 = r1  r2 = r2  r3 = r3
    Keys <- TwoKeys
    Requests <- ThreeRequests
    KeyOf <- KeyOfRequest
    Priced <- TwoKeys
    Limits = {0, 2}
    Costs = {1, 2}
    DayLen = 2
    ShortLen = 1
    MaxTime = 3
    MaxChanges = 1
    MaxRestarts = 1
    Admins = {"a1", "a2"}
    Backends = {"file", "postgres"}
    DroppedWrites = {}
    Operations = {"settings", "aliases", "insert_upstream", "patch_upstream", "remove_upstream", "toggle_downstream", "rotate_downstream", "patch_downstream", "delete_group", "other"}
    MaxRevision = 2
    MaxSecret = 2
    MaxCalls = 4
    Users = {"u1", "u2"}
    AccessKeys = {1, 2, 3}
    Migrated = 1
    Conflicted = 2
    KeyLimit = 2
    MaxTransactions = 5
    NoUser = NoUser
    NoKey = NoKey
    UpKeys = {"k", "l"}
    UpModels = {"m"}
    QualProtocols = {"chat", "responses"}
    MaxRuns = 1
    MaxEdits = 1
INVARIANTS ChargedOnce SettingsNotOverwritten QualificationSafe
PROPERTIES BudgetFair PersistBeforePublish AccessPromise
CHECK_DEADLOCK FALSE
