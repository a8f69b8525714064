SPECIFICATION FairSpec
CONSTANTS
    Logs = {1, 2}
    Admins = {}
    Backend = "postgres"
    MaxFiles = 1
    MaxErrors = 1
    MaxCrashes = 1
    MaxPrunes = 1
PROPERTY EventuallyStored
CHECK_DEADLOCK FALSE
