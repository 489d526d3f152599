SPECIFICATION BothSpec
CONSTANTS
    Action = {publish, rollback}
    Limit = 2
    TTL = 1
    Client = {c1, c2}
    MaxRequests = 3
    MaxTime = 2
    MaxRestarts = 2
    MaxSaveFailures = 1
    Cli = {"cli"}
    MaxSize = 2
    MaxFile = 1
    MaxBackups = 1
    MaxEntries = 3
    MaxInodes = 3
    MaxSeconds = 2
    MaxFailures = 2
INVARIANTS OneGrantPerApproval NumbersNotReused OneGrantPerRun NothingLost FileIsInMemory
PROPERTIES ExpiredNeverGranted
CHECK_DEADLOCK FALSE
