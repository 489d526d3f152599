SPECIFICATION AuditSpec
CONSTANTS
    Cli = {"cli"}
    MaxSize = 2
    MaxFile = 1
    MaxBackups = 1
    MaxEntries = 3
    MaxInodes = 3
    MaxSeconds = 2
    MaxFailures = 1
INVARIANTS UnreadRemainOnDisk
CHECK_DEADLOCK FALSE
