SPECIFICATION EdgeSpec
CONSTANTS
    Key = {k1, k2}
    MaxEvents = 3
    MaxFlushes = 2
    BatchCap = 2
INVARIANTS CountsBounded StopLosesOnlyInFlight ArchiveHasPendingWrites
PROPERTIES StopCompletes
CHECK_DEADLOCK FALSE
