SPECIFICATION BothSpec
CONSTANTS
    MaxEvents = 3
    MaxFaults = 2
    Notifier <- Channels
    Operator = {o1, o2}
    MaxAttempts = 2
    MinInterval = 1
    MaxHistory = 1
    Pattern = {p1}
    MaxNotes = 2
    MaxLetters = 2
    MaxTicks = 1
INVARIANTS FaultsLoseNothing FirstCopiesInOrder NothingForgotten DuplicatesExcused
PROPERTIES OutboxDrains CallsReturn
CHECK_DEADLOCK FALSE
