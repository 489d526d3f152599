SPECIFICATION PoolSpec
CONSTANTS
    Item = {e1, e2}
    Nil = Nil
    Cap = 2
    MaxPush = 4
    ChanCap = 1
INVARIANTS NoSlotRace RefusedOnlyWhenFull ParsedAreHandedOn
PROPERTIES ImplementsFifo EveryPushIsPopped StopReturnsUnlessBlocked
CHECK_DEADLOCK FALSE
