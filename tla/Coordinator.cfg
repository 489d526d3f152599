SPECIFICATION Spec
CONSTANTS
    N = 3
    ConfiguredLeader = 2
    ConfiguredRole <- LastObserves
    Interval = 2
    Timeout = 3
    Delay = 1
    MaxFaults = 1
INVARIANTS StaleClaimsOnly FreshHeartbeat
PROPERTY OneLeaderInTheEnd
