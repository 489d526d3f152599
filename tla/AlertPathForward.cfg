SPECIFICATION Spec
CONSTANTS
    Finding <- Findings
    DedupWindow = 1
    MaxAlerts = 2
    SilenceTime = {1}
    Watcher = {w1, w2}
    ChanCap = 1
    SubCap = 1
    MaxSubs = 1
    MaxTime = 1
    MaxEmits = 3
PROPERTY ForwardedToAll
CHECK_DEADLOCK FALSE
