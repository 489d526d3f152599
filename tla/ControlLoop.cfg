SPECIFICATION Spec
CONSTANTS
    Agent = {a1}
    Groups = {"prod"}
    Statuses = {"revoked", "quarantined"}
    Rules = {R0, R1}
    EmptyRules = R0
    Handler = {h1, h2}
    MaxCalls = 1
    MaxCrashes = 1
    MaxReports = 2
INVARIANTS ReturnedVersionsSurvive StateFileIsWhole
PROPERTIES ReportsKeepEnrollment
SYMMETRY Symmetry
CHECK_DEADLOCK FALSE
