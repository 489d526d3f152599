SPECIFICATION Spec
CONSTANTS
    Agent = {a1}
    Groups = {}
    Statuses = {}
    Rules = {R0, R1}
    EmptyRules = R0
    Handler = {h1}
    MaxCalls = 2
    MaxCrashes = 1
    MaxReports = 3
INVARIANTS AppliedIsEnforced
VIEW WithoutSaveHistory
CHECK_DEADLOCK FALSE
