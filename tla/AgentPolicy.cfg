SPECIFICATION Spec
CONSTANTS
    Rule = {r1, r2}
    BuiltinRules = {r1}
    MaxVersion = 2
    Task = {t1, t2}
    MaxRestarts = 1
INVARIANTS LoneApplicationIsExact
PROPERTIES ConvergesToCurrent
CHECK_DEADLOCK FALSE
