SPECIFICATION Spec
INVARIANTS TokenMeansPaused RequestNotForgotten
PROPERTIES AddEventReturns MonitorSendCompletes ShutdownCompletes
CHECK_DEADLOCK FALSE
