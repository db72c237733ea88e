SPECIFICATION Spec
CONSTANTS
    Scenarios <- SuspendScenarios
    MaxCalls = 0
    MaxData = 1
CHECK_DEADLOCK FALSE
INVARIANTS
    AssertionsHold
