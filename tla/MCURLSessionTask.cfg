SPECIFICATION FairSpec
CONSTANTS
    Scenarios <- MCScenarios
    MaxCalls = 2
    MaxData = 2
CHECK_DEADLOCK FALSE
INVARIANTS
    TypeOK
    AssertionsHold
    CompletionIsLastWord
    CompletionIsReported
    InvalidationIsLast
    SuspendedIsIdle
    OneTransfer
PROPERTIES
    CancelIsFinal
    CancelCompletes
    RunningEnds
