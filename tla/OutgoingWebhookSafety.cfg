\* One event between two dispatchers, with lost answers, an error or a crash,
\* and operators who disconnect, revoke and recover.
CONSTANTS
    Event = {e1}
    Dispatcher = {d1, d2}
    AttemptsPerCycle = 2
    MaxRecovery = 1
    RetryDelays <- TwoDelays
    LockTicks = 2
    MaxClock = 5
    MaxBatchTicks = 3
    MaxErrors = 1
    MaxOperations = 1
SYMMETRY Symmetry
SPECIFICATION Spec
INVARIANTS
    DeliveriesSound
PROPERTIES
    DeliveredIsFinal
    AbandonedUntilRecovered
CHECK_DEADLOCK FALSE
