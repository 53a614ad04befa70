\* The deployment the documentation prescribes: one worker, which may die or
\* meet an error in either phase.  MaxClock is above the last instant the
\* system can need.
CONSTANTS
    Job = {1}
    Worker = {w1}
    BatchSize = 1
    LeaseTicks = 2
    MaxAttempts = 2
    BaseDelay = 1
    MaximumDelay = 2
    AttemptsPerCycle = 2
    MaxRecovery = 0
    RetryDelays <- TwoDelays
    LockTicks = 2
    MaxClock = 30
    MaxBatchTicks = 1
    MaxCrashes = 1
    MaxRetries = 0
    MaxErrors = 1
    MaxOperations = 0
SPECIFICATION Spec
PROPERTIES
    EndToEnd
CHECK_DEADLOCK FALSE
