\* Two workers over two jobs: overlapping batches, expired leases, a crash
\* and a manual retry.
CONSTANTS
    Job = {1, 2}
    Worker = {w1, w2}
    BatchSize = 2
    LeaseTicks = 2
    MaxAttempts = 2
    BaseDelay = 1
    MaximumDelay = 2
    MaxClock = 4
    MaxBatchTicks = 2
    MaxCrashes = 1
    MaxRetries = 1
SYMMETRY WorkerSymmetry
SPECIFICATION Spec
INVARIANTS
    QueueSound
PROPERTIES
    LeaseRespected
    BackoffRespected
    ImplementsLifecycle
CHECK_DEADLOCK FALSE
