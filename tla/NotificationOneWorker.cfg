\* The documented deployment: one operations worker, two members, provider
\* and database failures, a crash, and members reading their notifications
\* or changing a preference between two attempts.
CONSTANTS
    Job = {1}
    Worker = {w1}
    BatchSize = 1
    LeaseTicks = 1
    MaxAttempts = 2
    BaseDelay = 1
    MaximumDelay = 1
    MaxClock = 2
    MaxBatchTicks = 1
    MaxCrashes = 1
    MaxRetries = 1
    Recipient = {r1, r2}
    MaxChanges = 1
SYMMETRY Symmetry
SPECIFICATION Spec
INVARIANTS
    EvidenceSound
    NoFailureClosed
PROPERTIES
    ReadStateSurvivesRetry
    MailEvidenceIsFinal
CHECK_DEADLOCK FALSE
