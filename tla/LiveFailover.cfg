\* Two managers' requests against the worker's cycles.
CONSTANTS
    Primary = primary
    Backup = backup
    None = none
    FreshTicks = 1
    FailureThreshold = 2
    RecoveryThreshold = 3
    HoldTicks = 1
    OverrideTicks = 2
    MaxRequests = 2
SPECIFICATION Spec
INVARIANTS
    PolicySound
PROPERTIES
    ReturnIsEarned
    OverrideEnds
    PrimaryReturns
    BackupTakesOver
