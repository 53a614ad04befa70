\* Two players opened in two browsers each, under a limit that changes, two of
\* their requests overlapping, with stopped leases and a retired player.
CONSTANTS
    Player = {p1, p2}
    Instance = {i1, i2}
    Request = {q1, q2}
    LeaseTicks = 2
    RequestTicks = 1
    MaxLimit = 2
    MaxClock = 3
    MaxGrants = 2
    MaxChanges = 1
    MaxRetired = 1
SYMMETRY Symmetry
SPECIFICATION Spec
INVARIANTS
    DeviceLock
    QuotaRestored
PROPERTIES
    StopHolds
    NoEviction
CHECK_DEADLOCK FALSE
