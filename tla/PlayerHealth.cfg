\* One player, two overlapping requests, two workers that scan at the same
\* time, two incidents.
CONSTANTS
    Player = {p1}
    Incident = {i1, i2}
    Worker = {w1, w2}
    Request = {q1, q2}
    OfflineTicks = 1
    Escalation = {2}
    MaxClock = 3
    MaxRequests = 2
    None = none
SPECIFICATION Spec
PROPERTIES
    IncidentAdvances
    OfflineIsReported
    Escalates
CHECK_DEADLOCK FALSE
