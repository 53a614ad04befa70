\* Two overlapping requests, the worker's scan and a grant that ends.
CONSTANTS
    Request = {q1, q2}
    StaleTicks = 1
    NoRequest = no_request
    NoScan = no_scan
SPECIFICATION Spec
INVARIANTS
    StudioSound
PROPERTIES
    ClosedStaysClosed
    RevokedCloses
    RevokedGoesOffAir
CHECK_DEADLOCK FALSE
