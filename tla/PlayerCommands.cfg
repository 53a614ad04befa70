\* An enrolled player and two that replace it, two commands of one kind and three
\* overlapping requests.
CONSTANTS
    Player = {p1, p2, p3}
    Before = {p1}
    Command = {c1, c2}
    Kind = {ping}
    Request = {q1, q2, q3}
    Ttl = 1
    MaxClock = 1
    MaxRequests = 3
    None = none
SPECIFICATION Spec
INVARIANTS
    CommandsSound
PROPERTIES
    CommandLifecycle
    CommandsSettle
CHECK_DEADLOCK FALSE
