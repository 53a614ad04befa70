\* A cancellation that overlaps the authorisation of a paid add-on.
CONSTANTS
    Order = {o1}
    StaffKey = {}
    Quantity <- Quantities
    Request = {q1, q2}
    Nothing = nothing
SPECIFICATION Spec
INVARIANT
    CancellationReleases
CHECK_DEADLOCK FALSE
