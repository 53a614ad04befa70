\* Two orders, two overlapping requests, two entries made by staff.
CONSTANTS
    Order = {o1, o2}
    StaffKey = {k1, k2}
    Quantity <- Quantities
    Request = {q1, q2}
    Nothing = nothing
SYMMETRY Symmetry
SPECIFICATION Spec
INVARIANTS
    CreditsConserved
    OrdersSound
CHECK_DEADLOCK FALSE
