--------------------------- MODULE MCInsideOverride ---------------------------
(* Small instances of InsideOverride for TLC. *)
EXTENDS InsideOverride

CONSTANTS p1, p2

Players == {p1, p2}
SecondPlayer == {p2}

(* A priority announcement for one area and an emergency for both.         *)
BothTypes ==
    {[type |-> "PRIORITY", targets |-> SecondPlayer], [type |-> "EMERGENCY", targets |-> Players]}
=============================================================================
