--------------------------- MODULE MCPlayerHealth ---------------------------
(* Small instances of PlayerHealth for TLC. *)
EXTENDS PlayerHealth
=============================================================================
