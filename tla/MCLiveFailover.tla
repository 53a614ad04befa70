--------------------------- MODULE MCLiveFailover ---------------------------
(* Small instances of LiveFailover for TLC. *)
EXTENDS LiveFailover
=============================================================================
