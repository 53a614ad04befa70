-------------------------- MODULE MCPlayerCommands --------------------------
(* Small instances of PlayerCommands for TLC. *)
EXTENDS PlayerCommands
=============================================================================
