---------------------------- MODULE MCPlayerLease ----------------------------
(* Small instances of PlayerLease for TLC. *)
EXTENDS PlayerLease, TLC

(* Players, browser instances and requests are interchangeable. *)
Symmetry ==
    Permutations(Player) \union Permutations(Instance) \union Permutations(Request)
=============================================================================
