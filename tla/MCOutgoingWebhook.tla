-------------------------- MODULE MCOutgoingWebhook --------------------------
(* Small instances of OutgoingWebhook for TLC. *)
EXTENDS OutgoingWebhook, TLC

TwoDelays == <<1, 2>>

Symmetry == Permutations(Event) \union Permutations(Dispatcher)
=============================================================================
