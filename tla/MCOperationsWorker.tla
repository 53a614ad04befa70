-------------------------- MODULE MCOperationsWorker --------------------------
(* Small instances of OperationsWorker for TLC. *)
EXTENDS OperationsWorker, TLC

TwoDelays == <<1, 2>>
=============================================================================
