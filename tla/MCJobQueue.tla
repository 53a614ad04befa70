----------------------------- MODULE MCJobQueue -----------------------------
(* Small instances of JobQueue for TLC; the numbers are in the .cfg files. *)
EXTENDS JobQueue, TLC

(* Workers run the same program, so they may be permuted; jobs may not,    *)
(* because they are ordered by creation.                                   *)
WorkerSymmetry == Permutations(Worker)
=============================================================================
