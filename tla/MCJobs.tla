------------------------------ MODULE MCJobs ------------------------------
(* Small instances of Jobs. *)
EXTENDS Jobs, TLC

WorkerSymmetry == Permutations(Worker)
=============================================================================
