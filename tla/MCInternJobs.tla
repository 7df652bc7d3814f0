------------------------------ MODULE MCInternJobs ------------------------------
(* Small instances of InternJobs.  Deadlock is not checked: a manager      *)
(* without jobs, all MaxJobs of them started and dropped, rests.           *)
EXTENDS InternJobs, TLC

Symmetry == Permutations(Callers)
=============================================================================
