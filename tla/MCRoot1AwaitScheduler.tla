-------------------------- MODULE MCRoot1AwaitScheduler --------------------------
(* Small instances of Root1AwaitScheduler. *)
EXTENDS Root1AwaitScheduler, TLC

Symmetry == Permutations(Participants)
=============================================================================
