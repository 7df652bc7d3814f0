------------------------------ MODULE MCRoot1Broker ------------------------------
(* Small instances of Root1Broker. *)
EXTENDS Root1Broker, TLC

(* The participants that only one thread uses are alike. *)
Symmetry == Permutations(Participants \ SharedIds)
=============================================================================
