---------------------------- MODULE MCMonitoring ----------------------------
(* Symmetry for Monitoring: requests and evaluators only differ by name. *)
EXTENDS Monitoring, TLC

ProcessSymmetry == Permutations(Requests) \cup Permutations(Evaluators)
=============================================================================
