---------------------------- MODULE MCHostState ----------------------------
(* Bounds for model-checking HostState. *)
EXTENDS HostState, TLC

Symmetry == Permutations(Procs) \cup Permutations(Services)

=============================================================================
