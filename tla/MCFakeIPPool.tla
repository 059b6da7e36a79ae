---------------------------- MODULE MCFakeIPPool ----------------------------
(* Bounds for model-checking FakeIPPool. *)
EXTENDS FakeIPPool, TLC

Symmetry == Permutations(Domains) \cup Permutations(Flows)

=============================================================================
