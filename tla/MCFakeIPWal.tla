----------------------------- MODULE MCFakeIPWal -----------------------------
(* Bounds for model-checking FakeIPWal. *)
EXTENDS FakeIPWal

Symmetry == Permutations(Domains)

=============================================================================
