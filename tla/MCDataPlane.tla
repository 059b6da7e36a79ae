---------------------------- MODULE MCDataPlane ----------------------------
(* Bounds for model-checking DataPlane: a TCP flow and two UDP flows with
   different ports of one source. *)
EXTENDS DataPlane, TLC

CONSTANTS t1, u1, u2, k1, k2, s1

MCKeyOf == (u1 :> k1) @@ (u2 :> k2)
MCSourceOf == [k \in Keys |-> s1]

=============================================================================
