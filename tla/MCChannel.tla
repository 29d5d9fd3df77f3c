----------------------------- MODULE MCChannel -----------------------------
(* Instances of Channel for TLC. *)
EXTENDS Channel, TLC

CONSTANTS p1, c1, c2, f1, m1, m2

\* One consumer takes values one by one, the other in pairs.
SingleAndPair == (c1 :> 1) @@ (c2 :> 2)
\* The producer and a consumer in a mesh, the rest in another.
TwoMeshes == [w \in Wires |-> IF w \in {p1, c1} THEN m1 ELSE m2]
=============================================================================
