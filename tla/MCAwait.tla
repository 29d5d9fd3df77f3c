------------------------------ MODULE MCAwait ------------------------------
(* Instances of Await for TLC. *)
EXTENDS Await, TLC

CONSTANTS c1, c2, c3, m1, m2

\* Every coroutine in the same mesh.
OneMesh == [c \in Calls |-> m1]
\* Two coroutines on threads of their own.
TwoMeshes == (c1 :> m1) @@ (c2 :> m2)

\* The coroutines of one mesh are interchangeable.
Interchangeable == Permutations(Calls)
=============================================================================
