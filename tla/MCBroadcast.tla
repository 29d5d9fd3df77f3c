---------------------------- MODULE MCBroadcast ----------------------------
(* Instances of Broadcast for TLC. *)
EXTENDS Broadcast, TLC

CONSTANTS b1, b2, l1, l2, m1, m2

\* In each of two meshes one that broadcasts and one that listens.
TwoMeshes == (b1 :> m1) @@ (b2 :> m2) @@ (l1 :> m1) @@ (l2 :> m2)

\* Which subscription is used next does not matter.
Alike == Permutations(Subs)
=============================================================================
