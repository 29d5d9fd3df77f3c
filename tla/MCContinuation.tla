---------------------------- MODULE MCContinuation ----------------------------
(***************************************************************************)
(* A few wires that switch to each other, for TLC.                         *)
(***************************************************************************)
EXTENDS Continuation, TLC

CONSTANTS w1, w2, w3, w4, f1, f2

\* The wires of the host stop the ones they switch to when they are cleaned up.
RootsOwn == [w \in Wires |-> IF w \in Roots THEN Wires \ Roots ELSE {}]

\* The wires the host schedules are alike, and so are the others.
Alike == Permutations(Roots) \cup Permutations(Wires \ Roots) \cup Permutations(Flows)
=============================================================================
