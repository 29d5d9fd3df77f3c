------------------------------- MODULE MCMesh -------------------------------
(***************************************************************************)
(* Small meshes for TLC.                                                   *)
(***************************************************************************)
EXTENDS Mesh, TLC

CONSTANTS a, b, c

\* No wire has a WhenDone shard.
NoHeirs == [w \in Wires |-> NoWire]
\* Wire a has one, that schedules c.
HeirOfA == [w \in Wires |-> IF w = a THEN c ELSE NoWire]

\* The behaviours in which no wire sleeps, is paused or fails: what is left is
\* wires that come and go, heirs and interrupts.
Plain == /\ paused' = {} /\ hasMesh' = warmedUp'
         /\ \A w \in Wires : state'[w] # "Failed"
PlainSpec == Init /\ [][Next /\ Plain]_vars /\ Fairness
=============================================================================
