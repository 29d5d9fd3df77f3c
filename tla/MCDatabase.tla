------------------------------ MODULE MCDatabase ------------------------------
(***************************************************************************)
(* A few wires on one connection, for TLC.                                 *)
(***************************************************************************)
EXTENDS Database, TLC

CONSTANTS w1, w2, w3, s1
=============================================================================
