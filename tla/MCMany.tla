-------------------------------- MODULE MCMany --------------------------------
(***************************************************************************)
(* Three inputs at most, for TLC.                                          *)
(***************************************************************************)
EXTENDS Many
=============================================================================
