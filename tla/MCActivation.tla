----------------------------- MODULE MCActivation -----------------------------
(***************************************************************************)
(* One wire with one or two Awaits, for TLC: one in the predicate of a     *)
(* Repeat, one in a Maybe.                                                 *)
(***************************************************************************)
EXTENDS Activation, TLC

CONSTANTS a1, a2

Places == [a \in Awaits |-> IF a = a1 THEN <<"wire", "until">> ELSE <<"wire", "body">>]
=============================================================================
