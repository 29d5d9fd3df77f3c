----------------------------- MODULE AsyncCall -----------------------------
(***************************************************************************)
(* What await and awaitne promise of a blocking call, whatever the pool    *)
(* does: the function runs once for each await, on somebody else's thread, *)
(* and the coroutine only goes on when it is over.  The call lives in the  *)
(* frame of the coroutine, so going on is what ends its lifetime.          *)
(***************************************************************************)
CONSTANT Calls

VARIABLE stage      \* of each call: "free", "asked", "taken" or "over"

AskCall(c)    == stage[c] = "free"  /\ stage' = [stage EXCEPT ![c] = "asked"]
TakeCall(c)   == stage[c] = "asked" /\ stage' = [stage EXCEPT ![c] = "taken"]
FinishCall(c) == stage[c] = "taken" /\ stage' = [stage EXCEPT ![c] = "over"]
LeaveCall(c)  == stage[c] = "over"  /\ stage' = [stage EXCEPT ![c] = "free"]

CallInit == stage = [c \in Calls |-> "free"]
CallNext == \E c \in Calls : AskCall(c) \/ TakeCall(c) \/ FinishCall(c) \/ LeaveCall(c)
CallSpec == CallInit /\ [][CallNext]_stage
=============================================================================
