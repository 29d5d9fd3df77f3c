------------------------------ MODULE ManyResult ------------------------------
(***************************************************************************)
(* What a parallel shard (TryMany, Expand) promises: it runs one copy of a *)
(* wire for each input, and its answer follows from how the copies ended,  *)
(* by the policy.                                                          *)
(***************************************************************************)
EXTENDS Integers, FiniteSets

CONSTANTS Items

VARIABLES policy,  \* WaitUntil
          asked,   \* the items of the activation in progress
          well,    \* those whose copy ended
          broken,  \* those whose copy failed, was stopped or never ran
          answer   \* of the last activation

vars == <<policy, asked, well, broken, answer>>

Answer(kind) == [kind |-> kind, of |-> 0]
Policies == {"FirstSuccess", "AllSuccess", "SomeSuccess"}

Init == /\ policy \in Policies
        /\ asked = {} /\ well = {} /\ broken = {} /\ answer = Answer("none")

Ask == /\ asked = {} /\ answer' = Answer("none")
       /\ asked' \in (SUBSET Items) \ {{}}
       /\ UNCHANGED <<policy, well, broken>>

EndWell(i) == /\ i \in asked \ (well \cup broken)
              /\ well' = well \cup {i}
              /\ UNCHANGED <<policy, asked, broken, answer>>

Break(i) == /\ i \in asked \ (well \cup broken)
            /\ broken' = broken \cup {i}
            /\ UNCHANGED <<policy, asked, well, answer>>

\* All copies are accounted for, and nothing of the activation is left.
Reply(a) == /\ asked # {} /\ well \cup broken = asked
            /\ answer' = a
            /\ asked' = {} /\ well' = {} /\ broken' = {}
            /\ UNCHANGED policy

Outputs == /\ \/ policy = "AllSuccess" /\ broken = {}
              \/ policy = "SomeSuccess" /\ well # {}
           /\ Reply(Answer("outputs"))
Output(i) == policy = "FirstSuccess" /\ i \in well /\ Reply([kind |-> "output", of |-> i])
Throw == /\ \/ policy = "AllSuccess" /\ broken # {}
            \/ well = {}
         /\ Reply(Answer("error"))
Interrupted == Reply(Answer("empty"))

Next == \/ Ask \/ Outputs \/ Throw \/ Interrupted
        \/ \E i \in Items : EndWell(i) \/ Break(i) \/ Output(i)

Spec == Init /\ [][Next]_vars
=============================================================================
