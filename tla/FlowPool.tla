------------------------------ MODULE FlowPool ------------------------------
(***************************************************************************)
(* The pool of flows of an SHMesh (src/shards/core/runtime.hpp): a stable  *)
(* vector _flowPool and the iterator _flowPoolIt that SHMesh::tick walks   *)
(* over it.  A pool is a record: "flows" is the sequence of the wires the  *)
(* flows run (a flow is named by its wire: without SwitchTo a flow never   *)
(* changes wire), "it" the position of the iterator, one past the last     *)
(* position standing for _flowPool.end().                                  *)
(***************************************************************************)
EXTENDS Naturals, Sequences

PoolType(W) == [flows : Seq(W), it : Nat \ {0}]

Holds(p) == {p.flows[i] : i \in DOMAIN p.flows}
End(p) == Len(p.flows) + 1
Distinct(p) == \A i, j \in DOMAIN p.flows : p.flows[i] = p.flows[j] => i = j
\* The iterator is at the flow of wire w.
At(p, w) == p.it \in DOMAIN p.flows /\ p.flows[p.it] = w

\* A stable vector's end() stays end() when an element is appended.
EmplaceBack(p, w) ==
    [flows |-> Append(p.flows, w),
     it    |-> IF p.it = End(p) THEN p.it + 1 ELSE p.it]

EraseAt(s, k) ==
    [i \in 1 .. (Len(s) - 1) |-> IF i < k THEN s[i] ELSE s[i + 1]]

IndexOf(p, w) == CHOOSE i \in DOMAIN p.flows : p.flows[i] = w

\* Mutant: a removal leaves the iterator where it is.
WireCleanedUp_NoClamp(p, w) ==
    IF w \notin Holds(p) THEN p
    ELSE [flows |-> EraseAt(p.flows, IndexOf(p, w)), it |-> p.it]

\* Mutant: the iterator follows the flow it is at, even when that one goes.
WireCleanedUp_StepBack(p, w) ==
    IF w \notin Holds(p) THEN p
    ELSE LET k == IndexOf(p, w)
         IN  [flows |-> EraseAt(p.flows, k),
              it    |-> IF k <= p.it /\ p.it > 1 THEN p.it - 1 ELSE p.it]

\* SHMesh::wireCleanedUp: the index of the iterator is taken before the flow
\* is erased; an iterator at or behind the erased flow is set to that index
\* of the shortened pool, to end() when there is none.
WireCleanedUp(p, w) ==
    IF w \notin Holds(p)
    THEN p
    ELSE LET k    == IndexOf(p, w)
             rest == EraseAt(p.flows, k)
         IN  [flows |-> rest,
              it    |-> IF k <= p.it /\ p.it > Len(rest)
                        THEN Len(rest) + 1
                        ELSE p.it]

\* The flow a schedule creates: it stays when prepare succeeds, and the
\* cleanup of the failed warmup takes it out again.
Scheduled(p, w, prepared) ==
    IF prepared THEN EmplaceBack(p, w) ELSE WireCleanedUp(EmplaceBack(p, w), w)
=============================================================================
