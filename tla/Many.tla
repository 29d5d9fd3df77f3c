--------------------------------- MODULE Many ---------------------------------
(***************************************************************************)
(* ParallelBase, the shard under TryMany and Expand: each activation takes *)
(* a batch of copies from the pool of doppelgangers, runs one task for     *)
(* each input on the shared executor, where a task drives a mesh of its    *)
(* own until its copy is over, and waits for all of them.                  *)
(*                                                                         *)
(* The mesh thread of the shard and the workers of the executor interleave *)
(* freely.  A copy may hold a parallel shard itself, whose tasks need a    *)
(* worker of the same executor.                                            *)
(***************************************************************************)
EXTENDS Integers, Sequences, FiniteSets, SequencesExt, FiniteSetsExt

CONSTANTS Items,      \* the indices of the inputs: 1..N
          Nests,      \* those whose copy runs a parallel shard of its own
          Workers,    \* the threads of the executor
          MaxCopies   \* bound: the copies the pool may hold

ASSUME ManyAssumption ==
    /\ IsFiniteSet(Items) /\ Items = 1..Cardinality(Items)
    /\ Nests \subseteq Items
    /\ Workers \in Nat \ {0} /\ MaxCopies \in Nat

VARIABLES
    policy,      \* _policy
    caller,      \* where activate is
    task,        \* where the task of an item is
    inner,       \* the task of the parallel shard inside a copy
    ended,       \* the items whose copy's wire has ended
    successes,   \* _successes, as the set of items
    anySuccess,  \* the local of activate
    batch,       \* the copy of an item, 0 for none
    made,        \* WireDoppelgangerPool::_pool, the copies ever made
    avail,       \* WireDoppelgangerPool::_avail
    composed,    \* the copies that have a composed wire
    kept,        \* history: the copies a task ended without releasing
    answer       \* the result of the last activation

taskVars == <<task, inner, ended, successes, anySuccess>>
poolVars == <<batch, made, avail, composed, kept>>
vars == <<policy, caller, answer, taskVars, poolVars>>

Policies == {"FirstSuccess", "AllSuccess", "SomeSuccess"}
Answer(kind) == [kind |-> kind, of |-> 0]
First == policy = "FirstSuccess"
Asked == {i \in Items : task[i] # "none"}
Over(i) == task[i] \in {"early", "done"}

Init ==
    /\ policy \in Policies /\ caller = "idle" /\ answer = Answer("none")
    /\ task = [i \in Items |-> "none"] /\ inner = [i \in Items |-> "none"]
    /\ ended = {} /\ successes = {} /\ anySuccess = FALSE
    /\ batch = [i \in Items |-> 0]
    /\ made = {} /\ avail = {} /\ composed = {} /\ kept = {}

-----------------------------------------------------------------------------
(***************************************************************************)
(* The mesh thread.                                                        *)
(***************************************************************************)
\* Mutant: what is taken stays available.
AcquireBatch_Peeks(len) ==
    LET old == SetToSeq(avail)
        b == [i \in Items |-> IF i > len THEN 0
                              ELSE IF i <= Len(old) THEN old[i]
                              ELSE Cardinality(made) + i - Len(old)]
    IN  /\ batch' = b
        /\ made' = made \cup {b[i] : i \in 1..len}
        /\ UNCHANGED avail

\* WireDoppelgangerPool::acquireBatch: the copies that are available first, in
\* an order that does not matter, then new ones.
AcquireBatch(len) ==
    LET old == SetToSeq(avail)
        size == Cardinality(made)
        b == [i \in Items |-> IF i > len THEN 0
                              ELSE IF i <= Len(old) THEN old[i]
                              ELSE size + i - Len(old)]
    IN  /\ batch' = b
        /\ avail' = avail \ {b[i] : i \in 1..len}
        /\ made' = made \cup {b[i] : i \in 1..len}

Activate(len) ==
    /\ caller = "idle"
    /\ Cardinality(made) + len - Cardinality(avail) <= MaxCopies
    /\ AcquireBatch(len)
    /\ caller' = "wait" /\ answer' = Answer("none")
    /\ task' = [i \in Items |-> IF i <= len THEN "queued" ELSE "none"]
    /\ ended' = {} /\ successes' = {} /\ anySuccess' = FALSE
    /\ UNCHANGED <<policy, inner, composed, kept>>

\* Mutant: only a success ends the wait.
Poll_ForSuccess ==
    /\ caller = "wait" /\ anySuccess
    /\ caller' = "get"
    /\ UNCHANGED <<policy, answer, taskVars, poolVars>>

\* The loop of activate: it looks at the tasks each time it is resumed, and
\* then blocks its thread until all of them are over.
Poll ==
    /\ caller = "wait"
    /\ (First /\ anySuccess) \/ \A i \in Asked : Over(i)
    /\ caller' = "get"
    /\ UNCHANGED <<policy, answer, taskVars, poolVars>>

\* Mutant: the tasks are not told.
Interrupt_Quiet ==
    /\ caller = "wait"
    /\ caller' = "interrupted"
    /\ UNCHANGED <<policy, answer, taskVars, poolVars>>

\* The wire of the shard is stopped: the tasks are told and waited for.
Interrupt ==
    /\ caller = "wait"
    /\ caller' = "interrupted"
    /\ anySuccess' = TRUE
    /\ UNCHANGED <<policy, answer, task, inner, ended, successes, poolVars>>

\* Mutant: AllSuccess is content with some.
Result_Lenient ==
    IF successes = {} THEN Answer("error")
    ELSE IF First THEN [kind |-> "output", of |-> Min(successes)]
    ELSE Answer("outputs")

\* future.get() returns: the policy is applied.
Result ==
    IF successes = {} THEN Answer("error")
    ELSE IF First THEN [kind |-> "output", of |-> Min(successes)]
    ELSE IF policy = "SomeSuccess" \/ successes = Asked THEN Answer("outputs")
    ELSE Answer("error")

Return ==
    /\ caller \in {"get", "interrupted"} /\ \A i \in Asked : Over(i)
    /\ answer' = IF caller = "interrupted" THEN Answer("empty") ELSE Result
    /\ caller' = "idle"
    /\ task' = [i \in Items |-> "none"]
    /\ batch' = [i \in Items |-> 0]
    /\ successes' = {} /\ ended' = {} /\ anySuccess' = FALSE
    /\ UNCHANGED <<policy, inner, made, avail, composed, kept>>

-----------------------------------------------------------------------------
(***************************************************************************)
(* The workers.                                                            *)
(***************************************************************************)
OnWorker(i) == task[i] \in {"run", "won", "lost", "raise", "stop"}
FreeWorker == Cardinality({i \in Items : OnWorker(i)})
                + Cardinality({i \in Items : inner[i] = "run"}) < Workers

\* Mutant: every policy stops at the first success.
GiveUp_AnyPolicy(i) ==
    /\ task[i] = "queued" /\ FreeWorker
    /\ anySuccess \/ batch[i] \notin composed
    /\ task' = [task EXCEPT ![i] = "early"]
    /\ kept' = kept \cup {batch[i]}
    /\ UNCHANGED <<policy, caller, answer, inner, ended, successes, anySuccess,
                   batch, made, avail, composed>>

\* The task starts: it gives up if another one succeeded, or acquireFromBatch
\* may throw out of the compose of a new copy; either way the copy is kept.
GiveUp(i) ==
    /\ task[i] = "queued" /\ FreeWorker
    /\ (First /\ anySuccess) \/ batch[i] \notin composed
    /\ task' = [task EXCEPT ![i] = "early"]
    /\ kept' = kept \cup {batch[i]}
    /\ UNCHANGED <<policy, caller, answer, inner, ended, successes, anySuccess,
                   batch, made, avail, composed>>

Begin(i) ==
    /\ task[i] = "queued" /\ FreeWorker
    /\ ~(First /\ anySuccess)
    /\ task' = [task EXCEPT ![i] = "run"]
    /\ composed' = composed \cup {batch[i]}
    /\ UNCHANGED <<policy, caller, answer, inner, ended, successes, anySuccess,
                   batch, made, avail, kept>>

\* The copy activates a parallel shard of its own, with one task.
StartInner(i) ==
    /\ i \in Nests /\ task[i] = "run" /\ inner[i] = "none"
    /\ inner' = [inner EXCEPT ![i] = "queued"]
    /\ UNCHANGED <<policy, caller, answer, task, ended, successes, anySuccess, poolVars>>

InnerBegin(i) ==
    /\ inner[i] = "queued" /\ FreeWorker
    /\ inner' = [inner EXCEPT ![i] = "run"]
    /\ UNCHANGED <<policy, caller, answer, task, ended, successes, anySuccess, poolVars>>

InnerEnd(i) ==
    /\ inner[i] = "run"
    /\ inner' = [inner EXCEPT ![i] = "none"]
    /\ UNCHANGED <<policy, caller, answer, task, ended, successes, anySuccess, poolVars>>

\* The loop over the mesh of the task is left.
LeaveLoop(i, outcome) ==
    /\ task' = [task EXCEPT ![i] = outcome]
    /\ UNCHANGED <<policy, caller, answer, inner, successes, anySuccess, poolVars>>

\* A tick of the mesh in which the copy does not end, and then the look at the
\* success of another one.
TickOn(i) ==
    /\ task[i] = "run" /\ First /\ anySuccess
    /\ LeaveLoop(i, "lost")
    /\ UNCHANGED ended

\* The tick in which it ends, that look, and the mesh is empty.
TickEnds(i) ==
    /\ task[i] = "run" /\ inner[i] = "none"
    /\ ended' = ended \cup {i}
    /\ LeaveLoop(i, IF First /\ anySuccess THEN "lost" ELSE "won")

\* Mutant: a failed tick counts as a success.
TickFails_Unnoticed(i) ==
    /\ task[i] = "run" /\ inner[i] = "none"
    /\ LeaveLoop(i, "won")
    /\ UNCHANGED ended

TickFails(i) ==
    /\ task[i] = "run" /\ inner[i] = "none"
    /\ LeaveLoop(i, "lost")
    /\ UNCHANGED ended

\* _successes[idx] = success; several tasks of a FirstSuccess may get here well.
Write(i) ==
    /\ task[i] \in {"won", "lost"}
    /\ task' = [task EXCEPT ![i] = IF @ = "won" THEN "raise" ELSE "stop"]
    /\ successes' = IF task[i] = "won" THEN successes \cup {i} ELSE successes
    /\ UNCHANGED <<policy, caller, answer, inner, ended, anySuccess, poolVars>>

Raise(i) ==
    /\ task[i] = "raise"
    /\ task' = [task EXCEPT ![i] = "stop"]
    /\ anySuccess' = TRUE
    /\ UNCHANGED <<policy, caller, answer, inner, ended, successes, poolVars>>

\* stop() of the copy, which waits for the tasks of a shard inside it, then
\* SHMesh::terminate and the release of the copy.
Release(i) ==
    /\ task[i] = "stop" /\ inner[i] = "none"
    /\ task' = [task EXCEPT ![i] = "done"]
    /\ avail' = avail \cup {batch[i]}
    /\ UNCHANGED <<policy, caller, answer, inner, ended, successes, anySuccess,
                   batch, made, composed, kept>>

Next ==
    \/ \E len \in Items : Activate(len)
    \/ Poll \/ Interrupt \/ Return
    \/ \E i \in Items :
        \/ GiveUp(i) \/ Begin(i) \/ StartInner(i) \/ InnerBegin(i) \/ InnerEnd(i)
        \/ TickOn(i) \/ TickEnds(i) \/ TickFails(i) \/ Write(i) \/ Raise(i) \/ Release(i)

Spec == Init /\ [][Next]_vars

\* The mesh of the shard goes on ticking, the executor begins what is queued as
\* long as workers get free, and a task goes on ticking its mesh; that a copy
\* ends, or the task of a shard inside it, is not assumed.
Fairness ==
    /\ WF_vars(Poll) /\ WF_vars(Return)
    /\ \A i \in Items :
        /\ SF_vars(GiveUp(i) \/ Begin(i)) /\ SF_vars(InnerBegin(i))
        /\ WF_vars(TickOn(i)) /\ WF_vars(Write(i)) /\ WF_vars(Raise(i)) /\ WF_vars(Release(i))

FairSpec == Spec /\ Fairness
-----------------------------------------------------------------------------
\* Types.
TypeOK ==
    /\ policy \in Policies
    /\ caller \in {"idle", "wait", "get", "interrupted"}
    /\ task \in [Items -> {"none", "queued", "run", "won", "lost", "raise", "stop",
                            "early", "done"}]
    /\ inner \in [Items -> {"none", "queued", "run"}]
    /\ successes \subseteq ended /\ ended \subseteq Asked /\ anySuccess \in BOOLEAN
    /\ batch \in [Items -> 0..MaxCopies]
    /\ made \subseteq 1..MaxCopies /\ avail \subseteq made
    /\ composed \subseteq made /\ kept \subseteq made

Copies(held) == {batch[i] : i \in held}

\* A copy is available, kept for ever, or in the hands of one task: no two
\* tasks run the same copy on two workers.
CopiesAreApart ==
    LET hands == {i \in Items : task[i] = "queued" \/ OnWorker(i)}
    IN  /\ made = avail \cup kept \cup Copies(hands)
        /\ avail \cap kept = {} /\ Copies(hands) \cap (avail \cup kept) = {}
        /\ \A i, j \in hands : batch[i] = batch[j] => i = j

\* With AllSuccess and SomeSuccess a copy is only kept when its compose failed.
OnlyFirstKeeps == kept # {} => First \/ kept \cap composed = {}

\* The pool of copies through every policy, failure and interrupt.
CopiesAreAccountedFor == CopiesAreApart /\ OnlyFirstKeeps

\* The shard answers by its policy and by how its copies ended.
Abstract == INSTANCE ManyResult WITH
    asked <- Asked,
    well <- successes,
    broken <- {i \in Asked : \/ task[i] = "early"
                             \/ task[i] \in {"stop", "done"} /\ i \notin successes}
Implements == Abstract!Spec

\* Every worker is held by a copy that waits for the task of a shard inside it,
\* which is queued for a worker: none of them goes on, whatever the copies do.
Clogged == Cardinality({i \in Items : OnWorker(i) /\ inner[i] = "queued"}) = Workers

InnersEnd == \A i \in Items : []<>(inner[i] # "run")

\* A FirstSuccess that is interrupted returns although no copy ends by itself,
\* if what runs inside the copies does.
InterruptedReturns ==
    InnersEnd => (First /\ caller = "interrupted" ~> caller = "idle" \/ Clogged)

\* If no copy runs for ever, but for one that waits for a worker, the shard
\* returns, and its thread is not blocked for ever.
ActivationReturns ==
    InnersEnd /\ (\A i \in Items : []<>(task[i] # "run") \/ <>[](inner[i] = "queued"))
        => (caller # "idle" ~> caller = "idle" \/ Clogged)

\* The two together: what makes the shard give its thread back, and the one way
\* in which it does not.
Returns == InterruptedReturns /\ ActivationReturns
=============================================================================
