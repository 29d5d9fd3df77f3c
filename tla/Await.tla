------------------------------- MODULE Await -------------------------------
(***************************************************************************)
(* await and awaitne (src/shards/core/async.hpp): the coroutine of a wire  *)
(* gives a blocking call to the TidePool and suspends, tick after tick,    *)
(* until the call is complete or the wire is stopped; a stopped wire       *)
(* cancels the call and spins, because the call is on its stack.           *)
(*                                                                         *)
(* A call stands for the coroutine that makes it, again and again.  The    *)
(* coroutines of a mesh share its thread: one that is not suspended, the   *)
(* spinning one included, keeps the others of that thread from running.    *)
(***************************************************************************)
EXTENDS TidePool

CONSTANTS Threads,      \* the threads that tick meshes
          ThreadOf      \* the one that runs the coroutine of a call

ASSUME AwaitAssumption == ThreadOf \in [Calls -> Threads]

VARIABLES
    pc,         \* where the coroutine is in await
    onWorker    \* the calls whose SHContext::onWorkerThread is set

vars == <<poolVars, pc, onWorker>>

AwaitSteps == {"idle", "push", "notify", "check", "suspended", "leave", "spin"}

Init ==
    /\ PoolInit
    /\ pc = [c \in Calls |-> "idle"]
    /\ onWorker = {}

Step(c, from, to) == pc[c] = from /\ pc' = [pc EXCEPT ![c] = to]
Idle(t) == \A c \in Calls : ThreadOf[c] = t => pc[c] \in {"idle", "suspended"}
Resumable(c) == Idle(ThreadOf[c])

\* A fresh BlockingCall, the flag, and the first statement of schedule().
Begin(c) ==
    /\ Resumable(c)
    /\ Step(c, "idle", "push")
    /\ onWorker' = onWorker \cup {c}
    /\ CountUp
    /\ UNCHANGED <<queue, size, at, job, alive, running, control, complete, missed>>

SchedulePush(c) ==
    /\ Step(c, "push", "notify")
    /\ Push(c)
    /\ UNCHANGED onWorker

ScheduleNotify(c) ==
    /\ Step(c, "notify", "check")
    /\ Notify
    /\ UNCHANGED onWorker

\* The head of the loop.  The context continues: only its own thread stops it.
Check(c) ==
    /\ Step(c, "check", IF c \in complete THEN "leave" ELSE "suspended")
    /\ UNCHANGED <<poolVars, onWorker>>

Resume(c) ==
    /\ Resumable(c)
    /\ Step(c, "suspended", "check")
    /\ UNCHANGED <<poolVars, onWorker>>

\* stop() resumes the coroutine with a context that does not continue.
StopWire(c) ==
    /\ Resumable(c)
    /\ Step(c, "suspended", "leave")
    /\ UNCHANGED <<poolVars, onWorker>>

\* The BlockingCall of a coroutine that goes on is gone.
DropFrame(c) ==
    /\ complete' = complete \ {c}
    /\ UNCHANGED <<counter, queue, size, at, job, alive, running, control, missed>>

\* Mutant: the coroutine goes on as soon as the call is cancelled.
Leave_NoSpin(c) ==
    /\ Step(c, "leave", "idle")
    /\ onWorker' = onWorker \ {c}
    /\ DropFrame(c)

\* The flag is reset; a call that is not complete is cancelled.
Leave(c) ==
    /\ Step(c, "leave", IF c \in complete THEN "idle" ELSE "spin")
    /\ onWorker' = onWorker \ {c}
    /\ DropFrame(c)

Spin(c) ==
    /\ c \in complete
    /\ Step(c, "spin", "idle")
    /\ DropFrame(c)
    /\ UNCHANGED onWorker

Coroutine(c) ==
    \/ Begin(c) \/ SchedulePush(c) \/ ScheduleNotify(c) \/ Check(c)
    \/ Resume(c) \/ StopWire(c) \/ Leave(c) \/ Spin(c)

Pool ==
    /\ Terminate \/ Controller \/ \E k \in Slots : Worker(k) \/ Spurious(k)
    /\ UNCHANGED <<pc, onWorker>>

Next == Pool \/ \E c \in Calls : Coroutine(c)

Spec == Init /\ [][Next]_vars

(***************************************************************************)
(* The threads run: each worker (a call ends), the controller, and each    *)
(* coroutine once it is in await, its mesh being ticked.  No wire has to   *)
(* be stopped, no await has to begin, the pool need not be terminated.     *)
(***************************************************************************)
Fairness ==
    /\ \A k \in Slots : WF_vars(Worker(k) /\ UNCHANGED <<pc, onWorker>>)
    /\ WF_vars(Controller /\ UNCHANGED <<pc, onWorker>>)
    /\ \A c \in Calls :
          /\ WF_vars(SchedulePush(c) \/ ScheduleNotify(c) \/ Check(c) \/ Leave(c) \/ Spin(c))
          /\ SF_vars(Resume(c))

FairSpec == Spec /\ Fairness

\* In addition, a worker that asks for the mutex gets it in the end, whatever
\* other workers are woken for nothing meanwhile.
FairLockSpec ==
    FairSpec /\ \A k \in Slots : SF_vars(Predicate(k) /\ UNCHANGED <<pc, onWorker>>)

-----------------------------------------------------------------------------
Queued == {queue[i] : i \in DOMAIN queue}
Taken(c) == \E k \in Slots : job[k] = c
Pushing == {c \in Calls : pc[c] = "push"}
Working == {k \in Slots : at[k] \in {"call", "count"}}

\* Every variable has its type.
TypeOK ==
    /\ counter \in Nat
    /\ queue \in Seq(Calls)
    /\ size \in 0 .. MaxWorkers
    /\ at \in [Slots -> WorkerSteps]
    /\ job \in [Slots -> Calls \cup {NoCall}]
    /\ alive \in [Slots -> BOOLEAN]
    /\ running \in BOOLEAN /\ missed \in BOOLEAN
    /\ control \in ControlSteps
    /\ complete \subseteq Calls /\ onWorker \subseteq Calls
    /\ pc \in [Calls -> AwaitSteps]

\* A call that is queued or being called is still on the stack of a coroutine
\* that has not gone on: the spin of await (async.hpp:320) is what keeps a
\* stopped wire from leaving a worker with a dangling BlockingCall.
FrameOutlivesCall ==
    \A c \in Calls : c \in Queued \/ Taken(c) =>
        pc[c] \in {"notify", "check", "suspended", "leave", "spin"}

\* The scheduled counter, which the controller sizes the pool by, is what is
\* about to be pushed, queued, or in the hands of a worker; a size_t that went
\* below zero would make the pool grow to MaxWorkers for ever.
CounterIsExact ==
    counter = Cardinality(Pushing) + Len(queue) + Cardinality(Working)

\* Until it is terminated the pool keeps NumWorkers workers that were not told
\* to stop, however it grows and shrinks, and never has more than MaxWorkers.
PoolKeepsWorkers ==
    control \in {"loop", "notify", "join"} =>
        /\ size \in NumWorkers .. MaxWorkers
        /\ \A k \in 1 .. NumWorkers : alive[k]

\* A stage of each call, for the abstract specification.
StageOf(c) ==
    IF pc[c] = "idle" THEN "free"
    ELSE IF c \in complete THEN "over"
    ELSE IF Taken(c) THEN "taken" ELSE "asked"

Abstract == INSTANCE AsyncCall WITH stage <- [c \in Calls |-> StageOf(c)]

\* await and awaitne run the function once for each await and outlive it,
\* whichever worker takes it and wherever the wire is stopped.
ImplementsAsyncCall == Abstract!CallSpec

\* The pool of workers can lose a call or hang only through a worker that was
\* told to stop and missed the notification, or by being terminated.
Healthy == running /\ ~missed

\* A call that is pushed is called in the end while the pool is healthy.
CallsAreServed ==
    \A c \in Calls : pc[c] = "notify" ~> (c \in complete \/ ~Healthy)

\* The await of a wire that is stopped comes back while the pool is healthy.
StoppedAwaitReturns ==
    \A c \in Calls : pc[c] = "leave" ~> (pc[c] = "idle" \/ ~Healthy)

\* terminate() returns, its controller having joined every worker, unless a
\* worker missed the notification.
TerminateReturns == ~running ~> (control = "done" \/ missed)
=============================================================================
