------------------------------ MODULE TidePool ------------------------------
(***************************************************************************)
(* TidePool (src/shards/core/async.hpp): the pool of threads that runs the *)
(* blocking calls of the wires.  Workers share a lock-free queue, a count  *)
(* of what is scheduled, and a condition variable they sleep on when the   *)
(* queue is empty; a controller thread adds and removes workers.           *)
(*                                                                         *)
(* Threads interleave at every access to what they share.  The condition   *)
(* variable is its wait set, the workers at "waiting": a notification      *)
(* takes workers out of it and is lost when nobody is there.  The mutex    *)
(* only protects the workers from each other: neither schedule() nor the   *)
(* controller takes it, so both act between a worker's predicate and its   *)
(* entry in the wait set ("block").                                        *)
(***************************************************************************)
EXTENDS Naturals, Sequences, FiniteSets

CONSTANTS Calls,        \* the works that are scheduled (struct BlockingCall)
          NoCall,
          NumWorkers,   \* TidePool::NumWorkers, 8 in the code
          MaxWorkers,   \* TidePool::MaxWorkers, 32 in the code
          LowWater      \* TidePool::LowWater, 4 in the code

ASSUME TidePoolAssumption ==
    /\ NoCall \notin Calls /\ IsFiniteSet(Calls)
    /\ NumWorkers \in Nat /\ MaxWorkers \in Nat /\ LowWater \in Nat
    /\ 0 < NumWorkers /\ NumWorkers <= MaxWorkers
    /\ LowWater <= NumWorkers

Slots == 1 .. MaxWorkers

VARIABLES
    counter,    \* _scheduledCounter
    queue,      \* _queue
    size,       \* _workers.size()
    at,         \* where each worker is in its loop; "none" past size
    job,        \* the work a worker has popped, until it is called
    alive,      \* Worker::_running
    running,    \* TidePool::_running
    control,    \* where the controller is
    complete,   \* the calls whose "complete" is set, while they exist
    missed      \* history: a worker told to stop slept through the notification

poolVars == <<counter, queue, size, at, job, alive, running, control, complete, missed>>

WorkerSteps == {"none", "loop", "pop", "call", "count", "check", "lock",
                "block", "waiting", "done"}
ControlSteps == {"spawn", "loop", "notify", "join", "stop", "notifyAll",
                 "joinAll", "done"}

PoolInit ==
    /\ counter = 0 /\ queue = <<>> /\ size = 0
    /\ at = [k \in Slots |-> "none"]
    /\ job = [k \in Slots |-> NoCall]
    /\ alive = [k \in Slots |-> FALSE]
    /\ running = TRUE /\ control = "spawn"
    /\ complete = {} /\ missed = FALSE

Go(k, step) == at' = [at EXCEPT ![k] = step]
MutexFree == \A k \in Slots : at[k] # "block"
Waiting == {k \in Slots : at[k] = "waiting"}
\* A notified worker has to get the mutex and look at its predicate again.
Wake(ks) == at' = [k \in Slots |-> IF k \in ks THEN "lock" ELSE at[k]]
NotifyOne == IF Waiting = {} THEN Wake({}) ELSE \E k \in Waiting : Wake({k})
NotifyAll == Wake(Waiting)

-----------------------------------------------------------------------------
(***************************************************************************)
(* schedule(), whose three statements are apart.                           *)
(***************************************************************************)
CountUp == counter' = counter + 1

Push(c) ==
    /\ queue' = Append(queue, c)
    /\ UNCHANGED <<counter, size, at, job, alive, running, control, complete, missed>>

Notify ==
    /\ NotifyOne
    /\ UNCHANGED <<counter, queue, size, job, alive, running, control, complete, missed>>

-----------------------------------------------------------------------------
(***************************************************************************)
(* A worker.                                                               *)
(***************************************************************************)
LoopHead(k) ==
    /\ at[k] = "loop"
    /\ Go(k, IF alive[k] THEN "pop" ELSE "done")
    /\ UNCHANGED <<counter, queue, size, job, alive, running, control, complete, missed>>

\* Mutant: the work is read and stays in the queue.
Pop_Peeks(k) ==
    /\ at[k] = "pop" /\ queue # <<>>
    /\ job' = [job EXCEPT ![k] = Head(queue)]
    /\ Go(k, "call")
    /\ UNCHANGED <<counter, queue, size, alive, running, control, complete, missed>>

Pop(k) ==
    /\ at[k] = "pop" /\ queue # <<>>
    /\ job' = [job EXCEPT ![k] = Head(queue)]
    /\ queue' = Tail(queue)
    /\ Go(k, "call")
    /\ UNCHANGED <<counter, size, alive, running, control, complete, missed>>

\* Mutant: a pop that fails counts down too.
PopFails_CountsDown(k) ==
    /\ at[k] = "pop" /\ queue = <<>>
    /\ Go(k, "check")
    /\ counter' = counter - 1
    /\ UNCHANGED <<queue, size, job, alive, running, control, complete, missed>>

PopFails(k) ==
    /\ at[k] = "pop" /\ queue = <<>>
    /\ Go(k, "check")
    /\ UNCHANGED <<counter, queue, size, job, alive, running, control, complete, missed>>

\* Mutant: an exception in the function skips "complete = true".
Call_Throws(k) ==
    /\ at[k] = "call"
    /\ job' = [job EXCEPT ![k] = NoCall]
    /\ Go(k, "count")
    /\ UNCHANGED <<counter, queue, size, alive, running, control, complete, missed>>

\* The end of BlockingCall::call, which began when the work was popped.
Call(k) ==
    /\ at[k] = "call"
    /\ complete' = complete \cup {job[k]}
    /\ job' = [job EXCEPT ![k] = NoCall]
    /\ Go(k, "count")
    /\ UNCHANGED <<counter, queue, size, alive, running, control, missed>>

\* Mutant: what is done is not counted down.
CountDown_Not(k) ==
    /\ at[k] = "count"
    /\ Go(k, "check")
    /\ UNCHANGED <<counter, queue, size, job, alive, running, control, complete, missed>>

CountDown(k) ==
    /\ at[k] = "count"
    /\ counter' = counter - 1
    /\ Go(k, "check")
    /\ UNCHANGED <<queue, size, job, alive, running, control, complete, missed>>

CheckEmpty(k) ==
    /\ at[k] = "check"
    /\ Go(k, IF queue = <<>> THEN "lock" ELSE "loop")
    /\ UNCHANGED <<counter, queue, size, job, alive, running, control, complete, missed>>

\* Mutant: wait() is called without a predicate.
Predicate_Absent(k) ==
    /\ at[k] = "lock" /\ MutexFree
    /\ Go(k, "block")
    /\ UNCHANGED <<counter, queue, size, job, alive, running, control, complete, missed>>

\* The predicate of the wait, looked at with the mutex held.
Predicate(k) ==
    /\ at[k] = "lock" /\ MutexFree
    /\ Go(k, IF queue # <<>> \/ ~alive[k] THEN "loop" ELSE "block")
    /\ UNCHANGED <<counter, queue, size, job, alive, running, control, complete, missed>>

\* The mutex is released and the wait set entered, in one step.
Block(k) ==
    /\ at[k] = "block"
    /\ Go(k, "waiting")
    /\ missed' = (missed \/ (~alive[k] /\ control \in {"join", "joinAll"}))
    /\ UNCHANGED <<counter, queue, size, job, alive, running, control, complete>>

\* A condition variable may wake a worker that nobody notified.
Spurious(k) ==
    /\ at[k] = "waiting"
    /\ Go(k, "lock")
    /\ UNCHANGED <<counter, queue, size, job, alive, running, control, complete, missed>>

Worker(k) ==
    \/ LoopHead(k) \/ Pop(k) \/ PopFails(k) \/ Call(k) \/ CountDown(k)
    \/ CheckEmpty(k) \/ Predicate(k) \/ Block(k)

-----------------------------------------------------------------------------
(***************************************************************************)
(* The controller and terminate().                                         *)
(***************************************************************************)
Emplace ==
    /\ size' = size + 1
    /\ at' = [at EXCEPT ![size + 1] = "loop"]
    /\ alive' = [alive EXCEPT ![size + 1] = TRUE]

Spawn ==
    /\ control = "spawn"
    /\ Emplace
    /\ control' = IF size + 1 = NumWorkers THEN "loop" ELSE "spawn"
    /\ UNCHANGED <<counter, queue, job, running, complete, missed>>

Superfluous == counter < LowWater /\ size > NumWorkers

\* Mutant: the pool may shrink below NumWorkers.
Shrink_TooFar ==
    /\ control = "loop" /\ running
    /\ counter < LowWater /\ size >= NumWorkers
    /\ alive' = [alive EXCEPT ![size] = FALSE]
    /\ control' = "notify"
    /\ UNCHANGED <<counter, queue, size, at, job, running, complete, missed>>

Shrink ==
    /\ control = "loop" /\ running
    /\ Superfluous
    /\ alive' = [alive EXCEPT ![size] = FALSE]
    /\ control' = "notify"
    /\ UNCHANGED <<counter, queue, size, at, job, running, complete, missed>>

ShrinkNotify ==
    /\ control = "notify"
    /\ NotifyAll
    /\ control' = "join"
    /\ UNCHANGED <<counter, queue, size, job, alive, running, complete, missed>>

ShrinkJoin ==
    /\ control = "join" /\ at[size] = "done"
    /\ Go(size, "none")
    /\ size' = size - 1
    /\ control' = "loop"
    /\ UNCHANGED <<counter, queue, job, alive, running, complete, missed>>

Grow ==
    /\ control = "loop" /\ running
    /\ ~Superfluous /\ counter > size /\ size < MaxWorkers
    /\ Emplace
    /\ UNCHANGED <<counter, queue, job, running, control, complete, missed>>

LoopEnds ==
    /\ control = "loop" /\ ~running
    /\ control' = "stop"
    /\ UNCHANGED <<counter, queue, size, at, job, alive, running, complete, missed>>

\* The workers are told to stop one after the other, first to last.
StopNext ==
    /\ control = "stop"
    /\ \E k \in 1 .. size :
          /\ alive[k] /\ \A j \in 1 .. k - 1 : ~alive[j]
          /\ alive' = [alive EXCEPT ![k] = FALSE]
          /\ control' = IF k = size THEN "notifyAll" ELSE "stop"
    /\ UNCHANGED <<counter, queue, size, at, job, running, complete, missed>>

\* Mutant: only one worker hears that the pool stops.
StopNotify_One ==
    /\ control = "notifyAll"
    /\ NotifyOne
    /\ control' = "joinAll"
    /\ UNCHANGED <<counter, queue, size, job, alive, running, complete, missed>>

StopNotify ==
    /\ control = "notifyAll"
    /\ NotifyAll
    /\ control' = "joinAll"
    /\ UNCHANGED <<counter, queue, size, job, alive, running, complete, missed>>

JoinAll ==
    /\ control = "joinAll"
    /\ \A k \in 1 .. size : at[k] = "done"
    /\ control' = "done"
    /\ UNCHANGED <<counter, queue, size, at, job, alive, running, complete, missed>>

Controller ==
    \/ Spawn \/ Shrink \/ ShrinkNotify \/ ShrinkJoin \/ Grow
    \/ LoopEnds \/ StopNext \/ StopNotify \/ JoinAll

\* terminate(), from the destructor of the pool; it returns at "done".
Terminate ==
    /\ running
    /\ running' = FALSE
    /\ UNCHANGED <<counter, queue, size, at, job, alive, control, complete, missed>>
=============================================================================
