# Formal models of the Shards runtime

Shards is a language and a C++ runtime for programs made of *shards* (the
operations) arranged in *wires* (sequences of shards, each a coroutine), which a
*mesh* ticks cooperatively. This directory holds TLA+ models of the parts of the
runtime where the order of things matters, the TLC configurations that check
them on small instances, and TLAPS proofs for every value of their parameters.

Paths below are relative to `src/shards/` unless they begin with `tla/`.

| Part | Module | Checked by | Proved in |
| --- | --- | --- | --- |
| the scheduler and the life of a wire | `FlowPool`, `Mesh` | `MeshSafety`, `MeshLive`, `MeshSkip` | `MeshProofs` |
| the control flow inside one wire | `Activation` | `ActivationSafety`, `ActivationAwait` | `ActivationProofs` |
| wires in the place of one another | `Continuation` | `ContinuationSafety` | `ContinuationProofs` |
| parallel shards and their copies | `Many` (implements `ManyResult`) | `ManySafety` | `ManyProofs` |
| the thread pool and `await` | `TidePool`, `Await` (implements `AsyncCall`) | `AwaitSafety`, `AwaitLive` | `AwaitProofs` |
| transactions of a database | `Database` | `DatabaseSafety` | `DatabaseProofs` |
| produce/consume channels | `Channel` | `ChannelSafety` | `ChannelProofs` |
| broadcast channels | `Broadcast` | `BroadcastSafety` | `BroadcastProofs` |

The `MC*` modules only give names to the constants of the configurations. To run
one: `tlc -config MeshSafety.cfg MCMesh`; to check a proof: `tlapm MeshProofs.tla`.

## 1. Inventory

### Components, their state and operations

**Mesh scheduler and wire life cycle** (`core/runtime.hpp`, `core/runtime.cpp`,
`core/foundation.hpp`). A wire has a state (`Stopped`, `Prepared`, `Starting`,
`Iterating`, `IterationEnded`, `Failed`, `Ended`), a coroutine, `warmedUp` and a
weak pointer to its mesh. A mesh has the set `scheduled`, the flow pool
`_flowPool` (a stable vector, one flow per scheduled wire) and the iterator
`_flowPoolIt` of the tick under way. Operations: `schedule` (compose, flow,
`prepare`, `start`), `tick`, `remove`, `clear`, `terminate`; `suspend`, `run`,
`stop` and `cleanup` of a wire. Hard: everything a wire does to others (stop,
schedule, restart, or clean them up, which runs their shards' own cleanup) happens
inside the loop over the pool; the pool and the iterator change under that loop.
Correct when: the five records of whether a wire lives agree, one coroutine runs at
a time, no flow runs twice in a tick or is left out, ended wires are out of the mesh,
`clear` leaves nothing.

**The runner of shards and flow shards** (`shardsActivation` and `run` in
`core/runtime.cpp`, `modules/core/flow.hpp`, `core.hpp`, the sub-wires of `wires.hpp`).
State: `SHContext::state` (`Continue`, `Return`, `Rebase`, `Restart`, `Stop`, `Error`),
`onLastResume`, and the C++ stack of sequences being run. Operations: run a sequence and
look at the state after each shard; `If`, `When`, `Cond`, `Match`, `Sub`, `Maybe`,
`ForEach`, `ForRange`, `Repeat`, `Do` and `Await` run sequences of their own. Hard: each of
them looks at the returned state in its own way, some not at all; a stop may come at any
suspension and must end the wire through whatever surrounds it; `Await` keeps a second
context. Correct when: a signal gets to the innermost sequence that is for it, and a
stopped wire runs no further shard.

**Wire control shards** (`modules/core/wires.cpp`, `wires.hpp`): `Stop`, `Suspend`,
`Resume`, `Detach`, `WhenDone`, `Spawn` act on wires with flows of their own; `Do`,
`Step`, `SwitchTo`, `Wait`, `Peek`, `Recur` run a wire inside, or in place of,
another. Hard: a continuation changes the wire of a flow (`flow->wire`) and relies on
a `resumer` pointer; any wire of a chain may be stopped, fail, or be switched to again;
`Step` owns a coroutine inside a coroutine. Correct when: a flow of the pool drives a wire
that lives, and a resumer waits for the wire it is to get control from.

**Parallel shards and wire copies** (`wires.cpp` 1369-1820,
`core/wire_doppelganger_pool.hpp`): `DoMany`, `TryMany`, `StepMany`, `Spawn` and
`WhenDone` run copies of a wire taken from a pool; `TryMany` runs each copy on a mesh
of its own on a worker thread of one executor. State: the copies and the free ones, the
success of each copy, `anySuccess`. Hard: the policies FirstSuccess, SomeSuccess and
AllSuccess with partial failures, interruption, copies that never go back, and parallel
shards inside of copies that need a worker of the executor they occupy. Correct when: no
copy runs twice at a time, the answer follows from the policy and from how the copies
ended, and the shard gives its thread back.

**Database** (`modules/sqlite/sqlite.cpp`). State: a connection with the mutex of a
statement and the mutex of a transaction, shared by the wires of a mesh. Operations:
`DB.Query`, `DB.RawQuery`, `DB.Transaction`, each an awaited call or several. Hard: a
transaction suspends between BEGIN and COMMIT, so that other wires run, wait for it on
workers, stop it or are stopped; a COMMIT may fail. Correct when: no statement runs in the
transaction of another wire, the lock covers the transaction, and transactions end.

**TidePool and await** (`core/async.hpp`). State: workers, a lock-free queue, the
counter of what is scheduled, a condition variable; of a call, `complete`.
Operations: `schedule`, the loop of a worker, the controller that grows and shrinks
the pool, `terminate`, `await` and `awaitne`. Hard: real threads; notifications that
do not take the mutex; a call lives on the stack of a coroutine that can be stopped.
Correct when: every call runs once and its frame outlives it, no call is stuck in the
queue, the pool keeps to its bounds and can be joined.

**Channels** (`modules/channels/channels.cpp`, `.hpp`). State: a lock-free queue,
`closed`; of a broadcast channel, a list of subscriptions under a mutex, each with a
queue and a `closed` of its own. Operations: `Produce`, `Consume`, `Complete`,
`Flush`; `Broadcast`, `Listen`; the registry `get`. Hard: wires of meshes on
different threads; a consumer suspends with a half full buffer; subscriptions erased by
whoever broadcasts next. Correct when: no value is lost or delivered twice, order is
kept, a completed channel is drained, listeners agree on the order, and a queue is
erased only when its listener is through with it.

**Others**, listed with the reason in `PROJECT.json` and not modelled: coroutines
(three implementations of a stack switch), branches (`core/brancher.hpp`), events
(`modules/channels/events.cpp`), variables and references, compose and types, values, networking and
HTTP, the jobs of the physics engine, the language
front-end, graphics and bindings.

### How they interact

The host program owns meshes and ticks each on a thread. A mesh calls
`shards::tick` on the wire of each flow, which resumes its coroutine; the coroutine
runs shards until one suspends. Shards call back into the mesh (`schedule`, `remove`,
`stop`). `cleanup` of a wire calls the `cleanup` of its shards, one of which
(`WhenDone`) schedules again, and `SHMesh::wireCleanedUp`. Coroutines share
channels with coroutines of other threads and give blocking calls to the TidePool,
whose workers write the result on the coroutine's stack. The signal handler restores
the default action, counts the signal in `SigIntTerm`, which the mesh looks at when a
tick begins, and raises the signal again, which ends the process.

The complete list of what is hard to test is `hazards` in `PROJECT.json`, each at its
line, with the properties that cover it or the reason why none does.

## 2. The models

### FlowPool and Mesh

`FlowPool` is the pool with its iterator as a value: appending a flow (`end()` of a
stable vector stays `end()`) and `wireCleanedUp`, which erases a flow and sets the
iterator by index. A flow is named by its wire, which is exact as long as no
`SwitchTo` changes the wire of a flow.

`Mesh` has one thread, so an action is what happens between two points where control
can go elsewhere. `phase` is that point: `idle` (host), `loop` (the head of the
`while` of `SHMesh::tick`), `wire` (inside the shards of the wire `cur`), `detach`
(between the stop and the schedule of a Detach), `throw`, `ticked` (the coroutine has
returned), `clear` (inside `SHMesh::clear`), `exit` (the process is over).

| Code | Action |
| --- | --- |
| `SHMesh::schedule`, `prepare`, `start` | `Schedule`, `ScheduleFails`, `HostComposeFails` |
| `SHWire::cleanup`, tail of `run` | `Leave` (with the schedule of a `WhenDone` copy, which may fail) |
| `stop` | `Stop` |
| `SHMesh::tick` | `TickBegin`, `TickInterrupted`, `Skip`, `Visit`, `StopEnded`, `Advance`, `TickEnd` |
| `SHMesh::remove`, `clear`, `terminate` | `HostRemove`, `StartClear`, `ClearStop`, `ClearEnd`, `HostTerminate` |
| a shard suspends, returns, throws | `Yield`, `Finish`, `Fail` |
| `Stop`, `Suspend`, `Resume`, `Detach`, `WhenDone` | `StopWire`, `SuspendWire`, `ResumeWire`, `Detach` and `Detached`, `ArmWhenDone` |
| the signal handler, the signal it raises again | `Interrupt`, `Raised` |

What wires do is not fixed: any wire may do any of this at any time, so the checks hold
for every program of these shards. `turn`, `gone` and `broke` are histories the
properties speak of and no action reads. `WhenDone` is a constant: the copy that the
WhenDone of a wire schedules. A real WhenDone takes a fresh copy from a pool; a model
copy that is still running stands for a pool from which nothing new comes.

### Activation

One wire, on one thread and, inside an `Await`, on one worker while that thread waits. The
program is any program: each step of `next` picks the next shard, so the behaviours are
those of every nesting up to `MaxDepth`; only an Await has a place, since it keeps its
worker's context from one activation to the next. `stack` holds what kind of sequence is
being run at each level, `phase` what the innermost one does:

| Code | Action |
| --- | --- |
| a shard returns, with whatever state it set (`And`, `Or`, `Return`, `Restart`, `Stop`, `Fail`, a throw) | `Shard` |
| `suspend`, and the resume of the mesh | `Suspend`, `Resume` |
| `stop` of a wire that is suspended, between iterations, or in an await | `StopWire` |
| `shardsActivation` after a shard | `Aftermath` (`Continue`, `Rebase`), `Returned` (the others) |
| a flow shard runs a sequence, and what it makes of its return | `Enter`; `EndPredicate`, `EndAction`, `EndMaybe`, `EndEach`, `EndUntil`, `EndTurn`, `EndDo`, `EndLoop` |
| `Await::activate` | `EnterAwait`, `EndCall` (on the worker), `Collect` |
| the loop of `run` | `EndWire` |

`Caught` is `shardsActivation` with `HANDLES_RETURN`. `revived` is a history: an Await
copied a state over the Stop of its wire.

### Continuation

A flow is a value of its own here, unlike in `Mesh`, because `SwitchTo` changes the wire it
`drives`. An action is the run of one coroutine from a resume to a suspension, cut where a
shard acts on another wire and where the end of a wire stops others.

| Code | Action |
| --- | --- |
| `SHMesh::schedule`, `SHMesh::tick` | `Schedule`, `Resume` |
| `SwitchTo::activate` up to its suspension | `SwitchTo`, and after the stop of a Restart `SwitchGoesOn`; `Enter` if the wire starts or lives, `FailsToStart` if its warmup fails |
| `SwitchTo::activate` after its suspension | `Switched`, part of `Resume` and of the end of the wire |
| the tail of `run`, `SHWire::cleanup` | `Finish`, `Fail`, each a `BeginEnd` (the flow goes to the resumer) and a `CleanedUp` (the flow leaves the pool) |
| `SwitchTo::cleanup` with `StopOnCleanup` | `StopOnCleanup`, between the two |
| `stop` | `Stop` |
| `Wait`, `Stop`, a `Maybe` around them | `Wait`, `WaitThrows`, `StopWire`, `Recover` |

A `SwitchTo` may name any wire: one that is off, one further back in the chain (`main`, `d1`,
`d2`, `d1` in `tests/continuations.shs`), one of another flow. Any wire may be stopped,
the middle of a chain included, whose `SwitchTo` is then resumed and resets the resumer of
whatever it is about. `Owns` says which wires the StopOnCleanup of a wire names. A `Wait` looks
at its timeout first when it is resumed (`wires.cpp:321`), so both outcomes are there.
`undefined` ends a behaviour where the program writes through a flow that left the pool or
stops a wire that is on the call stack. `mixed` is a history: the flows that were given a
wire of another flow, and that wire's own.

### Many, ManyResult

The mesh thread (`Activate`, `Poll`, `Interrupt`, `Return`) and the workers, where the task of
an item goes from `queued` through `run` to `done`, or gives up (`early`). The mesh of a task is
ticked by nobody else, so a tick with the look at `anySuccess` behind it is one step: the copy
ends (`TickEnds`), fails (`TickFails`) or goes on (`TickOn`). The task is then `won` or
`lost`; it writes its `_successes` (`Write`), one that won raises `anySuccess` (`Raise`), and
it stops and gives back its copy (`Release`). These are steps of their own, so several tasks
of a FirstSuccess may succeed. An item in `Nests` may run a parallel shard of its own with
one task (`inner`), which needs a worker of the same executor; a copy that is stopped waits for
it (`future.get()`), however long it runs. Any
queued task may be the next one; the executor hands out ranges of indices, which is one
of these orders. `kept` is a history of the copies nobody gives back.

`ManyResult` is the promise: each copy ends well or not, and the answer follows by the
policy. `Implements` maps `well` to `successes` and `broken` to the tasks that gave up, or have
written without a success.

### Database

One connection, one mesh thread, `Workers` workers. `at` is where the activation of a wire is,
`call` where the call its await waits for is; `spin` is the wire whose await spins, which
occupies the thread of the mesh. A statement is atomic, since `Connection::mutex` is held for
it. `Strays` are wires composed inside of a transaction (`_withinTransaction`) that run
on their own as well: their queries take no lock. `left` and `joined` are histories: a COMMIT
failed; a statement ran in the transaction of another wire. Where await stands on the
TidePool, `Take` assumes of it what `Await` shows: a call is taken in the end, once.

### TidePool, Await, AsyncCall

Threads interleave at every access to what they share. The condition variable is its
wait set: a worker has evaluated its predicate at `block` and is not in the wait set
until `waiting`; a notification in between is lost. `schedule()` is three steps
(count, push, notify). The controller is at one of the steps of
`controllerWorker()`. `missed` is a history: a worker that was told to stop entered
the wait after the notification.

`Await` adds the coroutines: `pc` is where each is in `await`. One call stands for one
coroutine that awaits again and again; coroutines of one mesh share a thread, which the
spin of a stopped one occupies. `onWorker` is the flag of the context. `AsyncCall` is
what the user is promised, a call that is asked, taken, finished and left, once for each
await; `Await` implements it with the mapping `StageOf`.

### Channel and Broadcast

A wire of a mesh gives way only at a suspension or when its activation is over
(`Turn`); wires of different threads interleave at every access to the queue and to
`closed`. `Channel` has the loop of `Consume` step by step (pop, look at `closed`,
suspend), the buffer, stop and start of the wire, `Flush` one pop at a time.
`Broadcast` has `try_lock`, the walk over the subscriptions one by one with the erase
of the closed ones, `Listen` with its two-step cleanup, and composition, which
subscribes. `ThreadOf` says which thread ticks which wire, so one model covers a
single mesh and many. `Recomposed` are the listeners composed at every start; the
others are those that `Detach` starts again without composing (`wires.hpp` 253-290);
`reused` is the history of those that have, since their last compose.

`Broadcast` stops at the first use of an erased queue (`touched`): what the program does
after that is undefined.

## 3. What each run checks

| Run | Instance | Question and answer |
| --- | --- | --- |
| `mesh_safety` | 3 wires, `c` the WhenDone copy of `a`; 830,805 states | Under every order of schedules, ticks, stops, detaches, suspensions, failures, removals, clears and a signal that ends the process, the records of a wire agree, one coroutine runs, no flow is twice in the pool and ended wires are out (`LifeIsConsistent`); no flow is ticked twice in a tick, one is missed only after two removals in one visit, `tick()` reports failures, only WhenDone copies survive a `clear`. |
| `mesh_live` | the same, without sleep, pause and failures (`PlainSpec`); 51,531 states | A tick ends unless wires keep being scheduled in it; a flow that misses ticks is ticked in the end. |
| `mesh_skip` | 3 wires | *Violation*: one flow can miss a tick. |
| `activation_safety` | nesting to depth 4, one Await in the predicate of a `Repeat` and one in a `Maybe`; 303,971 states | Whatever the program is and wherever it is stopped: a stopped wire runs no further shard and ends, but for what an Await copies over the Stop; a signal gets unchanged to the innermost sequence that is for it. |
| `activation_await` | an Await in a `Maybe` | *Violation*: shards of an Await are activated in a state other than `Continue`. |
| `continuation_safety` | 4 wires, 2 of which the host schedules and which stop the others on cleanup; 1,230,607 states | Whatever is switched to, waited for, stopped, failed and started again: a flow of the pool that was not given a wire of another flow drives a live wire of its own, and no other flow drives that one; a resumer is alive, in the SwitchTo that is about the wire it waits for; a wire loses the parent it goes back to only when it is over or a wire that had switched to it goes on. |
| `many_safety` | up to 3 inputs, 2 of whose copies may run a parallel shard, 2 workers; 19,040 states | Under every policy: a copy is in one place; only FirstSuccess keeps copies that work; the answer is that of `ManyResult`. The shard returns if no copy runs for ever, and an interrupted FirstSuccess returns anyway, provided that what runs inside the copies ends; the exception is `Clogged`, where every worker is held by a copy that waits for a worker. |
| `database_safety` | 3 wires, one composed in a transaction, 1 worker; 11,190 states | The open transaction belongs to a wire inside its `DB.Transaction` that holds the lock; only the stray wire joins the transaction of another; transactions end unless queries that wait for them hold every worker or the mesh, or they nest. |
| `await_safety` | 3 interchangeable coroutines of a mesh, a pool of 2 to 3 workers; 808,543 states | The frame of a call outlives it, the counter is exact, the pool keeps its workers; `Await` implements `AsyncCall`. |
| `await_live` | 2 coroutines on 2 threads, 2 workers; 71,313 states | Calls are served, a stopped await returns, `terminate` returns, also when two threads notify at once. |
| `channel_safety` | a producer of 3 values, consumers of one value and of pairs, a flusher, on 2 threads; 52,292 states | Every value is in one place; order is kept; what is left behind in a completed channel came at the last moment; once completed, consumers end. |
| `broadcast_safety` | 2 meshes, on each a broadcaster and a listener, 3 subscriptions; 108,849 states | Listeners agree on the order, the list does not change under a broadcast and no open subscription is skipped; the queue of a listener is erased only when it is through with it, or by another thread between the halves of its cleanup, unless it was restarted without a compose. |

### Bounds, and why they are enough

* *Wires of a mesh* (3). The iterator of the pool distinguishes flows before it, at it and
  behind it; three wires put one in each place, and two removals in a visit need two flows
  gone and one to be missed. A WhenDone copy is one of the three.
* *Nesting* (`MaxDepth` 4). How a signal passes is a matter of two neighbouring levels; four
  put one around the wire's own, one to catch, one to pass it on and one to raise it, with
  the worker's sequence among them. The depth guards `Enter` and `EnterAwait` alone.
* *Continuations* (4 wires, 2 flows). Three wires make a chain with a middle, which can be
  stopped, fail, or be switched back to; the fourth has a flow of its own, stops or waits for
  one of them, or switches to it, which mixes the flows.
  Interchangeable wires and flows are identified (`Alike`).
* *Copies* (`MaxCopies` 3). Three tasks on two workers leave one queued while another ends
  or gives up; with three copies a second activation of two inputs mixes copies that
  were released and new ones after one was kept. With two copies that nest on two workers,
  one can have its task done by the worker the other leaves, and both can hold a worker each
  and wait for a third.
* *Connections* (1 worker, 3 wires). One worker is the hardest case for a pool shared by
  statements that block it; of three wires, one is in a transaction, one queries from
  outside, one is the stray. Nothing else is bounded.
* *Workers and calls of the pool* (2-3). A lost notification needs one worker between
  predicate and wait, one that sleeps, and a call; shrinking needs a third worker beside
  two to keep. `LowWater` and `NumWorkers` keep the order they have in the code (4, 8,
  32). With a single worker a schedule can lose its notification, and the call waits until
  the next one: `CallsAreServed` needs `NumWorkers >= 2`; the code has 8.
* *Channels*. Three values of a producer show whether one is overtaken or lost between two
  consumers; a consumer of pairs can be stopped, or meet the end of the channel, with half
  a buffer. `MaxValue` and `Subs` are the only bounds the guards have; a listener can be
  cleaned up and composed again with three subscriptions and two listeners.
* Configurations disable the deadlock check where the system may stop: a pool that is
  terminated, a wire that ended, channels whose producers have nothing more to send,
  wires that wait for each other, a pool of copies at its bound, workers that are
  blocked by a lock. The mesh configurations keep it.

### Fairness, and why the code justifies it

* `Mesh`: the mesh's thread goes on (`WF` of the loop and of clear), the host keeps
  ticking (`WF` of the tick), a shard list is finite so the running wire comes to a
  suspension or its end (`SF` of `Leaves`, since it can be interrupted any number of
  times by its own actions), the time of a sleeper comes, a handler comes to raise
  its signal again (`WF` of `Raised`). Nothing is assumed of schedules, stops or signals. Properties that need the tick under way to end say so.
* `Activation`: the thread of the mesh goes on with a wire that was stopped (`WF` of
  leaving a sequence that has ended, and of what follows an await). Nothing is assumed of
  a worker: `StoppedEnds` speaks of a stopped wire whose call is over, which
  `StoppedAwaitReturns` of `Await` provides.
* `Many`: the mesh is ticked and `future.get()` returns (`WF` of `Poll` and `Return`); the
  executor begins what is queued if workers get free again and again, though they take tasks
  of other shards in between (`SF`; it steals from every queue); a task goes on (`WF` of
  `TickOn`, `Write`, `Raise`, `Release`). That a copy ends, or the task of a shard inside
  it, is a hypothesis of the property, not an assumption.
* `Database`: a wire that can go on is ticked again and again (`SF` of `Collect`), the body of
  a transaction ends (`SF`), the pool takes a call (`SF`) and a statement ends (`WF`). That
  a worker gets the lock is not assumed.
* `Await`: each worker and the controller are threads (`WF`), a call ends, a mesh is
  ticked, so a coroutine in await takes its steps (`WF`) and is resumed tick after tick
  (`SF`). `FairLockSpec` adds that a worker that asks for the mutex gets it in the end,
  what the mutexes of the supported platforms do in practice though C++ does not
  promise it; only the liveness configuration of the pool uses it.
* `Channel`: a consumer's thread runs (`WF`) and its looped wire is ticked (`SF`).
  Nothing has to be produced, completed, flushed or stopped.

## 4. What is proved

All for any sets of wires, threads, workers, inputs and values, and any nesting, from the
named `ASSUME`s only (distinct names, mappings of the right type, `0 < NumWorkers <=
MaxWorkers`, `LowWater <= NumWorkers`, buffers of at least 1, the inputs of a parallel shard
numbered `1..n`), and from the hypotheses named below. Every safety property of a passing
run is a theorem.

* `MeshProofs`: `TypeOK`, `LifeIsConsistent` and its parts `OneRuns`, `PoolIsDistinct`,
  `EndedIsOut`. None of them is inductive alone: that `stop` finds a coroutine for a
  running wire rests on the state, the coroutine, `warmedUp` and the pool agreeing, and
  that they agree after a `WhenDone` scheduled from a cleanup rests on the pool being
  free of repetitions. The invariant has two halves: `Lives`, kept by the three
  operations on a wire (lemmas `ScheduleKeeps`, `LeaveKeeps`, `StopKeeps`) wherever
  the thread is, and `Control`, which ties the wires to the phase. Lemmas on the pool
  (`EmplaceSound`, `EraseAtFacts`, `CleanedUpSound`, `ScheduledSound`) say what the
  operators of `FlowPool` return.
  Of a tick: `NotTickedTwice`, `MissedOnlyAfterTwoRemovals`, `TickReportsFailures`,
  `OnlyHeirsSurviveClear`. The first two speak of turns, but whether a flow gets one is a
  matter of its place: `Walk` says that the flows from the iterator on have not had their
  turn, that the one being ticked is at the iterator or before it, that it is where the
  visit began until a flow is taken away, and that nothing behind the iterator is owed a
  turn until two are. Each way the pool changes keeps `Walk`. `Reports` says what the
  result of the tick stands for between the failure and the `stop` that notes it.
* `ActivationProofs`: `TypeOK`, `StoppedStaysStopped`, `SignalsAreCaught`. The invariant
  says what the stack looks like (`Frames`: the wire outermost, at most one Await, that
  whose shards run), which state a context may be in at which phase (`Contexts`; a
  `Rebase` never outlives the shard that set it) and that the state of a stopped wire is
  `Stop` or `Error` until its sequences are left (`StopState`), which is what makes Maybe's
  look at `onLastResume` enough. `SignalsAreCaught`, an action property, follows from
  `Frames` by one case for each way a sequence ends.
* `ManyProofs`: `Many` implements `ManyResult`, for any number of inputs and workers. The
  invariant `Tasks` says that successes are tasks past their loop and that nothing of an
  activation is left when the shard is idle; each step of a task maps to `EndWell`, `Break` or a
  stutter (`MoveSettles`), and `Return` to the `Reply` of the policy (`ReturnReplies`). A task
  that raises `anySuccess` has written its success (part of `Tasks`), so `Raise` is one.
  `TypeOK` and `CopiesAreAccountedFor` follow from `PoolInv`, which adds that the copies were
  numbered as they were made (`Numbered`): a copy that `acquireBatch` makes is then none of
  those that are available, in hand or kept, and the batch, a permutation of available
  copies followed by new ones, gives each task one of its own.
* `DatabaseProofs`: `TypeOK`, `OpenIsLocked`, `Isolated`, and `TransactionsAreApart`, the
  two together. The invariant adds who holds the lock (`LockIsHeld`) and that the open
  transaction is between its BEGIN and what ends it (`OpenIsOpened`).
* `AwaitProofs`: `FrameOutlivesCall`, `CounterIsExact`, `PoolKeepsWorkers`, `TypeOK`
  and that `Await` implements `AsyncCall`. The invariant says that a call is in one place
  (`OnePlace`), that wherever it is its coroutine is still in await (`OnTheStack`), and how
  many workers there are at each step of the controller (`Sized`). That the
  counter is never negative follows from its being exact, not the other way round.
* `ChannelProofs`: `TypeOK`, `LeftBehindIsLate`, and `NothingLeftBehind` (a consumer on the
  thread of every producer leaves nothing). The invariant relates the queue to what came
  since a consumer's last failed pop (`LooksAtLate`); for a consumer on the thread of the
  producers, the queue is empty when it looks (`LooksAtNothing`).
  `OutputInOrder` and `EveryValueInOnePlace` follow from `PlaceInv`: the queue is in order, what
  a consumer has, output and buffer together, is in order and ahead of the queue (`Flowing`),
  every value made is somewhere (`NoneLost`), and what consumers have and what was dropped is
  apart (`Apart`). That no value is in one place twice is a consequence of the order.
* `BroadcastProofs`: `TypeOK`, `ListenersAreSubscribed`, `ListIsLocked`, and
  `ErasesWhatIsDone`, an action property, all for any wires on any threads. A subscription
  belongs to one listener (`OwnSub`), whose own cleanup alone marks it closed, and no wire of
  the same thread broadcasts while a listener pops or is cleaned up (`ApartInv`). A restart
  without compose is no hypothesis: the two properties name the listeners that had one
  (`reused`).
  `SameOrder`, for any threads: the queues agree on what comes before what (`Agree`), and the
  value of a broadcast under way is the last of each queue it has reached and in none it has
  still to reach (`CurrentIsLast`), which holds because the lock lets one broadcast walk.
* `ContinuationProofs`: `TypeOK`, `ResumersWait`, `FlowsDriveLiveWires` and `ParentIsKept`, for any
  wires, flows and owners, whatever a `SwitchTo` names and whichever wire is stopped. The first three stand on one
  another: a wire that ends gives its flow to its resumer, which must be alive and in that
  flow, or both flows are mixed (`Resumers`), and the flow that leaves the pool when a wire is
  cleaned up is its own, because a flow that drives a wire of another one is mixed (`Crosses`).
  The lemmas on the pool say that the flow found for a wire is the one that drives it and
  what is left without it.

Only model-checked: the liveness properties (`TickEnds`,
`EventuallyTicked`, `CallsAreServed`, `StoppedAwaitReturns`, `TerminateReturns`, `ConsumersEnd`,
`Returns`, `TransactionsEnd`, `StoppedEnds`), since TLAPS does not reason about `ENABLED`, from
which fairness is made.

## 5. Where the code and what it says disagree

1. `mesh_skip`, `core/runtime.hpp:640`. `wireCleanedUp` sets the iterator to its old
   index. When a wire stops an earlier one and then ends in the same visit, two flows at or
   before the iterator are gone and the flow behind misses this tick. The comment says
   the iteration state is kept. The miss is bounded: `EventuallyTicked` holds.
2. `activation_await`, `modules/core/flow.hpp:556`. Await runs its shards with a context that
   only `warmup` makes and nothing sets back to `Continue`. After it has ended with a Return, a
   Restart or an error and the wire goes on, because a Maybe caught the error or the
   wire restarted, each later activation runs its first shard only and reports the old
   state again. The help says that it executes the shards and awaits their completion.

Seen in the models, and stated by no line of the repository as precisely:

* `SHMesh::clear` collects the wires to stop first (`core/runtime.hpp:728`); stopping one can
  schedule the copy of a WhenDone, which stays in the pool, running. `OnlyHeirsSurviveClear`
  says that nothing else does.
* The controller of the pool tells a worker to stop and notifies without the mutex
  (`core/async.hpp:159`); a worker between its predicate and its wait misses both and the
  controller stays in `join` until another notification wakes it. `missed` marks it, and the
  liveness properties of the pool except it.
* A `Listen` that is cleaned up and started without compose uses a queue that a `Broadcast`
  may have erased (`channels.cpp:341`), and with several threads `Listen::cleanup` touches
  its queue after it has marked it closed (lines 311, 312). `ErasesWhatIsDone` allows these two
  and nothing else.
* A task of FirstSuccess that gives up keeps its copy (`wires.cpp:1541`): `kept`.
* Copies that run parallel shards can hold every worker of the executor, each waiting for a
  task that is queued for a worker (`wires.cpp:1617`): `Clogged`. Nothing but more workers
  ends it.
* A `SwitchTo` that is resumed, or stopped, resets the `resumer` of the wire it is about, also
  when that resumer is another wire (`wires.cpp:1012`): `main` switches to `a`, `a` to `b`, `b`
  back to `a`, and `a` stops `b`. Now `a` has no parent, and neither its end nor a `SwitchTo`
  without a wire goes back to `main`, which waits for it. `ParentIsKept` allows this and
  no other loss.
* `SwitchTo` puts the new wire into the flow before it prepares it (`wires.cpp:965`). If the
  warmup fails, the cleanup of that wire erases the flow that drives it, which is the one
  of the wire that switches; if that one catches the error it runs on in a flow that left the
  mesh (`FailsToStart`, then `Recover`) and is not ticked again.
* A wire that is stopped in the middle of a chain gives its flow to its resumer, and the wire
  it had switched to goes on living without a flow that drives it. A `SwitchTo` that names a
  wire of another flow leaves two flows that drive the same wire (`mixed`): the one that ends
  first takes the other's flow out of the pool. A `Stop` of a wire that is on the call stack,
  out of the cleanup of another, resumes a coroutine that has not suspended (`undefined`).
* A wire that was stopped while an Await of it runs goes on, with what the worker
  ended with, if that is a Return or a Restart (`flow.hpp:564` mirrors it over the Stop): `revived`.
* A COMMIT that fails leaves the transaction open (`sqlite.cpp:790`): `left`.

## 6. What is not modelled

* `Step` and `Recur`: a wire inside of the coroutine of another, whose own coroutine would
  have to be a stack of coroutines; `Peek` reads an output. `StepMany`, `Spawn` and the
  cleanup of the pool of copies.
* The channel registry, events, branches, the DB shards that take `globalMutex`.
* `SuspendWire` and `ResumeWire` on a wire that has no context: undefined behaviour.
* An exception that leaves a task of the executor: it is outside of the repository what
  becomes of it.
* What a debugger or a crash handler does with a signal, several meshes sharing wires,
  observers.
* Values, types, names, logging; the result and the exception of an awaited call; the
  return of values to the producer's free list (a cache).
* Liveness of calls that never end: `Await` with shards that do not end keeps a stopped
  wire, and its mesh, for ever; that is seen from the empty cancel function alone.
* The rest of the repository, by far its largest part: renderer, user interface, audio,
  physics, imaging, networking and file shards, the compiler front-end, and the hundreds of
  shards that compute a value from a value. They bind libraries and devices or translate
  data, on one thread and without a protocol among themselves; what goes wrong in them is
  a matter of values, which unit tests reach and a model of control does not.

## 7. Order of the work, and what is left

Built in this order, each module before what composes it: `FlowPool`, `Mesh`, `TidePool`,
`Await`, `AsyncCall`, `Channel`, `Broadcast`, `Continuation`, `ManyResult`, `Many`,
`Database`, `Activation`, with the proofs of section 4.

Left, most valuable first:

1. An abstract specification of a channel, a multiset of values under way that are delivered
   once and per producer in order, with `Channel` shown to implement it: the invariants it
   needs are those of `ChannelProofs`.
2. An abstract tick, in which every flow of the pool has one turn at most, with `Mesh`
   shown to implement it up to the flows that `MissedOnlyAfterTwoRemovals` excepts.
3. `Step` and `Recur`, whose coroutines are stacks of wires, and the registry of channels.
