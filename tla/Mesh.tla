-------------------------------- MODULE Mesh --------------------------------
(***************************************************************************)
(* SHMesh, the cooperative scheduler of Shards, and the life of the wires  *)
(* it runs: schedule, prepare and start, the mesh tick that resumes every  *)
(* flow of the pool in turn, the ways a coroutine leaves (suspends, ends,  *)
(* fails, is stopped), and the three ways wires act on each other while    *)
(* one of them runs: Stop, Detach and WhenDone, Suspend and Resume.        *)
(*                                                                         *)
(* One thread runs all of this, so an action is what happens between two   *)
(* points where control can go somewhere else: a shard's activation, the   *)
(* head of the loop of SHMesh::tick, the return of a coroutine.            *)
(***************************************************************************)
EXTENDS FlowPool

CONSTANTS Wires,      \* the wires
          NoWire,     \* no wire
          WhenDone    \* the copy a WhenDone shard of a wire schedules, or NoWire

ASSUME MeshAssumption ==
    /\ NoWire \notin Wires
    /\ WhenDone \in [Wires -> Wires \cup {NoWire}]

WireStates == {"Stopped", "Prepared", "Starting", "Iterating",
               "IterationEnded", "Failed", "Ended"}
CoroStates == {"none", "suspended", "running", "finished"}
Phases == {"idle", "loop", "wire", "detach", "throw", "ticked", "clear", "exit"}

VARIABLES
    state,      \* SHWire::state
    coro,       \* SHWire::coro; coroutineValid in "suspended" and "running"
    warmedUp,   \* the wires with SHWire::warmedUp
    hasMesh,    \* the wires whose SHWire::mesh is set
    scheduled,  \* SHMesh::scheduled
    pool,       \* SHMesh::_flowPool and _flowPoolIt
    paused,     \* the wires whose SHFlow::paused is set
    asleep,     \* the wires whose SHContext::next is ahead of now
    armed,      \* the wires whose WhenDone shard was activated
    phase,      \* what the mesh's thread is at; "exit" when the process is over
    cur,        \* the wire of the flow being ticked, or NoWire
    target,     \* the wire a Detach is about to schedule, or NoWire
    toStop,     \* the wires SHMesh::clear has still to stop
    sigInt,     \* Globals::SigIntTerm > 0
    noErrors,   \* the local of SHMesh::tick, its result
    turn,       \* history: what the current mesh tick owes to each wire
    gone,       \* history: flows that left the pool in one visit, up to 2
    broke       \* history: a wire failed while it was ticked in this tick

wireVars == <<state, coro, warmedUp, hasMesh, asleep, armed>>
meshVars == <<scheduled, pool, paused>>
ctlVars  == <<phase, cur, target, toStop, sigInt, noErrors, broke>>
vars == <<wireVars, meshVars, ctlVars, turn, gone>>

IsRunning(w) == state[w] \in {"Starting", "Iterating", "IterationEnded"}
Valid(w) == coro[w] \in {"suspended", "running"}
InVisit == phase \in {"wire", "detach", "throw", "ticked"}

\* A process that has not scheduled anything.
Fresh ==
    /\ state = [w \in Wires |-> "Stopped"]
    /\ coro = [w \in Wires |-> "none"]
    /\ warmedUp = {} /\ hasMesh = {} /\ asleep = {} /\ armed = {}
    /\ scheduled = {} /\ paused = {}
    /\ pool = [flows |-> <<>>, it |-> 1]
    /\ cur = NoWire /\ target = NoWire
    /\ toStop = {} /\ sigInt = FALSE /\ noErrors = TRUE /\ broke = FALSE
    /\ turn = [w \in Wires |-> "none"]
    /\ gone = 0

Init == Fresh /\ phase = "idle"

-----------------------------------------------------------------------------
(***************************************************************************)
(* Scheduling and cleaning up, the two halves of a wire's life.            *)
(***************************************************************************)
\* Mutant: only SHMesh::scheduled is looked at.
CanSchedule_ByScheduled(w) == w \notin scheduled

\* SHMesh::schedule throws for a wire that is already there.
CanSchedule(w) == w \notin warmedUp \cup scheduled

\* What SHMesh::schedule does past its checks: a flow, prepare (the coroutine
\* runs up to the suspension that follows the warmup of the shards), start.
Schedule(w) ==
    /\ CanSchedule(w)
    /\ state' = [state EXCEPT ![w] = "Starting"]
    /\ coro' = [coro EXCEPT ![w] = "suspended"]
    /\ warmedUp' = warmedUp \cup {w}
    /\ hasMesh' = hasMesh \cup {w}
    /\ scheduled' = scheduled \cup {w}
    /\ pool' = Scheduled(pool, w, TRUE)
    /\ paused' = paused \ {w}
    /\ asleep' = asleep \ {w}
    /\ armed' = armed \ {w}
    /\ turn' = [turn EXCEPT ![w] = "none"]
    /\ gone' = gone

\* The warmup of a shard throws: run() cleans up inside the coroutine, leaves
\* the wire Failed, and schedule throws before it fills SHMesh::scheduled.
ScheduleFails(w) ==
    /\ CanSchedule(w)
    /\ state' = [state EXCEPT ![w] = "Failed"]
    /\ coro' = [coro EXCEPT ![w] = "finished"]
    /\ hasMesh' = hasMesh \ {w}
    /\ pool' = Scheduled(pool, w, FALSE)
    /\ paused' = paused \ {w}
    /\ asleep' = asleep \ {w}
    /\ armed' = armed \ {w}
    /\ UNCHANGED <<warmedUp, scheduled, turn, gone>>

\* The copy that the WhenDone shard of t schedules when t is cleaned up, in a
\* set with at most one element.  A copy that is still running stands for an
\* empty pool of copies: the model has one copy for each WhenDone.
Heir(t) == {d \in Wires : d = WhenDone[t] /\ t \in armed /\ d # t /\ CanSchedule(d)}

\* SHWire::cleanup(true) of a wire that is warmed up, with the state s and the
\* coroutine c it is left with.  The shards go first, so a WhenDone schedules
\* its copy while the flow of t is still in the pool; an error of that
\* schedule is caught and logged by the cleanup.
Leave(t, s, c) ==
    \E born \in SUBSET Heir(t) :
        LET spoilt == Heir(t) \ born
            tried  == IF Heir(t) = {} THEN pool
                      ELSE Scheduled(pool, WhenDone[t], born # {})
        IN  /\ state' = [w \in Wires |-> IF w = t THEN s
                                         ELSE IF w \in born THEN "Starting"
                                         ELSE IF w \in spoilt THEN "Failed"
                                         ELSE state[w]]
            /\ coro' = [w \in Wires |-> IF w = t THEN c
                                        ELSE IF w \in born THEN "suspended"
                                        ELSE IF w \in spoilt THEN "finished"
                                        ELSE coro[w]]
            /\ warmedUp' = (warmedUp \ {t}) \cup born
            /\ hasMesh' = (hasMesh \ ({t} \cup spoilt)) \cup born
            /\ scheduled' = (scheduled \ {t}) \cup born
            /\ pool' = WireCleanedUp(tried, t)
            /\ paused' = paused \ ({t} \cup Heir(t))
            /\ asleep' = asleep \ ({t} \cup Heir(t))
            /\ armed' = armed \ ({t} \cup Heir(t))
            /\ turn' = [w \in Wires |-> IF w \in {t} \cup born THEN "none" ELSE turn[w]]
            /\ gone' = IF t \in Holds(pool) /\ gone < 2 THEN gone + 1 ELSE gone

\* shards::stop, for a wire that is not on the running call stack.  A live
\* coroutine is resumed a last time and cleans up from inside; then it is reset.
Stop(t) ==
    \/ /\ state[t] = "Stopped"
       /\ UNCHANGED <<wireVars, meshVars, turn, gone>>
    \/ /\ state[t] # "Stopped" /\ (Valid(t) \/ t \in warmedUp)
       /\ Leave(t, "Stopped", IF Valid(t) THEN "none" ELSE coro[t])
    \/ /\ state[t] # "Stopped" /\ ~Valid(t) /\ t \notin warmedUp
       /\ state' = [state EXCEPT ![t] = "Stopped"]
       /\ UNCHANGED <<coro, warmedUp, hasMesh, asleep, armed, meshVars, turn, gone>>

-----------------------------------------------------------------------------
(***************************************************************************)
(* The program that owns the mesh.                                         *)
(***************************************************************************)
HostSchedule(w) ==
    /\ phase = "idle"
    /\ Schedule(w) \/ ScheduleFails(w)
    /\ UNCHANGED ctlVars

\* composeWire throws: wire->mesh was set before and stays set.
HostComposeFails(w) ==
    /\ phase = "idle"
    /\ CanSchedule(w)
    /\ hasMesh' = hasMesh \cup {w}
    /\ UNCHANGED <<state, coro, warmedUp, asleep, armed, meshVars, ctlVars, turn, gone>>

\* SHMesh::remove: stop, then erase what the flow pool still has of the wire.
HostRemove(w) ==
    /\ phase = "idle"
    /\ state[w] # "Stopped"
    /\ Stop(w)
    /\ UNCHANGED ctlVars

\* Mutant: the flows are not dropped, and a wire that only they name is missed.
StartClear_KeepsFlows ==
    /\ toStop' = scheduled
    /\ phase' = "clear"
    /\ UNCHANGED <<wireVars, scheduled, pool, paused, cur, target, sigInt, turn, gone>>

\* SHMesh::clear, called by terminate: the flows are dropped first, and the
\* wires they and SHMesh::scheduled name are stopped one by one.
StartClear ==
    /\ toStop' = Holds(pool) \cup scheduled
    /\ pool' = [flows |-> <<>>, it |-> 1]
    /\ paused' = {}
    /\ phase' = "clear"
    /\ UNCHANGED <<wireVars, scheduled, cur, target, sigInt, turn, gone>>

HostTerminate ==
    /\ phase = "idle"
    /\ StartClear
    /\ UNCHANGED <<noErrors, broke>>

ClearStop(t) ==
    /\ phase = "clear" /\ t \in toStop
    /\ Stop(t)
    /\ toStop' = toStop \ {t}
    /\ UNCHANGED <<phase, cur, target, sigInt, noErrors, broke>>

ClearEnd ==
    /\ phase = "clear" /\ toStop = {}
    /\ scheduled' = {}
    /\ phase' = "idle"
    /\ UNCHANGED <<wireVars, pool, paused, cur, target, toStop, sigInt, noErrors, broke,
                   turn, gone>>

\* error_handler for SIGINT or SIGTERM, on any thread, up to the end of the log.
Interrupt ==
    /\ ~sigInt /\ phase # "exit"
    /\ sigInt' = TRUE
    /\ UNCHANGED <<wireVars, meshVars, phase, cur, target, toStop, noErrors, broke,
                   turn, gone>>

\* Then it raises the signal again, which has its default action by now: the
\* process is over wherever it is, and nothing of the mesh is kept.
Raised ==
    /\ sigInt
    /\ state' = [w \in Wires |-> "Stopped"] /\ coro' = [w \in Wires |-> "none"]
    /\ warmedUp' = {} /\ hasMesh' = {} /\ asleep' = {} /\ armed' = {}
    /\ scheduled' = {} /\ paused' = {} /\ pool' = [flows |-> <<>>, it |-> 1]
    /\ phase' = "exit" /\ cur' = NoWire /\ target' = NoWire
    /\ toStop' = {} /\ sigInt' = FALSE /\ noErrors' = TRUE /\ broke' = FALSE
    /\ turn' = [w \in Wires |-> "none"] /\ gone' = 0

Exited == phase = "exit" /\ UNCHANGED vars

-----------------------------------------------------------------------------
(***************************************************************************)
(* SHMesh::tick: the loop over the flow pool.                              *)
(***************************************************************************)
\* Mutant: the iterator is not rewound.
TickBegin_NoRewind(due) ==
    /\ phase = "idle" /\ ~sigInt
    /\ asleep' = asleep \ due
    /\ phase' = "loop" /\ noErrors' = TRUE
    /\ turn' = [w \in Wires |-> IF w \in Holds(pool) THEN "owed" ELSE "none"]
    /\ gone' = 0 /\ broke' = FALSE
    /\ UNCHANGED <<state, coro, warmedUp, hasMesh, armed, meshVars,
                   cur, target, toStop, sigInt>>

\* "now" is read once: the sleepers whose time has come are due in this tick.
TickBegin(due) ==
    /\ phase = "idle" /\ ~sigInt
    /\ asleep' = asleep \ due
    /\ pool' = [pool EXCEPT !.it = 1]
    /\ phase' = "loop" /\ noErrors' = TRUE
    /\ turn' = [w \in Wires |-> IF w \in Holds(pool) THEN "owed" ELSE "none"]
    /\ gone' = 0 /\ broke' = FALSE
    /\ UNCHANGED <<state, coro, warmedUp, hasMesh, armed, scheduled, paused,
                   cur, target, toStop, sigInt>>

TickInterrupted ==
    /\ phase = "idle" /\ sigInt
    /\ StartClear
    /\ noErrors' = TRUE /\ broke' = FALSE

Skip ==
    /\ phase = "loop" /\ pool.it # End(pool)
    /\ pool.flows[pool.it] \in paused
    /\ pool' = [pool EXCEPT !.it = @ + 1]
    /\ turn' = [turn EXCEPT ![pool.flows[pool.it]] = "had"]
    /\ UNCHANGED <<wireVars, scheduled, paused, ctlVars, gone>>

\* shards::tick resumes the coroutine of a wire that runs and is due.
Visit ==
    /\ phase = "loop" /\ pool.it # End(pool)
    /\ LET w == pool.flows[pool.it]
           canRun == IsRunning(w) /\ w \notin asleep
       IN  /\ w \notin paused
           /\ cur' = w
           /\ phase' = IF canRun THEN "wire" ELSE "ticked"
           /\ state' = IF canRun THEN [state EXCEPT ![w] = "Iterating"] ELSE state
           /\ coro' = IF canRun THEN [coro EXCEPT ![w] = "running"] ELSE coro
           /\ turn' = [turn EXCEPT ![w] = "had"]
           /\ gone' = IF gone = 2 THEN 2 ELSE 0
    /\ UNCHANGED <<warmedUp, hasMesh, asleep, armed, meshVars, target, toStop,
                   sigInt, noErrors, broke>>

\* Mutant: the result of stop() is ignored.
StopEnded_Silent ==
    /\ phase = "ticked" /\ ~IsRunning(cur) /\ state[cur] # "Stopped"
    /\ Stop(cur)
    /\ UNCHANGED <<phase, cur, target, toStop, sigInt, noErrors, broke>>

\* The coroutine returned, and a wire that no longer runs is stopped.
StopEnded ==
    /\ phase = "ticked" /\ ~IsRunning(cur) /\ state[cur] # "Stopped"
    /\ Stop(cur)
    /\ noErrors' = (noErrors /\ state[cur] = "Ended")
    /\ UNCHANGED <<phase, cur, target, toStop, sigInt, broke>>

\* Mutant: the loop always moves on.
Advance_Always ==
    /\ phase = "ticked" /\ (IsRunning(cur) \/ state[cur] = "Stopped")
    /\ pool' = IF pool.it # End(pool) THEN [pool EXCEPT !.it = @ + 1] ELSE pool
    /\ phase' = "loop" /\ cur' = NoWire
    /\ UNCHANGED <<wireVars, scheduled, paused, target, toStop, sigInt, noErrors,
                   broke, turn, gone>>

\* Mutant: a flow is ticked again and again while its wire runs.
Advance_Again ==
    /\ phase = "ticked" /\ (IsRunning(cur) \/ state[cur] = "Stopped")
    /\ phase' = "loop" /\ cur' = NoWire
    /\ UNCHANGED <<wireVars, meshVars, target, toStop, sigInt, noErrors, broke, turn, gone>>

\* The iterator moves to the next flow unless a removal has moved it.
Advance ==
    /\ phase = "ticked" /\ (IsRunning(cur) \/ state[cur] = "Stopped")
    /\ pool' = IF At(pool, cur) THEN [pool EXCEPT !.it = @ + 1] ELSE pool
    /\ phase' = "loop" /\ cur' = NoWire
    /\ UNCHANGED <<wireVars, scheduled, paused, target, toStop, sigInt, noErrors,
                   broke, turn, gone>>

TickEnd ==
    /\ phase = "loop" /\ pool.it = End(pool)
    /\ phase' = "idle"
    /\ UNCHANGED <<wireVars, meshVars, cur, target, toStop, sigInt, noErrors, broke,
                   turn, gone>>

-----------------------------------------------------------------------------
(***************************************************************************)
(* What the wire that runs can do.                                         *)
(***************************************************************************)
\* suspend() inside a shard, for the next tick or for a time, or the end of
\* an iteration of a looped wire (or of any wire after Restart).
Yield(w, s, sleeps) ==
    /\ phase = "wire" /\ cur = w
    /\ s = "IterationEnded" => ~sleeps
    /\ state' = [state EXCEPT ![w] = s]
    /\ coro' = [coro EXCEPT ![w] = "suspended"]
    /\ asleep' = IF sleeps THEN asleep \cup {w} ELSE asleep
    /\ phase' = "ticked"
    /\ UNCHANGED <<warmedUp, hasMesh, armed, meshVars, cur, target, toStop, sigInt,
                   noErrors, broke, turn, gone>>

\* The tail of run(): Return, Stop, or the last iteration of a one-shot wire.
Finish(w) ==
    /\ phase = "wire" /\ cur = w
    /\ Leave(w, "Ended", "finished")
    /\ phase' = "ticked"
    /\ UNCHANGED <<cur, target, toStop, sigInt, noErrors, broke>>

\* A shard throws, or the schedule of a Detach did.
Fail(w) ==
    /\ phase \in {"wire", "throw"} /\ cur = w
    /\ Leave(w, "Failed", "finished")
    /\ phase' = "ticked" /\ broke' = TRUE
    /\ UNCHANGED <<cur, target, toStop, sigInt, noErrors>>

\* StopWire::activate, on another wire.
StopWire(t) ==
    /\ phase = "wire" /\ t # cur
    /\ state[t] # "Stopped"
    /\ Stop(t)
    /\ UNCHANGED ctlVars

\* SuspendWire::activate and ResumeWire::activate, on a wire with a context.
SuspendWire(t) ==
    /\ phase = "wire" /\ Valid(t)
    /\ paused' = paused \cup {t}
    /\ UNCHANGED <<wireVars, scheduled, pool, ctlVars, turn, gone>>

ResumeWire(t) ==
    /\ phase = "wire" /\ Valid(t)
    /\ paused' = paused \ {t}
    /\ UNCHANGED <<wireVars, scheduled, pool, ctlVars, turn, gone>>

\* WhenDone::activate.
ArmWhenDone ==
    /\ phase = "wire" /\ WhenDone[cur] # NoWire
    /\ armed' = armed \cup {cur}
    /\ UNCHANGED <<state, coro, warmedUp, hasMesh, asleep, meshVars, ctlVars, turn, gone>>

\* BaseRunner::activateDetached.  A wire that does not run is stopped; one that
\* runs is left alone, or removed when the shard has Restart: true.
Detach(t) ==
    /\ phase = "wire" /\ t # cur
    /\ Stop(t)
    /\ phase' = "detach" /\ target' = t
    /\ UNCHANGED <<cur, toStop, sigInt, noErrors, broke>>

\* Then it is scheduled; the error of a failed schedule reaches the caller.
Detached ==
    /\ phase = "detach"
    /\ \/ Schedule(target) /\ phase' = "wire"
       \/ ScheduleFails(target) /\ phase' = "throw"
    /\ target' = NoWire
    /\ UNCHANGED <<cur, toStop, sigInt, noErrors, broke>>

-----------------------------------------------------------------------------
Leaves == \E w \in Wires :
    \/ \E s \in {"Iterating", "IterationEnded"}, z \in BOOLEAN : Yield(w, s, z)
    \/ Finish(w)
    \/ Fail(w)

Acts == \/ \E t \in Wires : StopWire(t) \/ SuspendWire(t) \/ ResumeWire(t) \/ Detach(t)
        \/ ArmWhenDone

Host == \/ \E w \in Wires : HostSchedule(w) \/ HostComposeFails(w) \/ HostRemove(w)
        \/ HostTerminate

Loop == Skip \/ Visit \/ StopEnded \/ Advance \/ TickEnd \/ Detached

Clear == ClearEnd \/ \E t \in Wires : ClearStop(t)

Tick == TickInterrupted \/ \E due \in SUBSET asleep : TickBegin(due)

Next == Host \/ Tick \/ Loop \/ Clear \/ Acts \/ Leaves \/ Interrupt \/ Raised \/ Exited

Spec == Init /\ [][Next]_vars

\* The mesh's thread goes on, the program keeps ticking the mesh, the time of
\* a sleeper comes, and a wire's finite list of shards comes to its end.
Fairness ==
    /\ WF_vars(Loop) /\ WF_vars(Clear) /\ WF_vars(Tick) /\ WF_vars(Raised)
    /\ SF_vars(Leaves)
    /\ \A w \in Wires : SF_vars(\E due \in SUBSET asleep : w \in due /\ TickBegin(due))

FairSpec == Spec /\ Fairness

-----------------------------------------------------------------------------
(***************************************************************************)
(* Properties.                                                             *)
(***************************************************************************)
\* Every variable has its type.
TypeOK ==
    /\ state \in [Wires -> WireStates]
    /\ coro \in [Wires -> CoroStates]
    /\ warmedUp \subseteq Wires /\ hasMesh \subseteq Wires
    /\ asleep \subseteq Wires /\ armed \subseteq Wires
    /\ scheduled \subseteq Wires /\ paused \subseteq Wires
    /\ pool \in PoolType(Wires) /\ pool.it \in 1 .. End(pool)
    /\ phase \in Phases
    /\ cur \in Wires \cup {NoWire} /\ (cur \in Wires <=> InVisit)
    /\ target \in Wires \cup {NoWire} /\ (target \in Wires <=> phase = "detach")
    /\ toStop \subseteq Wires
    /\ sigInt \in BOOLEAN /\ noErrors \in BOOLEAN /\ broke \in BOOLEAN
    /\ turn \in [Wires -> {"none", "owed", "had"}]
    /\ gone \in 0 .. 2

\* The records of "this wire lives" agree: SHWire::state, its coroutine,
\* SHWire::warmedUp, SHWire::mesh and the flow pool.  So stop() always finds a
\* coroutine to resume for a running wire, and prepare never meets a live one
\* ("Wire already prepared!").
RecordsAgree ==
    /\ \A w \in Wires : Valid(w) <=> w \in warmedUp
    /\ \A w \in Wires : IsRunning(w) <=> w \in warmedUp
    /\ warmedUp \subseteq hasMesh
    /\ scheduled \subseteq warmedUp
    /\ Holds(pool) \cup toStop = warmedUp
    /\ toStop # {} => phase = "clear"

\* Every coroutine but the one being ticked is suspended, whatever that one
\* stops, schedules or restarts on its way.
OneRuns ==
    \A w \in Wires : coro[w] = "running" <=> w = cur /\ phase \in {"wire", "detach", "throw"}

\* No wire has two flows.
PoolIsDistinct == Distinct(pool)

\* The assertions of SHMesh::tick: a wire that ended while it was ticked is
\* out of the mesh, "Wire still in scheduled!" and "Wire still has a mesh!".
EndedIsOut ==
    phase = "ticked" /\ ~IsRunning(cur) =>
        cur \notin scheduled \cup hasMesh \cup Holds(pool)

\* What the life of a wire rests on, however schedules, stops, failures and
\* removals are mixed: the records of it agree, one coroutine runs, no wire has
\* two flows, and a wire that ended in its tick is gone.
LifeIsConsistent == RecordsAgree /\ OneRuns /\ PoolIsDistinct /\ EndedIsOut

\* No flow is run twice by one mesh tick: what the iterator has still to reach
\* has not had its turn, whatever wires were removed and added on the way.
NotTickedTwice ==
    phase \in {"loop"} \cup {p \in Phases : InVisit} =>
        \A i \in DOMAIN pool.flows :
            i >= pool.it /\ pool.flows[i] # cur => turn[pool.flows[i]] # "had"

\* A flow that was in the pool when the tick began is not jumped over as long
\* as every visit takes at most one flow out of the pool.
MissedOnlyAfterTwoRemovals ==
    (phase = "loop" \/ InVisit) /\ gone < 2 =>
        \A i \in DOMAIN pool.flows :
            i < pool.it => turn[pool.flows[i]] # "owed"

\* "Remove from flow pool, while keeping the iteration state"
\* (runtime.hpp:635): a tick that ends owes nothing to a flow that was there
\* when it began.
EveryFlowTicked ==
    phase = "loop" /\ pool.it = End(pool) =>
        \A w \in Holds(pool) : turn[w] # "owed"

\* tick() returns false exactly when a wire failed while it was ticked.
TickReportsFailures == phase = "loop" => (noErrors <=> ~broke)

\* "clear all wires!" (runtime.hpp:710): all that is left in the mesh was scheduled by a WhenDone of a
\* wire that clear() stopped.
OnlyHeirsSurviveClear ==
    phase = "clear" => \A w \in Holds(pool) : \E t \in Wires : WhenDone[t] = w

\* A mesh tick comes to its end unless wires keep being scheduled during it.
TickEnds ==
    \/ []<>(phase \in {"idle", "exit"})
    \/ []<><<\E w \in Wires : w \in warmedUp' \ warmedUp>>_vars

\* A flow may miss a tick but not all of them: flows are appended, and each
\* miss brings the missed flow closer to the front, where every tick starts.
EventuallyTicked ==
    []<>(phase = "idle") =>
        \A w \in Wires : w \in Holds(pool) ~> cur = w \/ w \notin Holds(pool) \/ w \in paused
=============================================================================
