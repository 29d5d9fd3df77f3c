----------------------------- MODULE Continuation -----------------------------
(***************************************************************************)
(* SwitchTo, Wait and Stop: wires that run in the place of one another.  A *)
(* flow of the mesh drives one wire at a time; SwitchTo puts another wire  *)
(* into the flow and leaves its own suspended, to be resumed when the      *)
(* other wire ends (SHWire::resumer) or when some wire switches to it.     *)
(*                                                                         *)
(* Every wire here owns a coroutine, nothing is stepped or inlined, so an  *)
(* action is the run of one coroutine between two suspensions, cut where a *)
(* shard acts on another wire, and where the end of a wire stops others.   *)
(***************************************************************************)
EXTENDS Naturals, Sequences, FiniteSets, SequencesExt

CONSTANTS Wires, NoWire,  \* the wires
          Roots,          \* those the host schedules on the mesh
          Owns,           \* the wires that its SwitchTo with StopOnCleanup name
          Flows, NoFlow   \* the flows, an SHFlow of the pool each

ASSUME ContinuationAssumption ==
    /\ NoWire \notin Wires /\ NoFlow \notin Flows
    /\ Roots \subseteq Wires /\ Owns \in [Wires -> SUBSET Wires]

VARIABLES
    at,         \* where the coroutine of a wire is; "off" if it has none
    to,         \* the wire that the SwitchTo or Wait it is in is about
    flow,       \* SHContext::flow
    failed,     \* the wires whose finishedError is set
    cancelled,  \* the wires whose context was cancelled: the next shard throws
    resumer,    \* SHWire::resumer
    pool,       \* SHMesh::_flowPool, in the order it is searched
    drives,     \* SHFlow::wire
    cur,        \* the wire the mesh has resumed, or NoWire
    ending,     \* the wires in SHWire::cleanup, each called by the one before
    undefined,  \* the program wrote through an erased flow, or stopped a wire
                \* that is on the call stack
    mixed       \* history: the flows that have driven a wire of another flow,
                \* and the flows of those wires

linkVars == <<resumer, pool, drives>>
wireVars == <<at, to, flow, failed, cancelled>>
vars == <<wireVars, linkVars, cur, ending, undefined, mixed>>

Points == {"off", "start", "yield", "switch", "wait", "run", "stop", "end"}
Alive(w) == at[w] # "off"
Pooled(f) == f \in ToSet(pool)

Init ==
    /\ at = [w \in Wires |-> "off"]
    /\ to = [w \in Wires |-> NoWire]
    /\ flow = [w \in Wires |-> NoFlow]
    /\ failed = {} /\ cancelled = {}
    /\ resumer = [w \in Wires |-> NoWire]
    /\ pool = <<>>
    /\ drives = [f \in Flows |-> NoWire]
    /\ cur = NoWire /\ ending = <<>> /\ undefined = FALSE
    /\ mixed = {}

\* What the program does from here on is undefined.
GoesWrong == undefined' = TRUE /\ UNCHANGED <<at, flow, linkVars, cur, ending>>

-----------------------------------------------------------------------------
(***************************************************************************)
(* The end of a wire.  It takes the steps of run(): the flow is given to   *)
(* the resumer, then the shards are cleaned up, which may stop other       *)
(* wires, and the flow that drives the wire leaves the pool.               *)
(***************************************************************************)
\* A SwitchTo that is resumed, by the mesh or by a stop, resets the resumer of
\* the wire it is about, whoever that is.
Switched(w) == IF at[w] = "switch" THEN [resumer EXCEPT ![to[w]] = NoWire] ELSE resumer

\* Mutant: the wire that is stopped stays the resumer of the one it switched to.
BeginEnd_StaysResumer(w, how) ==
    LET heir == resumer[w] IN
    IF heir # NoWire /\ ~Pooled(flow[w]) THEN GoesWrong
    ELSE /\ drives' = IF heir # NoWire THEN [drives EXCEPT ![flow[w]] = heir] ELSE drives
         /\ resumer' = [resumer EXCEPT ![w] = NoWire]
         /\ at' = [at EXCEPT ![w] = how]
         /\ ending' = Append(ending, w)
         /\ UNCHANGED <<flow, pool, undefined, cur>>

\* Mutant: the resumer is not reset.
BeginEnd_KeepsResumer(w, how) ==
    LET heir == Switched(w)[w] IN
    IF heir # NoWire /\ ~Pooled(flow[w]) THEN GoesWrong
    ELSE /\ drives' = IF heir # NoWire THEN [drives EXCEPT ![flow[w]] = heir] ELSE drives
         /\ resumer' = Switched(w)
         /\ at' = [at EXCEPT ![w] = how]
         /\ ending' = Append(ending, w)
         /\ UNCHANGED <<flow, pool, undefined, cur>>

\* Wire w leaves its shards, because it is over ("end") or was stopped ("stop"),
\* and its flow is given to its resumer.
BeginEnd(w, how) ==
    LET heir == Switched(w)[w] IN
    IF heir # NoWire /\ ~Pooled(flow[w]) THEN GoesWrong
    ELSE /\ drives' = IF heir # NoWire THEN [drives EXCEPT ![flow[w]] = heir] ELSE drives
         /\ resumer' = [Switched(w) EXCEPT ![w] = NoWire]
         /\ at' = [at EXCEPT ![w] = how]
         /\ ending' = Append(ending, w)
         /\ UNCHANGED <<flow, pool, undefined, cur>>

\* shards::stop of a wire that is not being stopped.  One that is over but still
\* on the call stack, or that runs, would be resumed inside itself.
Stop(p) ==
    /\ IF p = cur \/ at[p] = "end" THEN GoesWrong ELSE BeginEnd(p, "stop")
    /\ UNCHANGED <<failed, cancelled>>

\* SwitchTo::cleanup with StopOnCleanup; a wire that is being stopped stays so.
ToStop(w) == {t \in Owns[w] : at[t] \notin {"off", "stop"}}
StopOnCleanup(t) ==
    /\ ending # <<>> /\ t \in ToStop(Last(ending))
    /\ Stop(t)
    /\ UNCHANGED to

\* SHMesh::wireCleanedUp: the first flow that drives w leaves the pool.
Place(w) == SelectInSeq(pool, LAMBDA f : drives[f] = w)
WireCleanedUp(w) ==
    /\ pool' = IF Place(w) = 0 THEN pool ELSE RemoveAt(pool, Place(w))
    /\ drives' = IF Place(w) = 0 THEN drives ELSE [drives EXCEPT ![pool[Place(w)]] = NoWire]

\* The rest of SHWire::cleanup, and the coroutine is over.
CleanedUp ==
    /\ ending # <<>>
    /\ LET w == Last(ending) IN
        /\ ToStop(w) = {}
        /\ WireCleanedUp(w)
        /\ at' = [at EXCEPT ![w] = "off"]
        /\ to' = [to EXCEPT ![w] = NoWire]
        /\ flow' = [flow EXCEPT ![w] = NoFlow]
        /\ cancelled' = cancelled \ {w}
        /\ cur' = IF cur = w THEN NoWire ELSE cur
    /\ ending' = Front(ending)
    /\ UNCHANGED <<failed, resumer, undefined>>

-----------------------------------------------------------------------------
(***************************************************************************)
(* The mesh.                                                               *)
(***************************************************************************)
InMesh == cur = NoWire /\ ending = <<>>

\* SHMesh::schedule, and run() up to the suspension after the warmup.
Schedule(w) ==
    /\ InMesh /\ w \in Roots /\ ~Alive(w)
    /\ \E f \in Flows :
        /\ ~Pooled(f) /\ f \notin {flow[v] : v \in Wires}
        /\ pool' = Append(pool, f)
        /\ drives' = [drives EXCEPT ![f] = w]
        /\ flow' = [flow EXCEPT ![w] = f]
    /\ at' = [at EXCEPT ![w] = "start"]
    /\ failed' = failed \ {w}
    /\ UNCHANGED <<to, cancelled, resumer, cur, ending, undefined>>

\* Mutant: the SwitchTo that is resumed leaves the resumer as it is.
Resume_KeepsResumer(f) ==
    LET w == drives[f] IN
    /\ InMesh /\ Pooled(f) /\ Alive(w)
    /\ \/ at[w] # "wait" /\ UNCHANGED cancelled
       \/ at[w] = "wait" /\ cancelled' = cancelled \cup {w}
       \/ /\ at[w] = "wait" /\ ~Alive(to[w])
          /\ cancelled' = IF to[w] \in failed THEN cancelled \cup {w} ELSE cancelled
    /\ cur' = w
    /\ at' = [at EXCEPT ![w] = "run"]
    /\ to' = [to EXCEPT ![w] = NoWire]
    /\ UNCHANGED <<flow, failed, linkVars, ending, undefined>>

\* SHMesh::tick resumes the wire of a flow.  A Wait goes on once its wire is not
\* running, or when its timeout is over, which it looks at first.
Resume(f) ==
    LET w == drives[f] IN
    /\ InMesh /\ Pooled(f) /\ Alive(w)
    /\ \/ at[w] # "wait" /\ UNCHANGED cancelled
       \/ at[w] = "wait" /\ cancelled' = cancelled \cup {w}
       \/ /\ at[w] = "wait" /\ ~Alive(to[w])
          /\ cancelled' = IF to[w] \in failed THEN cancelled \cup {w} ELSE cancelled
    /\ cur' = w
    /\ at' = [at EXCEPT ![w] = "run"]
    /\ to' = [to EXCEPT ![w] = NoWire]
    /\ resumer' = Switched(w)
    /\ UNCHANGED <<flow, failed, pool, drives, ending, undefined>>

-----------------------------------------------------------------------------
(***************************************************************************)
(* The wire that runs.                                                     *)
(***************************************************************************)
InShard == cur # NoWire /\ at[cur] = "run" /\ to[cur] = NoWire /\ ending = <<>>
Runs == InShard /\ cur \notin cancelled

\* The coroutine suspends: a Pause, or the end of an iteration of a loop.
Yield ==
    /\ Runs
    /\ at' = [at EXCEPT ![cur] = "yield"]
    /\ cur' = NoWire
    /\ UNCHANGED <<to, flow, failed, cancelled, linkVars, ending, undefined>>

\* Wait::activate, for a wire that runs on another context.
Wait(p) ==
    /\ Runs /\ p # cur /\ Alive(p)
    /\ at' = [at EXCEPT ![cur] = "wait"]
    /\ to' = [to EXCEPT ![cur] = p]
    /\ cur' = NoWire
    /\ UNCHANGED <<flow, failed, cancelled, linkVars, ending, undefined>>

\* Wait::activate, for a wire that is over and failed.
WaitThrows(p) ==
    /\ Runs /\ p \in failed
    /\ cancelled' = cancelled \cup {cur}
    /\ UNCHANGED <<at, to, flow, failed, linkVars, cur, ending, undefined>>

\* A Maybe around the shard that threw.
Recover ==
    /\ InShard /\ cur \in cancelled
    /\ cancelled' = cancelled \ {cur}
    /\ UNCHANGED <<at, to, flow, failed, linkVars, cur, ending, undefined>>

Finish ==
    /\ Runs
    /\ BeginEnd(cur, "end")
    /\ UNCHANGED <<to, failed, cancelled>>

\* A wire that failed cancels the one it returns to.
Fail ==
    /\ InShard
    /\ BeginEnd(cur, "end")
    /\ failed' = failed \cup {cur}
    /\ cancelled' = (cancelled \cup {resumer[cur]}) \ {NoWire}
    /\ UNCHANGED to

\* StopWire::activate, on another wire.
StopWire(p) ==
    /\ Runs /\ p # cur /\ Alive(p)
    /\ Stop(p)
    /\ UNCHANGED to

\* Mutant: it becomes the resumer of p also if p has one.
Enter_TakesOver(p) ==
    /\ to' = [to EXCEPT ![cur] = p]
    /\ failed' = failed \ IF Alive(p) THEN {} ELSE {p}
    /\ UNCHANGED cancelled
    /\ IF ~Pooled(flow[cur]) THEN GoesWrong
       ELSE /\ drives' = [drives EXCEPT ![flow[cur]] = p]
            /\ resumer' = [resumer EXCEPT ![p] = cur]
            /\ at' = [at EXCEPT ![cur] = "switch", ![p] = IF Alive(p) THEN @ ELSE "start"]
            /\ flow' = IF Alive(p) THEN flow ELSE [flow EXCEPT ![p] = flow[cur]]
            /\ cur' = NoWire
            /\ UNCHANGED <<pool, ending, undefined>>

\* SwitchTo puts p into the flow, prepares it if it has no coroutine, becomes its
\* resumer if it has none, and suspends.
Enter(p) ==
    /\ to' = [to EXCEPT ![cur] = p]
    /\ failed' = failed \ IF Alive(p) THEN {} ELSE {p}
    /\ UNCHANGED cancelled
    /\ IF ~Pooled(flow[cur]) THEN GoesWrong
       ELSE /\ drives' = [drives EXCEPT ![flow[cur]] = p]
            /\ resumer' = [resumer EXCEPT ![p] = IF @ = NoWire THEN cur ELSE @]
            /\ at' = [at EXCEPT ![cur] = "switch", ![p] = IF Alive(p) THEN @ ELSE "start"]
            /\ flow' = IF Alive(p) THEN flow ELSE [flow EXCEPT ![p] = flow[cur]]
            /\ cur' = NoWire
            /\ UNCHANGED <<pool, ending, undefined>>

\* The wire was put into the flow but fails to warm up: it is cleaned up as the
\* one that the flow drives, and SwitchTo throws.
FailsToStart(p) ==
    /\ ~Alive(p) /\ Pooled(flow[cur])
    /\ drives' = [drives EXCEPT ![flow[cur]] = p]
    /\ flow' = [flow EXCEPT ![p] = flow[cur]]
    /\ at' = [at EXCEPT ![p] = "end"]
    /\ to' = [to EXCEPT ![cur] = NoWire]
    /\ failed' = failed \cup {p}
    /\ cancelled' = cancelled \cup {cur}
    /\ ending' = Append(ending, p)
    /\ UNCHANGED <<resumer, pool, cur, undefined>>

\* SwitchTo::activate: to the wire it names or, if it names none, to its resumer.
\* With Restart a wire that is alive is stopped first.
SwitchTo(p, fromStart) ==
    /\ Runs /\ p # cur
    /\ IF fromStart /\ Alive(p)
       THEN Stop(p) /\ to' = [to EXCEPT ![cur] = p]
       ELSE Enter(p) \/ FailsToStart(p)

SwitchGoesOn ==
    /\ cur # NoWire /\ at[cur] = "run" /\ to[cur] # NoWire /\ ending = <<>>
    /\ Enter(to[cur]) \/ FailsToStart(to[cur])

-----------------------------------------------------------------------------
\* The flows that drive a wire of another flow, and those wires' own.
Crossed ==
    UNION {{f, flow[drives[f]]} :
              f \in {g \in ToSet(pool) : flow[drives[g]] \notin {g, NoFlow}}}

\* A flow that is gone and that no wire refers to may be used again.
Remembers == mixed' = (mixed \cap (ToSet(pool) \cup {flow[w] : w \in Wires})') \cup Crossed'

Step ==
    \/ \E w \in Wires : Schedule(w) \/ StopOnCleanup(w)
    \/ \E f \in Flows : Resume(f)
    \/ CleanedUp \/ Yield \/ Recover \/ Finish \/ Fail \/ SwitchGoesOn
    \/ \E p \in Wires : \/ Wait(p) \/ WaitThrows(p) \/ StopWire(p)
                        \/ \E fromStart \in BOOLEAN : SwitchTo(p, fromStart)

Next == ~undefined /\ Step /\ Remembers

Spec == Init /\ [][Next]_vars

-----------------------------------------------------------------------------
\* Types; a wire without a coroutine has no flow and no resumer, and the wires
\* being cleaned up are the ones that are over or stopped.
TypeOK ==
    /\ at \in [Wires -> Points]
    /\ to \in [Wires -> Wires \cup {NoWire}]
    /\ flow \in [Wires -> Flows \cup {NoFlow}]
    /\ failed \subseteq Wires /\ cancelled \subseteq Wires
    /\ resumer \in [Wires -> Wires \cup {NoWire}]
    /\ pool \in Seq(Flows) /\ IsInjective(pool)
    /\ drives \in [Flows -> Wires \cup {NoWire}]
    /\ cur \in Wires \cup {NoWire} /\ undefined \in BOOLEAN
    /\ ending \in Seq(Wires) /\ IsInjective(ending)
    /\ ToSet(ending) = {w \in Wires : at[w] \in {"stop", "end"}}
    /\ \A w \in Wires : ~Alive(w) => flow[w] = NoFlow /\ resumer[w] = NoWire
    /\ mixed \subseteq Flows

\* A wire that is to get control when another ends is waiting for it, suspended
\* in the SwitchTo that is about it: run() gives it the flow and, after an
\* error, cancels its context without a look at what it does or whether it is
\* alive.
ResumersWait ==
    \A v \in Wires : resumer[v] # NoWire =>
        at[resumer[v]] = "switch" /\ to[resumer[v]] = v

\* A flow of the pool drives a wire that is alive and in it, and no other flow
\* drives that one, so nothing is left in the mesh that SHMesh::tick can not run
\* to its end: whatever is switched to, waited for, stopped, failed and started
\* again, as long as no wire of another flow is put into this one.
FlowsDriveLiveWires ==
    /\ \A f \in ToSet(pool) \ mixed : Alive(drives[f]) /\ flow[drives[f]] = f
    /\ \A f \in ToSet(pool) \ mixed, g \in ToSet(pool) : drives[f] = drives[g] => f = g

\* A wire keeps the parent it goes back to (wires.cpp:804) until it is itself over
\* or until a wire that had switched to it goes on or is stopped: the parent, or,
\* and this is the one way in which a wire loses a parent that still waits for it,
\* a later wire that was given control back meanwhile (wires.cpp:1012).
ParentIsKept ==
    [][\A g, p \in Wires : resumer[p] = g =>
           \/ resumer'[p] = g
           \/ at'[p] \in {"off", "stop", "end"}
           \/ \E v \in Wires : at[v] = "switch" /\ to[v] = p /\ at'[v] # "switch"]_vars
=============================================================================
