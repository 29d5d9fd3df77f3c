------------------------------ MODULE Activation ------------------------------
(***************************************************************************)
(* The control flow of one wire: shardsActivation runs a sequence of       *)
(* shards and looks at the state of the context after each; the shards     *)
(* that run sequences of their own, If, When, Cond, Match, Sub, Maybe,     *)
(* ForEach, Repeat, Do, Await, look at what shardsActivation returns.      *)
(*                                                                         *)
(* The program is any program: each step picks the next shard, so that the *)
(* behaviours are those of every nesting of such shards up to MaxDepth.    *)
(* Only its Awaits have a place, for they keep a context of their own.     *)
(* The mesh may stop the wire where it is suspended.                       *)
(***************************************************************************)
EXTENDS Naturals, Sequences

CONSTANTS Awaits, NoAwait, \* the Await shards of the wire
          Place,           \* the nesting of each
          MaxDepth         \* the bound of the nesting


(***************************************************************************)
(* What runs a sequence of shards.  "turn" is the body of a Repeat with    *)
(* Until, "until" its predicate; "each" is the body of the other loops.    *)
(***************************************************************************)
Kinds == {"wire", "action", "pred", "body", "else", "each", "until", "turn",
          "do", "loop", "await"}
States == {"Continue", "Return", "Rebase", "Restart", "Stop", "Error"}
Signals == {"Return", "Restart", "Stop", "Error"}

ASSUME ActivationAssumption ==
    NoAwait \notin Awaits /\ Place \in [Awaits -> Seq(Kinds)] /\ MaxDepth \in Nat

VARIABLES
    stack,   \* the sequences that are being run, innermost last
    phase,   \* what the innermost one does
    state,   \* SHContext::state
    worker,  \* the state of the context that each Await keeps for its worker
    await,   \* the Await whose shards a worker runs, or NoAwait
    ran,     \* the Awaits that ran since a loop around them went round
    stopped, \* SHContext::onLastResume
    revived, \* history: an Await overwrote the state of a stopped wire
    result   \* how the wire ended

vars == <<stack, phase, state, worker, await, ran, stopped, revived, result>>

Top == stack[Len(stack)]
Below == SubSeq(stack, 1, Len(stack) - 1)
OnWorker == await # NoAwait /\ phase # "complete"

\* The state of the context that the innermost sequence is run with.
Cur == IF OnWorker THEN worker[await] ELSE state
SetCur(s) == IF OnWorker THEN worker' = [worker EXCEPT ![await] = s] /\ UNCHANGED state
                         ELSE state' = s /\ UNCHANGED worker
KeepCur == UNCHANGED <<state, worker>>

Init ==
    /\ stack = <<"wire">> /\ phase = "between" /\ state = "Continue"
    /\ worker = [a \in Awaits |-> "Continue"] /\ await = NoAwait /\ ran = {}
    /\ stopped = FALSE /\ revived = FALSE /\ result = "none"

Runs == phase = "next" /\ UNCHANGED <<await, ran, stopped, revived, result>>
-----------------------------------------------------------------------------
(***************************************************************************)
(* The next shard of the innermost sequence.                               *)
(***************************************************************************)
\* A shard that returns; And, Or, Return, Restart, Stop, Fail and those that
\* throw change the state.
Shard(s) ==
    /\ Runs
    /\ IF s = "Continue" THEN KeepCur ELSE SetCur(s)
    /\ phase' = "after"
    /\ UNCHANGED stack

\* A suspension, in the coroutine that stop() resumed for the last time too;
\* stop() then drops it as it is.
Suspended(p) == phase' = IF stopped THEN "dropped" ELSE p

Suspend ==
    /\ Runs /\ ~OnWorker
    /\ Suspended("suspended")
    /\ UNCHANGED stack /\ KeepCur

\* A shard with shards of its own.
Enter(k) ==
    /\ Runs /\ Len(stack) < MaxDepth
    /\ stack' = Append(stack, k)
    /\ UNCHANGED phase /\ KeepCur

\* Await::activate; an Await inside of an Await runs its shards in place.
EnterAwait(a) ==
    /\ phase = "next" /\ await = NoAwait /\ stack = Place[a] /\ a \notin ran
    /\ Len(stack) <= MaxDepth
    /\ stack' = Append(stack, "await") /\ await' = a /\ ran' = ran \cup {a}
    /\ UNCHANGED <<phase, stopped, revived, result>> /\ KeepCur

-----------------------------------------------------------------------------
(***************************************************************************)
(* The mesh: it resumes the wire, or stops it.  A shard that was suspended *)
(* returns, or throws.                                                     *)
(***************************************************************************)
Resume ==
    /\ \/ phase = "suspended" /\ phase' = "after"
       \/ phase = "between" /\ phase' = "next"
    /\ UNCHANGED <<stack, await, ran, stopped, revived, result>> /\ KeepCur

StopWire ==
    /\ ~stopped /\ stopped' = TRUE
    /\ \/ phase = "suspended" /\ phase' = "after" /\ state' \in {"Stop", "Error"} /\ UNCHANGED <<stack, result>>
       \/ phase = "between" /\ Top = "loop" /\ stack' = Below /\ phase' = "after" /\ state' = "Stop"
          /\ UNCHANGED result
       \/ phase = "between" /\ Top = "wire" /\ phase' = "ended" /\ state' = "Stop" /\ result' = "stopped"
          /\ UNCHANGED stack
       \/ await # NoAwait /\ state' = "Stop" /\ UNCHANGED <<stack, phase, result>>
    /\ UNCHANGED <<worker, await, ran, revived>>

-----------------------------------------------------------------------------
(***************************************************************************)
(* shardsActivation after a shard, and its return.                         *)
(***************************************************************************)
Goes == phase = "after" /\ Cur \in {"Continue", "Rebase"}

\* Mutant: a Rebase goes on without continueFlow().
Aftermath_Rebased ==
    /\ Goes
    /\ KeepCur /\ phase' = "next"
    /\ UNCHANGED <<stack, await, ran, stopped, revived, result>>

Aftermath ==
    /\ Goes
    /\ SetCur("Continue") /\ phase' = "next"
    /\ UNCHANGED <<stack, await, ran, stopped, revived, result>>

\* The sequence in k returns r, the state that ended it or Continue.
Returned(k, r) ==
    /\ Top = k
    /\ \/ phase = "next" /\ r = "Continue"
       \/ phase = "after" /\ Cur \in Signals /\ r = Cur

Pop == stack' = Below /\ phase' = "after" /\ UNCHANGED ran
Then(k) == stack' = Append(Below, k) /\ phase' = "next" /\ UNCHANGED ran

\* A loop, or the wire, goes round: the Awaits in its sequences, which are in
\* ks, may run again.
Around(ks) == ran' = ran \ {a \in ran : /\ Len(Place[a]) >= Len(stack)
                                       /\ SubSeq(Place[a], 1, Len(stack) - 1) = Below
                                       /\ Place[a][Len(stack)] \in ks}
Again(ks, k) == stack' = Append(Below, k) /\ phase' = "next" /\ Around(ks)
Ends(k, r) == Returned(k, r) /\ UNCHANGED <<await, stopped, revived, result>>

\* Predicates and the bodies of loops do not pass a Return on (activate<true>).
Caught(r) == IF r = "Return" THEN SetCur("Continue") ELSE KeepCur

\* If, When, Cond: the action is run whether And, Or returned or not.
EndPredicate(r) ==
    /\ Ends("pred", r) /\ Caught(r)
    /\ Pop \/ (r \in {"Continue", "Return"} /\ Then("action"))

EndAction(r) ==
    /\ Ends("action", r) \/ Ends("else", r)
    /\ Pop /\ KeepCur

\* Mutants: without the look at onLastResume; for every signal.
EndMaybe_Unguarded(r) ==
    /\ Ends("body", r)
    /\ IF r = "Error" THEN SetCur("Continue") /\ (Pop \/ Then("else")) ELSE KeepCur /\ Pop

EndMaybe_Any(r) ==
    /\ Ends("body", r)
    /\ IF r # "Continue" THEN SetCur("Continue") /\ (Pop \/ Then("else")) ELSE KeepCur /\ Pop

EndMaybe(r) ==
    /\ Ends("body", r)
    /\ IF r = "Error" /\ (OnWorker \/ ~stopped)
       THEN SetCur("Continue") /\ (Pop \/ Then("else"))
       ELSE KeepCur /\ Pop

EndEach(r) ==
    /\ Ends("each", r) /\ Caught(r)
    /\ Pop \/ (r = "Continue" /\ Again({"each"}, "each"))

EndUntil(r) ==
    /\ Ends("until", r) /\ Caught(r)
    /\ Pop \/ (r \in {"Continue", "Return"} /\ Then("turn"))

\* Mutant: only a Return breaks the loop.
EndTurn_RunsOn(r) ==
    /\ Ends("turn", r) /\ Caught(r)
    /\ IF r # "Return" THEN Again({"until", "turn"}, "until") ELSE Pop

EndTurn(r) ==
    /\ Ends("turn", r) /\ Caught(r)
    /\ IF r = "Continue" THEN Again({"until", "turn"}, "until") ELSE Pop

\* Do of a wire, and of a looped wire, which suspends after each iteration; a
\* worker cannot, and fails.
EndDo(r) == Ends("do", r) /\ Caught(r) /\ Pop

EndLoop(r) ==
    /\ Ends("loop", r)
    /\ CASE r = "Restart" \/ Cur = "Continue" ->
              IF OnWorker THEN SetCur("Error") /\ Pop
              ELSE SetCur("Continue") /\ Suspended("between") /\ UNCHANGED stack /\ Around({"loop"})
         [] r = "Error" -> SetCur("Stop") /\ Pop
         [] OTHER -> Caught(r) /\ Pop

\* The worker is done; awaitne returns, and what happened is copied.
EndCall(r) ==
    /\ Ends("await", r) /\ KeepCur
    /\ phase' = "complete" /\ UNCHANGED <<stack, ran>>

Collect ==
    /\ phase = "complete"
    /\ Pop /\ await' = NoAwait
    /\ state' = IF worker[await] = "Continue" THEN state ELSE worker[await]
    /\ revived' = (revived \/ (stopped /\ worker[await] \in {"Return", "Restart"}))
    /\ UNCHANGED <<worker, stopped, result>>

\* runWire in run(): the wire ends, or suspends before its next iteration.
Over(how) == phase' = "ended" /\ result' = how /\ KeepCur /\ UNCHANGED ran

EndWire(r) ==
    /\ Returned("wire", r) /\ UNCHANGED <<stack, await, stopped, revived>>
    /\ \/ r = "Error" /\ Over("failed")
       \/ r \in {"Stop", "Return"} /\ Over("stopped")
       \/ r = "Continue" /\ Over("done")
       \/ r \in {"Continue", "Restart"} /\ SetCur("Continue") /\ Suspended("between") /\ UNCHANGED result /\ Around({"wire"})

Unwinds == \E r \in States :
    \/ EndPredicate(r) \/ EndAction(r) \/ EndMaybe(r) \/ EndEach(r) \/ EndUntil(r)
    \/ EndTurn(r) \/ EndDo(r) \/ EndLoop(r) \/ EndCall(r) \/ EndWire(r)

Next ==
    \/ \E s \in States : Shard(s)
    \/ Suspend \/ \E k \in {"action", "pred", "body", "each", "until", "do", "loop"} : Enter(k)
    \/ \E a \in Awaits : EnterAwait(a)
    \/ Resume \/ StopWire \/ Aftermath \/ Unwinds \/ Collect

Spec == Init /\ [][Next]_vars

\* The thread of the mesh goes on with what a stop() has resumed.
FairSpec == Spec /\ WF_vars(phase = "after" /\ ~OnWorker /\ Unwinds) /\ WF_vars(Collect)
-----------------------------------------------------------------------------
\* The wire is the outermost sequence; a worker has the innermost ones only
\* above an Await; the thread of the wire goes on to a shard, or suspends,
\* only in the state Continue.
TypeOK ==
    /\ stack \in Seq(Kinds) /\ Len(stack) \in 1..(MaxDepth + 1) /\ stack[1] = "wire"
    /\ phase \in {"next", "after", "suspended", "between", "complete", "ended", "dropped"}
    /\ state \in States /\ worker \in [Awaits -> States]
    /\ await \in Awaits \cup {NoAwait}
    /\ stopped \in BOOLEAN /\ revived \in BOOLEAN
    /\ result \in {"none", "failed", "stopped", "done"}
    /\ (await # NoAwait) <=> (\E i \in DOMAIN stack : stack[i] = "await")
    /\ phase = "between" => Top \in {"wire", "loop"}
    /\ phase \in {"next", "suspended", "between"} /\ ~OnWorker => state = "Continue"

\* A wire that was stopped activates no further shard and does not suspend
\* again, whatever Maybe, loops and sub-wires make of the state, but for what
\* an Await copies over the Stop.
StoppedStaysStopped ==
    stopped /\ ~revived /\ ~OnWorker => phase \notin {"next", "suspended", "between", "dropped"}

\* The innermost frame that a signal is for.
Catches(k, s) ==
    \/ k \in {"wire", "await"}
    \/ s = "Return" /\ k \in {"pred", "each", "until", "turn", "do", "loop"}
    \/ s = "Error" /\ (k = "loop" \/ (k = "body" /\ (OnWorker \/ ~stopped)))
    \/ s = "Restart" /\ k = "loop"
Pending == phase = "after" /\ Cur \in Signals

\* A signal gets to the innermost sequence that it is for, as it was sent: on
\* its way sequences are only left, and none is entered or run again.
SignalsAreCaught == [][
    Pending => \/ Catches(Top, Cur)
               \/ Pending' /\ Cur' = Cur /\ stack' \in {stack, Below}]_vars

\* A wire that was stopped ends, and cleans up, unless it was revived.
StoppedEnds == (stopped /\ (~OnWorker \/ phase = "complete")) ~> (phase = "ended" \/ revived)

\* Also on a worker no shard is activated, and none returns, in another state
\* than Continue.
WorkerContinues == OnWorker /\ phase = "next" => Cur = "Continue"
=============================================================================
