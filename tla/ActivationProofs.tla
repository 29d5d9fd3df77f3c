-------------------------- MODULE ActivationProofs --------------------------
(***************************************************************************)
(* Proofs about Activation, for any depth and any number of Awaits: type   *)
(* correctness, that a wire that was stopped stays so, and where signals   *)
(* are caught.  The inductive invariant says what the stack of sequences   *)
(* looks like and which state its contexts may be in.                      *)
(***************************************************************************)
EXTENDS Activation, TLAPS

\* One wire, outermost, and at most one Await, that whose shards are run.
Frames ==
    /\ stack \in Seq(Kinds) /\ Len(stack) \in 1..(MaxDepth + 1) /\ stack[1] = "wire"
    /\ \A i \in 2..Len(stack) : stack[i] # "wire"
    /\ \A i, j \in 1..Len(stack) : stack[i] = "await" /\ stack[j] = "await" => i = j
    /\ (await # NoAwait) <=> (\E i \in 1..Len(stack) : stack[i] = "await")

Scalars ==
    /\ phase \in {"next", "after", "suspended", "between", "complete", "ended", "dropped"}
    /\ state \in States /\ worker \in [Awaits -> States]
    /\ await \in Awaits \cup {NoAwait} /\ ran \subseteq Awaits
    /\ stopped \in BOOLEAN /\ revived \in BOOLEAN
    /\ result \in {"none", "failed", "stopped", "done"}

\* Where the contexts are in which state.
Contexts ==
    /\ phase = "complete" => await # NoAwait /\ Top = "await"
    /\ phase \in {"between", "suspended"} => await = NoAwait
    /\ phase = "between" => Top \in {"wire", "loop"}
    /\ phase \in {"next", "suspended", "between"} /\ ~OnWorker => state = "Continue"
    /\ OnWorker /\ ~stopped => state = "Continue"
    /\ \A a \in Awaits : worker[a] = "Rebase" => OnWorker /\ await = a /\ phase = "after"

\* The state of a wire that was stopped, until its sequences are left.
StopState == stopped /\ ~revived => /\ state \in {"Stop", "Error"}
                                    /\ OnWorker \/ phase \in {"after", "complete", "ended"}

Inv == Frames /\ Scalars /\ Contexts /\ StopState

\* Taking the last element off a sequence.
LEMMA FrontOf ==
    ASSUME NEW S, NEW q \in Seq(S), Len(q) > 1
    PROVE  LET r == SubSeq(q, 1, Len(q) - 1) IN
           /\ r \in Seq(S) /\ Len(r) = Len(q) - 1
           /\ \A i \in 1..(Len(q) - 1) : r[i] = q[i]
  OBVIOUS

\* Replacing the last element of a sequence.
LEMMA ReplaceOf ==
    ASSUME NEW S, NEW q \in Seq(S), Len(q) > 1, NEW k \in S
    PROVE  LET r == Append(SubSeq(q, 1, Len(q) - 1), k) IN
           /\ r \in Seq(S) /\ Len(r) = Len(q) /\ r[Len(q)] = k
           /\ \A i \in 1..(Len(q) - 1) : r[i] = q[i]
  BY FrontOf

\* Adding an element to a sequence.
LEMMA PushOf ==
    ASSUME NEW S, NEW q \in Seq(S), NEW k \in S
    PROVE  LET r == Append(q, k) IN
           /\ r \in Seq(S) /\ Len(r) = Len(q) + 1 /\ r[Len(q) + 1] = k
           /\ \A i \in 1..Len(q) : r[i] = q[i]
  OBVIOUS

\* A sequence that is not that of the wire, nor of an Await, is left.
LEMMA PopFrames ==
    ASSUME Frames, Top \notin {"wire", "await"}, stack' = Below, UNCHANGED await
    PROVE  Frames'
<1>1. stack \in Seq(Kinds) /\ Len(stack) \in Nat /\ Len(stack) > 1 /\ Len(stack) <= MaxDepth + 1
  BY DEF Frames, Top
<1>2. /\ stack' \in Seq(Kinds) /\ Len(stack') = Len(stack) - 1
      /\ \A i \in 1..(Len(stack) - 1) : stack'[i] = stack[i]
  BY <1>1, FrontOf, Zenon DEF Below
<1>3. stack[1] = "wire" /\ (\A i \in 2..Len(stack) : stack[i] # "wire")
      /\ (\A i, j \in 1..Len(stack) : stack[i] = "await" /\ stack[j] = "await" => i = j)
  BY DEF Frames
<1>4. Len(stack') \in 1..(MaxDepth + 1) /\ stack'[1] = "wire"
  BY <1>1, <1>2, <1>3, ActivationAssumption
<1>5. \A i \in 2..Len(stack') : stack'[i] # "wire"
  BY <1>1, <1>2, <1>3
<1>6. \A i, j \in 1..Len(stack') : stack'[i] = "await" /\ stack'[j] = "await" => i = j
  BY <1>1, <1>2, <1>3
<1>7. (await' # NoAwait) <=> (\E i \in 1..Len(stack') : stack'[i] = "await")
  <2>1. (await # NoAwait) <=> (\E i \in 1..Len(stack) : stack[i] = "await") BY DEF Frames
  <2>2. stack[Len(stack)] # "await" BY DEF Top
  <2> QED BY <1>1, <1>2, <2>1, <2>2
<1> QED BY <1>2, <1>4, <1>5, <1>6, <1>7 DEF Frames

\* The sequence of an Await is left.
LEMMA PopAwait ==
    ASSUME Frames, Top = "await", stack' = Below, await' = NoAwait
    PROVE  Frames'
<1>1. stack \in Seq(Kinds) /\ Len(stack) \in Nat /\ Len(stack) > 1 /\ Len(stack) <= MaxDepth + 1
  BY DEF Frames, Top
<1>2. /\ stack' \in Seq(Kinds) /\ Len(stack') = Len(stack) - 1
      /\ \A i \in 1..(Len(stack) - 1) : stack'[i] = stack[i]
  BY <1>1, FrontOf, Zenon DEF Below
<1>3. stack[1] = "wire" /\ (\A i \in 2..Len(stack) : stack[i] # "wire")
      /\ (\A i, j \in 1..Len(stack) : stack[i] = "await" /\ stack[j] = "await" => i = j)
  BY DEF Frames
<1>4. Len(stack') \in 1..(MaxDepth + 1) /\ stack'[1] = "wire"
  BY <1>1, <1>2, <1>3, ActivationAssumption
<1>5. \A i \in 2..Len(stack') : stack'[i] # "wire"
  BY <1>1, <1>2, <1>3
<1>6. \A i, j \in 1..Len(stack') : stack'[i] = "await" /\ stack'[j] = "await" => i = j
  BY <1>1, <1>2, <1>3
<1>7. (await' # NoAwait) <=> (\E i \in 1..Len(stack') : stack'[i] = "await")
  <2>1. stack[Len(stack)] = "await" BY DEF Top
  <2> QED BY <1>1, <1>2, <1>3, <2>1
<1> QED BY <1>2, <1>4, <1>5, <1>6, <1>7 DEF Frames

\* One sequence follows another.
LEMMA SwapFrames ==
    ASSUME Frames, Top \notin {"wire", "await"}, NEW k \in Kinds \ {"wire", "await"},
           stack' = Append(Below, k), UNCHANGED await
    PROVE  Frames'
<1>1. Len(stack) > 1 BY DEF Frames, Top
<1> QED BY <1>1, ReplaceOf DEF Frames, Top, Below

\* Initially only the wire is on the stack.
LEMMA InitInv == Init => Inv
<1> SUFFICES ASSUME Init PROVE Inv OBVIOUS
<1>1. Frames
  <2>1. stack = <<"wire">> /\ Len(stack) = 1 /\ stack[1] = "wire" /\ await = NoAwait BY DEF Init
  <2>2. stack \in Seq(Kinds) BY <2>1 DEF Kinds
  <2> QED BY <2>1, <2>2, ActivationAssumption DEF Frames
<1>2. Scalars
  BY ActivationAssumption DEF Init, Scalars, States
<1>3. Contexts /\ StopState
  BY ActivationAssumption DEF Init, Contexts, StopState, Top, OnWorker
<1> QED BY <1>1, <1>2, <1>3 DEF Inv

\* A shard without shards of its own preserves Inv, and so does a suspension.
LEMMA ShardInv ==
    ASSUME Inv, (\E s \in States : Shard(s)) \/ Suspend
    PROVE  Inv'
<1> USE ActivationAssumption DEF Runs, SetCur, KeepCur, Cur, OnWorker, Suspended, States
<1>1. Frames'
  BY DEF Inv, Frames, Shard, Suspend
<1>2. Scalars'
  BY DEF Inv, Scalars, Shard, Suspend
<1>3. Contexts'
  BY DEF Inv, Scalars, Contexts, StopState, Shard, Suspend, Top
<1>4. StopState'
  BY DEF Inv, Scalars, StopState, Contexts, Shard, Suspend
<1> QED BY <1>1, <1>2, <1>3, <1>4 DEF Inv

\* So does entering a sequence.
LEMMA EnterInv ==
    ASSUME Inv, (\E k \in {"action", "pred", "body", "each", "until", "do", "loop"} : Enter(k))
                  \/ \E a \in Awaits : EnterAwait(a)
    PROVE  Inv'
<1> USE ActivationAssumption DEF Runs, KeepCur, OnWorker, States
<1>1. ASSUME NEW k \in {"action", "pred", "body", "each", "until", "do", "loop"}, Enter(k)
      PROVE  Inv'
  <2>1. Frames'
    <3>1. k \in Kinds \ {"wire", "await"} BY DEF Kinds
    <3> QED BY <1>1, <3>1, PushOf DEF Inv, Frames, Enter
  <2>2. Scalars' /\ Contexts' /\ StopState'
    BY <1>1 DEF Inv, Scalars, Contexts, StopState, Enter
  <2> QED BY <2>1, <2>2 DEF Inv
<1>2. ASSUME NEW a \in Awaits, EnterAwait(a)
      PROVE  Inv'
  <2>1. Frames'
    <3>1. "await" \in Kinds BY DEF Kinds
    <3>2. stack \in Seq(Kinds) /\ Len(stack) \in 1..(MaxDepth + 1) /\ stack[1] = "wire"
          /\ (\A i \in 2..Len(stack) : stack[i] # "wire")
          /\ (\A i \in 1..Len(stack) : stack[i] # "await")
      BY <1>2 DEF Inv, Frames, EnterAwait
    <3>3. stack' = Append(stack, "await") /\ await' # NoAwait BY <1>2 DEF EnterAwait
    <3>4. /\ stack' \in Seq(Kinds) /\ Len(stack') = Len(stack) + 1 /\ stack'[Len(stack) + 1] = "await"
          /\ \A i \in 1..Len(stack) : stack'[i] = stack[i]
      BY <3>1, <3>2, <3>3, PushOf
    <3>5. Len(stack') \in 1..(MaxDepth + 1)
      <4>1. Len(stack) <= MaxDepth BY <1>2 DEF EnterAwait
      <4> QED BY <3>2, <3>4, <4>1
    <3> QED BY <3>2, <3>3, <3>4, <3>5 DEF Frames
  <2>2. Scalars' /\ Contexts' /\ StopState'
    BY <1>2 DEF Inv, Scalars, Contexts, StopState, EnterAwait
  <2> QED BY <2>1, <2>2 DEF Inv
<1> QED BY <1>1, <1>2

\* So do the steps of the mesh.
LEMMA MeshInv ==
    ASSUME Inv, Resume \/ StopWire
    PROVE  Inv'
<1> USE DEF KeepCur, OnWorker, States
<1>1. CASE Resume
  BY <1>1 DEF Inv, Frames, Scalars, Contexts, StopState, Resume, Top
<1>2. CASE StopWire
  <2>1. Scalars'
    BY <1>2 DEF Inv, Scalars, StopWire
  <2>2. Frames' /\ Contexts'
    <3>1. CASE Top = "loop" /\ stack' = Below
      <4>1. Frames' BY <1>2, <3>1, PopFrames DEF Inv, StopWire
      <4>2. Contexts' BY <1>2, <3>1 DEF Inv, Scalars, Contexts, StopWire, Top
      <4> QED BY <4>1, <4>2
    <3>2. CASE UNCHANGED stack
      BY <1>2, <3>2 DEF Inv, Frames, Scalars, Contexts, StopWire, Top
    <3> QED BY <1>2, <3>1, <3>2 DEF StopWire
  <2>3. StopState'
    BY <1>2 DEF Inv, Scalars, Contexts, StopState, StopWire
  <2> QED BY <2>1, <2>2, <2>3 DEF Inv
<1> QED BY <1>1, <1>2

\* So does going on to the next shard.
LEMMA AftermathInv ==
    ASSUME Inv, Aftermath
    PROVE  Inv'
<1> USE ActivationAssumption DEF Goes, SetCur, Cur, OnWorker, States
<1>1. Frames'
  BY DEF Inv, Frames, Aftermath
<1>0. Scalars'
  BY DEF Inv, Scalars, Aftermath
<1>2. Contexts' /\ StopState'
  BY DEF Inv, Scalars, Contexts, StopState, Aftermath, Top
<1> QED BY <1>0, <1>1, <1>2 DEF Inv

\* So does leaving a sequence that an If, Maybe, loop or sub-wire runs: the
\* state is kept on the way out, or is set to Continue by what catches it.
LEMMA LeaveInv ==
    ASSUME Inv, NEW r \in States,
           EndPredicate(r) \/ EndAction(r) \/ EndMaybe(r) \/ EndEach(r) \/ EndUntil(r)
             \/ EndTurn(r) \/ EndDo(r)
    PROVE  Inv'
<1> USE ActivationAssumption DEF SetCur, KeepCur, Cur, OnWorker, States, Signals
<1> DEFINE Swaps == {"action", "else", "each", "turn", "until"}
<1>1. /\ Top \in {"pred", "action", "else", "body", "each", "until", "turn", "do"}
      /\ UNCHANGED <<await, stopped, revived, result>> /\ ran' \subseteq ran
      /\ \/ phase = "next" /\ r = "Continue"
         \/ phase = "after" /\ Cur \in Signals /\ r = Cur
  BY DEF EndPredicate, EndAction, EndMaybe, EndEach, EndUntil, EndTurn, EndDo, Ends, Returned, Pop,
     Then, Again, Around
<1>2. \/ stack' = Below /\ phase' = "after"
      \/ \E k \in Swaps : stack' = Append(Below, k) /\ phase' = "next"
  BY DEF EndPredicate, EndAction, EndMaybe, EndEach, EndUntil, EndTurn, EndDo, Pop, Then, Again
<1>3. \/ KeepCur /\ (phase' = "after" \/ phase = "next")
      \/ SetCur("Continue") /\ (r = "Return" \/ (r = "Error" /\ (OnWorker \/ ~stopped)))
  BY <1>1 DEF EndPredicate, EndAction, EndMaybe, EndEach, EndUntil, EndTurn, EndDo, Pop, Then, Again,
     Caught
<1>4. Frames'
  <2>1. CASE stack' = Below
    BY <1>1, <2>1, PopFrames DEF Inv
  <2>2. CASE \E k \in Swaps : stack' = Append(Below, k)
    <3>1. Swaps \subseteq Kinds \ {"wire", "await"} BY DEF Kinds
    <3> QED BY <1>1, <2>2, <3>1, SwapFrames DEF Inv
  <2> QED BY <1>2, <2>1, <2>2
<1>5. Scalars'
  BY <1>1, <1>2, <1>3 DEF Inv, Scalars
<1>6. Contexts'
  BY <1>1, <1>2, <1>3 DEF Inv, Scalars, Contexts
<1>7. StopState'
  BY <1>1, <1>2, <1>3 DEF Inv, Scalars, Contexts, StopState
<1> QED BY <1>4, <1>5, <1>6, <1>7 DEF Inv

\* So does the end of an iteration of a looped sub-wire.
LEMMA LoopInv ==
    ASSUME Inv, NEW r \in States, EndLoop(r)
    PROVE  Inv'
<1> USE ActivationAssumption DEF SetCur, KeepCur, Cur, OnWorker, States, Signals
<1>1. /\ Top = "loop" /\ UNCHANGED <<await, stopped, revived, result>> /\ ran' \subseteq ran
      /\ \/ phase = "next" /\ r = "Continue"
         \/ phase = "after" /\ Cur \in Signals /\ r = Cur
  BY DEF EndLoop, Ends, Returned, Pop, Around
<1>2. \/ stack' = Below /\ phase' = "after" /\ (KeepCur \/ \E s \in {"Continue", "Stop", "Error"} : SetCur(s))
      \/ /\ UNCHANGED stack /\ ~OnWorker /\ SetCur("Continue") /\ (r = "Restart" \/ Cur = "Continue")
         /\ phase' = IF stopped THEN "dropped" ELSE "between"
  BY DEF EndLoop, Pop, Suspended, Caught
<1>3. /\ OnWorker => UNCHANGED state /\ phase' = "after"
      /\ ~OnWorker /\ state \in {"Stop", "Error"} => state' \in {"Stop", "Error"} /\ phase' = "after"
  BY <1>1 DEF EndLoop, Pop, Suspended, Caught
<1>4. Frames'
  <2>1. CASE stack' = Below BY <1>1, <2>1, PopFrames DEF Inv
  <2>2. CASE UNCHANGED stack BY <1>1, <2>2 DEF Inv, Frames
  <2> QED BY <1>2, <2>1, <2>2
<1>5. Scalars'
  BY <1>1, <1>2 DEF Inv, Scalars
<1>6. Contexts'
  BY <1>1, <1>2 DEF Inv, Scalars, Contexts, Top
<1>7. StopState'
  BY <1>1, <1>2, <1>3 DEF Inv, Scalars, Contexts, StopState
<1> QED BY <1>4, <1>5, <1>6, <1>7 DEF Inv

\* So does the end of the shards of an Await, and of its call.
LEMMA AwaitInv ==
    ASSUME Inv, Collect \/ \E r \in States : EndCall(r)
    PROVE  Inv'
<1> USE ActivationAssumption DEF KeepCur, Cur, OnWorker, States, Signals
<1>1. CASE Collect
  <2>1. Frames'
    BY <1>1, PopAwait DEF Inv, Contexts, Collect, Pop
  <2>2. Scalars' /\ Contexts' /\ StopState'
    BY <1>1 DEF Inv, Scalars, Contexts, StopState, Collect, Pop
  <2> QED BY <2>1, <2>2 DEF Inv
<1>2. ASSUME NEW r \in States, EndCall(r)
      PROVE  Inv'
  <2>1. Top = "await" /\ Len(stack) \in 1..Len(stack)
    BY <1>2 DEF EndCall, Ends, Returned, Inv, Frames
  <2>2. await # NoAwait
    BY <2>1 DEF Inv, Frames, Top
  <2>3. Frames' /\ Scalars'
    BY <1>2 DEF EndCall, Ends, Inv, Frames, Scalars
  <2>4. Contexts' /\ StopState'
    BY <1>2, <2>1, <2>2 DEF EndCall, Ends, Returned, Inv, Scalars, Contexts, StopState, Top
  <2> QED BY <2>3, <2>4 DEF Inv
<1> QED BY <1>1, <1>2

\* So does the end of an iteration of the wire.
LEMMA WireInv ==
    ASSUME Inv, NEW r \in States, EndWire(r)
    PROVE  Inv'
<1> USE ActivationAssumption DEF SetCur, KeepCur, Cur, OnWorker, States, Signals
<1>1. await = NoAwait
  <2>1. Len(stack) \in 1..(MaxDepth + 1) /\ stack[Len(stack)] = "wire"
        /\ \A i \in 2..Len(stack) : stack[i] # "wire"
    <3>1. Top = "wire" BY DEF EndWire, Returned
    <3> QED BY <3>1 DEF Top, Inv, Frames
  <2>2. Len(stack) = 1
    <3>1. Len(stack) \in Nat /\ Len(stack) >= 1 BY <2>1 DEF ActivationAssumption
    <3>2. Len(stack) \notin 2..Len(stack) BY <2>1
    <3>3. \A n \in Nat : n >= 1 /\ n \notin 2..n => n = 1 OBVIOUS
    <3> QED BY <3>1, <3>2, <3>3, Zenon
  <2> QED BY <2>1, <2>2 DEF Inv, Frames
<1>2. Frames'
  BY DEF EndWire, Inv, Frames
<1>4. Scalars'
  BY DEF EndWire, Over, Around, Suspended, Inv, Scalars
<1>3. Contexts' /\ StopState'
  BY <1>1 DEF EndWire, Returned, Over, Suspended, Inv, Scalars, Contexts, StopState, Top
<1> QED BY <1>2, <1>3, <1>4 DEF Inv

\* Inv is inductive.
LEMMA NextInv == Inv /\ [Next]_vars => Inv'
<1> SUFFICES ASSUME Inv, [Next]_vars PROVE Inv' OBVIOUS
<1>1. CASE UNCHANGED vars
  BY <1>1 DEF vars, Inv, Frames, Scalars, Contexts, StopState, Top, OnWorker
<1>2. CASE Unwinds
  BY <1>2, LeaveInv, LoopInv, AwaitInv, WireInv DEF Unwinds
<1>3. CASE Next /\ ~Unwinds
  BY <1>3, ShardInv, EnterInv, MeshInv, AftermathInv, AwaitInv DEF Next
<1> QED BY <1>1, <1>2, <1>3

\* Inv holds in every state of every behaviour.
LEMMA Invariant == Spec => []Inv
  BY InitInv, NextInv, PTL DEF Spec

\* The stack and the states of the contexts are as TypeOK says, the state of
\* the wire's own context Continue whenever a shard is activated or suspends
\* (runtime.cpp 685-770).
THEOREM TypeCorrect == Spec => []TypeOK
<1>1. Inv => TypeOK
  BY DEF Inv, Frames, Scalars, Contexts, TypeOK
<1> QED BY <1>1, Invariant, PTL

\* No Maybe, loop, predicate or sub-wire lets a wire go on that was stopped,
\* but for one whose Await overwrote the stop (flow.hpp 420-445, 557-565).
THEOREM StoppedCorrect == Spec => []StoppedStaysStopped
<1>1. Inv => StoppedStaysStopped
  BY DEF Inv, StopState, StoppedStaysStopped
<1> QED BY <1>1, Invariant, PTL

\* Every signal reaches the innermost sequence it is for, unchanged
\* (runtime.cpp 741-762, flow.hpp, wires.hpp 444-520).
THEOREM SignalsCorrect == Spec => SignalsAreCaught
<1> DEFINE A == Pending => \/ Catches(Top, Cur)
                           \/ Pending' /\ Cur' = Cur /\ stack' \in {stack, Below}
<1>1. Inv /\ [Next]_vars => [A]_vars
  <2> SUFFICES ASSUME Inv, Next, Pending, ~Catches(Top, Cur)
               PROVE  Pending' /\ Cur' = Cur /\ stack' \in {stack, Below}
    BY DEF vars
  <2> USE ActivationAssumption DEF Pending, Cur, OnWorker, Signals, States, KeepCur
  <2>1. CASE \E s \in States : Shard(s)
    BY <2>1 DEF Shard, Runs
  <2>2. CASE Suspend \/ (\E k \in {"action", "pred", "body", "each", "until", "do", "loop"} : Enter(k))
               \/ (\E a \in Awaits : EnterAwait(a)) \/ Resume \/ Aftermath \/ Collect
    BY <2>2 DEF Suspend, Enter, EnterAwait, Runs, Resume, Aftermath, Goes, Collect
  <2>3. CASE StopWire
    BY <2>3 DEF StopWire
  <2>4. ASSUME NEW r \in States, EndPredicate(r) \/ EndAction(r) \/ EndMaybe(r) \/ EndEach(r)
                 \/ EndUntil(r) \/ EndTurn(r) \/ EndDo(r)
        PROVE  Pending' /\ Cur' = Cur /\ stack' \in {stack, Below}
    BY <2>4 DEF EndPredicate, EndAction, EndMaybe, EndEach, EndUntil, EndTurn, EndDo, Ends, Returned,
       Caught, Pop, Then, Again, Catches
  <2>5. ASSUME NEW r \in States, EndLoop(r) \/ EndCall(r) \/ EndWire(r)
        PROVE  Pending' /\ Cur' = Cur /\ stack' \in {stack, Below}
    BY <2>5 DEF EndLoop, EndCall, EndWire, Ends, Returned, Caught, Pop, Catches
  <2> QED BY <2>1, <2>2, <2>3, <2>4, <2>5 DEF Next, Unwinds
<1>2. Spec => [][A]_vars
  BY <1>1, Invariant, PTL DEF Spec
<1> QED BY <1>2 DEF SignalsAreCaught
=============================================================================
