------------------------------ MODULE ManyProofs ------------------------------
(***************************************************************************)
(* A parallel shard answers by its policy, for any number of inputs,       *)
(* workers and copies: Many implements ManyResult.  And the pool loses no  *)
(* copy, gives none to two tasks and never counts beyond its bound.        *)
(***************************************************************************)
EXTENDS Many, FiniteSetTheorems, TLAPS

\* The inputs are counted from one.
LEMMA ItemsAreCounted ==
    /\ Items \subseteq Nat \ {0}
    /\ \A len \in Items : 1..len \subseteq Items
BY ManyAssumption, FS_CardinalityType

Points == {"none", "queued", "run", "won", "lost", "raise", "stop", "early", "done"}

\* A task that has written whether its copy succeeded.
Written(i) == task[i] \in {"raise", "stop", "done"}

\* What the tasks, the successes and the caller have to do with each other.
Tasks ==
    /\ policy \in Policies
    /\ caller \in {"idle", "wait", "get", "interrupted"}
    /\ task \in [Items -> Points]
    /\ successes \subseteq {i \in Items : Written(i)}
    /\ \A i \in Items : task[i] = "raise" => i \in successes
    /\ caller = "idle" <=> Asked = {}

\* The least element of a set of indices is one of them.
LEMMA MinIsThere ==
    ASSUME NEW S \in SUBSET Nat, S # {}
    PROVE  Min(S) \in S
<1>1. IsWellFoundedOn(OpToRel(<, Nat), Nat)
  BY NatLessThanWellFounded
<1>2. PICK x \in S : \A y \in S : ~ (<<y, x>> \in OpToRel(<, Nat))
  BY <1>1, WFMin
<1>3. \A y \in S : ~(y < x)
  BY <1>2 DEF OpToRel
<1>4. \A y \in S : x <= y
  BY <1>3
<1> QED
  BY <1>4 DEF Min

\* The invariant the refinement rests on holds at the start.
LEMMA InitTasks == Init => Tasks
BY DEF Init, Tasks, Asked, Written, Points, Policies

\* A task that only moves on keeps it.
LEMMA MoveTasks ==
    ASSUME Tasks, NEW i \in Items, NEW p \in Points \ {"none"}, task[i] # "none",
           task' = [task EXCEPT ![i] = p], Written(i) => p \in {"stop", "done"},
           successes \subseteq successes', successes' \subseteq successes \cup {i},
           i \in successes' => p \in {"raise", "stop", "done"}, p = "raise" => i \in successes',
           UNCHANGED <<policy, caller>>
    PROVE  Tasks'
<1>1. task' \in [Items -> Points]
  BY DEF Tasks
<1>2. \A j \in Items : j # i => task'[j] = task[j]
  BY DEF Tasks
<1>3. Asked' = Asked
  BY <1>2 DEF Tasks, Asked
<1>4. \A j \in Items : Written(j) => Written(j)'
  BY <1>2 DEF Tasks, Written
<1>5. task'[i] = p
  BY DEF Tasks
<1>6. successes' \subseteq {j \in Items : Written(j)'}
  BY <1>2, <1>4, <1>5 DEF Tasks, Written
<1>7. \A j \in Items : task'[j] = "raise" => j \in successes'
  BY <1>2, <1>5 DEF Tasks
<1> QED
  BY <1>1, <1>3, <1>6, <1>7 DEF Tasks

\* Every step of the shard keeps it.
LEMMA NextTasks == Tasks /\ [Next]_vars => Tasks'
<1> SUFFICES ASSUME Tasks, [Next]_vars PROVE Tasks'
  OBVIOUS
<1> USE ManyAssumption
<1>1. ASSUME NEW len \in Items, Activate(len) PROVE Tasks'
  <2>1. len \in Asked'
    BY <1>1, ItemsAreCounted DEF Activate, Asked
  <2> QED
    BY <1>1, <2>1 DEF Tasks, Activate, Written, Points, Asked
<1>2. CASE Poll
  BY <1>2 DEF Poll, Tasks, Asked, Written, taskVars
<1>3. CASE Interrupt
  BY <1>3 DEF Interrupt, Tasks, Asked, Written
<1>4. CASE Return
  BY <1>4 DEF Return, Tasks, Asked, Written, Points
<1>5. ASSUME NEW i \in Items, GiveUp(i) PROVE Tasks'
  BY <1>5, MoveTasks DEF GiveUp, Points, Written, Tasks
<1>6. ASSUME NEW i \in Items, Begin(i) PROVE Tasks'
  BY <1>6, MoveTasks DEF Begin, Points, Written, Tasks
<1>7. ASSUME NEW i \in Items, StartInner(i) \/ InnerBegin(i) \/ InnerEnd(i) PROVE Tasks'
  BY <1>7 DEF StartInner, InnerBegin, InnerEnd, Tasks, Asked, Written
<1>8. ASSUME NEW i \in Items, TickOn(i) \/ TickEnds(i) \/ TickFails(i) PROVE Tasks'
  <2>1. PICK p \in {"won", "lost"} : LeaveLoop(i, p)
    BY <1>8 DEF TickOn, TickEnds, TickFails
  <2>2. task[i] = "run"
    BY <1>8 DEF TickOn, TickEnds, TickFails
  <2> QED
    BY <2>1, <2>2, MoveTasks DEF LeaveLoop, Points, Written, Tasks
<1>9. ASSUME NEW i \in Items, Write(i) \/ Raise(i) PROVE Tasks'
  BY <1>9, MoveTasks DEF Write, Raise, Points, Written, Tasks
<1>10. ASSUME NEW i \in Items, Release(i) PROVE Tasks'
  BY <1>10, MoveTasks DEF Release, Points, Written, Tasks
<1>11. CASE UNCHANGED vars
  BY <1>11 DEF vars, taskVars, Tasks, Asked, Written
<1> QED
  BY <1>1, <1>2, <1>3, <1>4, <1>5, <1>6, <1>7, <1>8, <1>9, <1>10, <1>11 DEF Next

-----------------------------------------------------------------------------
Well == successes
Broken == {i \in Asked : \/ task[i] = "early"
                         \/ task[i] \in {"stop", "done"} /\ i \notin successes}

\* An activation that begins asks.
LEMMA ActivateAsks ==
    ASSUME Tasks, NEW len \in Items, Activate(len)
    PROVE  Abstract!Ask
<1> USE ManyAssumption
<1>1. Asked = {} /\ Well = {} /\ Broken = {}
  <2>1. Asked = {}
    BY DEF Activate, Tasks
  <2>2. \A i \in Items : ~Written(i)
    BY <2>1 DEF Asked, Written
  <2> QED
    BY <2>1, <2>2 DEF Tasks, Well, Broken
<1>2. Asked' \in (SUBSET Items) \ {{}}
  BY ItemsAreCounted DEF Activate, Asked
<1>3. Well' = {} /\ Broken' = {}
  <2>1. \A i \in Items : task'[i] \in {"none", "queued"}
    BY DEF Activate
  <2> QED
    BY <2>1 DEF Well, Broken, Asked, Activate
<1> QED
  BY <1>1, <1>2, <1>3 DEF Activate, Abstract!Ask, Abstract!Answer, Answer, Well, Broken

\* The step of one task leaves the other items as they are.
LEMMA OthersStay ==
    ASSUME Tasks, NEW i \in Items, NEW p \in Points \ {"none"}, task[i] # "none",
           task' = [task EXCEPT ![i] = p], successes' \in {successes, successes \cup {i}}
    PROVE  /\ i \in Asked /\ Asked' = Asked
           /\ \A j \in Items \ {i} : j \in Broken' <=> j \in Broken
           /\ i \in Broken' <=> p = "early" \/ (p \in {"stop", "done"} /\ i \notin successes')
           /\ Broken \subseteq Items /\ Broken' \subseteq Items
<1>1. \A j \in Items : j # i => task'[j] = task[j]
  BY DEF Tasks
<1>2. task'[i] = p
  BY DEF Tasks
<1>3. i \in Asked /\ Asked' = Asked
  BY <1>1, <1>2 DEF Asked, Points
<1>4. \A j \in Items \ {i} : j \in Broken' <=> j \in Broken
  BY <1>1, <1>3 DEF Broken
<1> QED
  BY <1>2, <1>3, <1>4 DEF Broken, Asked

\* What a task writes settles its item, and so does its giving up; any other
\* move of a task is unseen.
LEMMA MoveSettles ==
    ASSUME Tasks, NEW i \in Items, NEW p \in Points \ {"none"}, task[i] # "none",
           task' = [task EXCEPT ![i] = p], UNCHANGED <<policy, answer>>,
           \/ successes' = successes /\ task[i] \in {"queued", "run"} /\ p \in {"run", "won", "lost"}
           \/ successes' = successes /\ task[i] = "queued" /\ p = "early"
           \/ successes' = successes \cup {i} /\ task[i] = "won" /\ p = "raise"
           \/ successes' = successes /\ task[i] = "lost" /\ p = "stop"
           \/ successes' = successes /\ task[i] = "raise" /\ p = "stop"
           \/ successes' = successes /\ task[i] = "stop" /\ p = "done"
    PROVE  Abstract!EndWell(i) \/ Abstract!Break(i) \/ UNCHANGED Abstract!vars
<1>1. /\ i \in Asked /\ Asked' = Asked
      /\ \A j \in Items \ {i} : j \in Broken' <=> j \in Broken
      /\ i \in Broken' <=> p = "early" \/ (p \in {"stop", "done"} /\ i \notin successes')
      /\ Broken \subseteq Items /\ Broken' \subseteq Items
  BY OthersStay
<1>2. /\ i \in Broken <=> task[i] = "stop" /\ i \notin successes
      /\ task[i] = "raise" => i \in successes
      /\ task[i] \in {"queued", "run", "won", "lost"} => i \notin successes
  BY <1>1 DEF Tasks, Broken, Written
<1>3. CASE successes' = successes /\ (i \in Broken' <=> i \in Broken)
  <2>1. Broken' = Broken
    BY <1>1, <1>3
  <2> QED
    BY <1>1, <1>3, <2>1 DEF Abstract!vars, Broken
<1>4. CASE successes' = successes \cup {i} /\ task[i] = "won" /\ p = "raise"
  <2>1. Broken' = Broken /\ i \notin Broken /\ i \notin successes
    BY <1>1, <1>2, <1>4
  <2> QED
    BY <1>1, <1>4, <2>1 DEF Abstract!EndWell, Broken
<1>5. CASE successes' = successes /\ i \in Broken' /\ i \notin Broken
  <2>1. Broken' = Broken \cup {i} /\ i \notin successes
    BY <1>1, <1>2, <1>5
  <2> QED
    BY <1>1, <1>5, <2>1 DEF Abstract!Break, Broken
<1> QED
  BY <1>1, <1>2, <1>3, <1>4, <1>5

\* The answer is one the policy allows.
LEMMA ReturnReplies ==
    ASSUME Tasks, Return
    PROVE  Abstract!Interrupted \/ Abstract!Outputs \/ Abstract!Throw \/ \E i \in Items : Abstract!Output(i)
<1> USE ManyAssumption
<1>1. Well = successes /\ successes \subseteq Asked
  BY DEF Tasks, Well, Written, Asked
<1>2. Broken = Asked \ successes
  <2>1. \A i \in Asked : task[i] = "early" => i \notin successes
    BY DEF Tasks, Written
  <2> QED
    BY <2>1 DEF Return, Broken, Over
<1>3. Well \cup Broken = Asked /\ Asked # {}
  BY <1>1, <1>2 DEF Return, Tasks
<1>4. Asked' = {} /\ Well' = {} /\ Broken' = {}
  BY DEF Return, Asked, Well, Broken
<1>5. \A a : answer' = a => Abstract!Reply(a)
  BY <1>3, <1>4 DEF Abstract!Reply, Return, Well, Broken
<1>6. CASE caller = "interrupted"
  BY <1>5, <1>6 DEF Abstract!Interrupted, Abstract!Answer, Answer, Return
<1>7. CASE caller # "interrupted"
  <2>1. answer' = Result
    BY <1>7 DEF Return
  <2>2. CASE successes = {}
    <3>1. answer' = [kind |-> "error", of |-> 0]
      BY <2>1, <2>2 DEF Result, Answer
    <3> QED
      BY <1>1, <1>5, <2>2, <3>1 DEF Abstract!Throw, Abstract!Answer, Well
  <2>3. CASE successes # {} /\ First
    <3>1. successes \in SUBSET Nat /\ successes \subseteq Items
      BY ItemsAreCounted DEF Tasks
    <3>2. PICK m \in successes : m = Min(successes)
      BY <2>3, <3>1, MinIsThere
    <3>3. answer' = [kind |-> "output", of |-> m]
      BY <2>1, <2>3, <3>2 DEF Result
    <3>4. Abstract!Reply([kind |-> "output", of |-> m])
      BY <1>5, <3>3
    <3>5. Abstract!Output(m)
      BY <1>1, <2>3, <3>4 DEF Abstract!Output, First, Well
    <3> QED
      BY <3>1, <3>5
  <2>4. CASE successes # {} /\ ~First /\ (policy = "SomeSuccess" \/ successes = Asked)
    <3>1. answer' = [kind |-> "outputs", of |-> 0]
      BY <2>1, <2>4 DEF Result, Answer
    <3> QED
      BY <1>1, <1>2, <1>5, <2>4, <3>1
      DEF Abstract!Outputs, Abstract!Answer, First, Tasks, Policies, Well, Broken
  <2>5. CASE successes # {} /\ ~First /\ policy # "SomeSuccess" /\ successes # Asked
    <3>1. answer' = [kind |-> "error", of |-> 0]
      BY <2>1, <2>5 DEF Result, Answer
    <3>2. Broken # {} /\ policy = "AllSuccess"
      BY <1>1, <1>2, <1>3, <2>5 DEF First, Tasks, Policies
    <3> QED
      BY <1>5, <3>1, <3>2 DEF Abstract!Throw, Abstract!Answer, Broken
  <2> QED
    BY <2>2, <2>3, <2>4, <2>5
<1> QED
  BY <1>6, <1>7

\* Every step of the shard is one of the abstract shard, or unseen.
LEMMA StepRefines == Tasks /\ [Next]_vars => [Abstract!Next]_(Abstract!vars)
<1> SUFFICES ASSUME Tasks, [Next]_vars PROVE [Abstract!Next]_(Abstract!vars)
  OBVIOUS
<1>1. ASSUME NEW len \in Items, Activate(len) PROVE Abstract!Next
  BY <1>1, ActivateAsks DEF Abstract!Next
<1>2. CASE Return
  BY <1>2, ReturnReplies DEF Abstract!Next
<1>3. ASSUME NEW i \in Items,
             \/ GiveUp(i) \/ Begin(i) \/ TickOn(i) \/ TickEnds(i) \/ TickFails(i)
             \/ Write(i) \/ Raise(i) \/ Release(i)
      PROVE  Abstract!Next \/ UNCHANGED Abstract!vars
  <2>1. CASE TickOn(i) \/ TickEnds(i) \/ TickFails(i)
    <3>1. task[i] = "run" /\ \E p \in {"won", "lost"} : LeaveLoop(i, p)
      BY <2>1 DEF TickOn, TickEnds, TickFails
    <3>2. Abstract!EndWell(i) \/ Abstract!Break(i) \/ UNCHANGED Abstract!vars
      BY <3>1, MoveSettles DEF LeaveLoop, Points
    <3> QED
      BY <3>2 DEF Abstract!Next
  <2>2. CASE GiveUp(i) \/ Begin(i)
    <3>1. Abstract!EndWell(i) \/ Abstract!Break(i) \/ UNCHANGED Abstract!vars
      BY <2>2, MoveSettles DEF GiveUp, Begin, Points
    <3> QED
      BY <3>1 DEF Abstract!Next
  <2>3. CASE Write(i)
    <3>1. UNCHANGED <<policy, answer>>
      BY <2>3 DEF Write
    <3>2. ASSUME task[i] = "won" PROVE Abstract!EndWell(i) \/ Abstract!Break(i) \/ UNCHANGED Abstract!vars
      <4>1. task' = [task EXCEPT ![i] = "raise"] /\ successes' = successes \cup {i}
        BY <2>3, <3>2 DEF Write
      <4> QED
        BY <3>1, <3>2, <4>1, MoveSettles DEF Points
    <3>3. ASSUME task[i] = "lost" PROVE Abstract!EndWell(i) \/ Abstract!Break(i) \/ UNCHANGED Abstract!vars
      <4>1. task' = [task EXCEPT ![i] = "stop"] /\ successes' = successes
        BY <2>3, <3>3 DEF Write
      <4> QED
        BY <3>1, <3>3, <4>1, MoveSettles DEF Points
    <3>4. Abstract!EndWell(i) \/ Abstract!Break(i) \/ UNCHANGED Abstract!vars
      BY <2>3, <3>2, <3>3 DEF Write
    <3> QED
      BY <3>4 DEF Abstract!Next
  <2>4. CASE Raise(i) \/ Release(i)
    <3>1. Abstract!EndWell(i) \/ Abstract!Break(i) \/ UNCHANGED Abstract!vars
      BY <2>4, MoveSettles DEF Raise, Release, Points
    <3> QED
      BY <3>1 DEF Abstract!Next
  <2> QED
    BY <1>3, <2>1, <2>2, <2>3, <2>4
<1>4. ASSUME \/ Poll \/ Interrupt \/ UNCHANGED vars
             \/ \E i \in Items : StartInner(i) \/ InnerBegin(i) \/ InnerEnd(i)
      PROVE  UNCHANGED Abstract!vars
  BY <1>4 DEF Poll, Interrupt, StartInner, InnerBegin, InnerEnd, vars, taskVars, Abstract!vars, Asked
<1> QED
  BY <1>1, <1>2, <1>3, <1>4 DEF Next

\* The shard promises what ManyResult says, for every value of the constants.
THEOREM ManyImplements == Spec => Implements
<1>1. Init => Abstract!Init
  BY DEF Init, Abstract!Init, Abstract!Answer, Abstract!Policies, Policies, Answer, Asked
<1>2. Spec => []Tasks
  BY InitTasks, NextTasks, PTL DEF Spec
<1> QED
  BY <1>1, <1>2, StepRefines, PTL DEF Spec, Implements, Abstract!Spec

-----------------------------------------------------------------------------
(***************************************************************************)
(* The pool of copies.  The copies are numbered as they are made, so a new *)
(* one is none of those before it.                                         *)
(***************************************************************************)
Numbered == \E n \in 0..MaxCopies : made = 1..n

Hands == {i \in Items : task[i] = "queued" \/ OnWorker(i)}

\* A task that is about to write a success has seen its copy end.
WonHasEnded == \A i \in Items : task[i] = "won" => i \in ended

PoolInv == Tasks /\ WonHasEnded /\ TypeOK /\ CopiesAreApart /\ OnlyFirstKeeps /\ Numbered

\* A finite set in an order: each element once.
LEMMA SetInOrder ==
    ASSUME NEW S, IsFiniteSet(S)
    PROVE  /\ Cardinality(S) \in Nat
           /\ SetToSeq(S) \in [1..Cardinality(S) -> S] /\ Len(SetToSeq(S)) = Cardinality(S)
           /\ \A j, k \in 1..Cardinality(S) : SetToSeq(S)[j] = SetToSeq(S)[k] => j = k
<1>1. Cardinality(S) \in Nat /\ ExistsBijection(1..Cardinality(S), S)
  BY FS_CardinalityType
<1>2. \E f \in [1..Cardinality(S) -> S] : IsInjective(f)
  BY <1>1 DEF ExistsBijection, Bijection, Injection, IsInjective
<1>3. SetToSeq(S) \in [1..Cardinality(S) -> S] /\ IsInjective(SetToSeq(S))
  BY <1>2 DEF SetToSeq
<1> QED
  BY <1>1, <1>3 DEF IsInjective

\* acquireBatch gives each input a copy of its own: one that was available or
\* one that was never made before.
LEMMA BatchIsFresh ==
    ASSUME PoolInv, NEW len \in Items, Activate(len)
    PROVE  \E n, a \in Nat :
             /\ made = 1..n /\ n + len - a <= MaxCopies /\ Cardinality(avail) = a
             /\ batch' \in [Items -> Nat]
             /\ \A i \in Items : i > len => batch'[i] = 0
             /\ \A i \in 1..len : IF i <= a THEN batch'[i] \in avail ELSE batch'[i] = n + i - a
             /\ \A i, j \in 1..len : batch'[i] = batch'[j] => i = j
             /\ {batch'[i] : i \in 1..len} = {batch[i] : i \in 1..len}'
             /\ made' = made \cup {batch'[i] : i \in 1..len}
             /\ avail' = avail \ {batch'[i] : i \in 1..len}
<1> DEFINE n == Cardinality(made)
           a == Cardinality(avail)
           old == SetToSeq(avail)
<1>1. made = 1..n /\ IsFiniteSet(made) /\ n \in Nat /\ n <= MaxCopies
  <2>1. PICK m \in 0..MaxCopies : made = 1..m
    BY DEF PoolInv, Numbered
  <2>2. IsFiniteSet(made) /\ n = m
    BY <2>1, FS_Interval, ManyAssumption
  <2> QED
    BY <2>1, <2>2
<1>2. IsFiniteSet(avail) /\ avail \subseteq made
  BY <1>1, FS_Subset DEF PoolInv, TypeOK
<1>3. /\ a \in Nat /\ old \in [1..a -> avail] /\ Len(old) = a
      /\ \A j, k \in 1..a : old[j] = old[k] => j = k
  BY <1>2, SetInOrder
<1>4. \A i \in 1..a : old[i] \in avail /\ old[i] \in Nat /\ old[i] <= n
  BY <1>1, <1>2, <1>3
<1>5. n + len - a <= MaxCopies
  BY DEF Activate
<1>6. batch' = [i \in Items |-> IF i > len THEN 0 ELSE IF i <= a THEN old[i] ELSE n + i - a]
  BY <1>3 DEF Activate, AcquireBatch
<1>7. 1..len \subseteq Items /\ Items \subseteq Nat \ {0}
  BY ItemsAreCounted
<1> HIDE DEF n, a, old
<1>8. \A i \in Items : batch'[i] = IF i > len THEN 0 ELSE IF i <= a THEN old[i] ELSE n + i - a
  BY <1>6
<1>9. batch' \in [Items -> Nat]
  <2>1. \A i \in Items : (IF i > len THEN 0 ELSE IF i <= a THEN old[i] ELSE n + i - a) \in Nat
    BY <1>1, <1>3, <1>4, <1>7
  <2> QED
    BY <1>6, <2>1
<1>10. \A i, j \in 1..len : batch'[i] = batch'[j] => i = j
  <2> SUFFICES ASSUME NEW i \in 1..len, NEW j \in 1..len, batch'[i] = batch'[j] PROVE i = j
    OBVIOUS
  <2>1. i \in Items /\ j \in Items /\ i \in Nat \ {0} /\ j \in Nat \ {0} /\ ~(i > len) /\ ~(j > len)
    BY <1>7
  <2>2. CASE i <= a /\ j <= a
    BY <1>3, <1>8, <2>1, <2>2
  <2>3. CASE ~(i <= a) /\ ~(j <= a)
    BY <1>1, <1>3, <1>8, <2>1, <2>3
  <2>4. CASE i <= a /\ ~(j <= a)
    BY <1>1, <1>3, <1>4, <1>8, <2>1, <2>4
  <2>5. CASE ~(i <= a) /\ j <= a
    BY <1>1, <1>3, <1>4, <1>8, <2>1, <2>5
  <2> QED
    BY <2>2, <2>3, <2>4, <2>5
<1>11. \A i \in 1..len : IF i <= a THEN batch'[i] \in avail ELSE batch'[i] = n + i - a
  BY <1>3, <1>4, <1>7, <1>8
<1>12. /\ made' = made \cup {batch'[i] : i \in 1..len}
       /\ avail' = avail \ {batch'[i] : i \in 1..len}
  BY <1>7, <1>8, <1>6 DEF Activate, AcquireBatch
<1>13. Cardinality(avail) = a
  BY DEF a
<1>14. \A i \in Items : i > len => batch'[i] = 0
  BY <1>8
<1>15. {batch'[i] : i \in 1..len} = {batch[i] : i \in 1..len}'
  OBVIOUS
<1> QED
  BY <1>1, <1>3, <1>5, <1>9, <1>10, <1>11, <1>12, <1>13, <1>14, <1>15

\* The pool is in order at the start.
LEMMA InitPool == Init => PoolInv
<1> SUFFICES ASSUME Init PROVE PoolInv
  OBVIOUS
<1>1. Tasks /\ WonHasEnded
  BY InitTasks DEF Init, WonHasEnded
<1>2. Asked = {} /\ Hands = {}
  BY DEF Init, Asked, Hands, OnWorker
<1>3. TypeOK
  <2>1. 0 \in 0..MaxCopies
    BY ManyAssumption
  <2>2. batch \in [Items -> 0..MaxCopies]
    BY <2>1 DEF Init
  <2> QED
    BY <1>2, <2>2 DEF Init, TypeOK
<1>4. CopiesAreApart
  BY DEF Init, CopiesAreApart, Copies, OnWorker
<1>5. OnlyFirstKeeps
  BY DEF Init, OnlyFirstKeeps
<1>6. Numbered
  <2>1. made = 1..0
    BY DEF Init
  <2> QED
    BY ManyAssumption, <2>1 DEF Numbered
<1> QED
  BY <1>1, <1>3, <1>4, <1>5, <1>6 DEF PoolInv

\* What an activation takes out of the pool and adds to it.
LEMMA ActivatePool ==
    ASSUME PoolInv, NEW len \in Items, Activate(len)
    PROVE  TypeOK' /\ CopiesAreApart' /\ OnlyFirstKeeps' /\ Numbered'
<1>1. PICK n, a \in Nat :
             /\ made = 1..n /\ n + len - a <= MaxCopies /\ Cardinality(avail) = a
             /\ batch' \in [Items -> Nat]
             /\ \A i \in Items : i > len => batch'[i] = 0
             /\ \A i \in 1..len : IF i <= a THEN batch'[i] \in avail ELSE batch'[i] = n + i - a
             /\ \A i, j \in 1..len : batch'[i] = batch'[j] => i = j
             /\ made' = made \cup {batch'[i] : i \in 1..len}
             /\ avail' = avail \ {batch'[i] : i \in 1..len}
  BY BatchIsFresh
<1> DEFINE new == {batch'[i] : i \in 1..len}
<1>2. 1..len \subseteq Items /\ Items \subseteq Nat \ {0} /\ len \in Nat \ {0}
  BY ItemsAreCounted
<1>3. avail \subseteq made /\ kept \subseteq made /\ composed \subseteq made
  BY DEF PoolInv, TypeOK
<1>4. Hands = {} /\ made = avail \cup kept /\ avail \cap kept = {}
  <2>1. Asked = {}
    BY DEF PoolInv, Tasks, Activate
  <2>2. Hands = {}
    BY <2>1 DEF Asked, Hands, OnWorker
  <2> QED
    BY <2>2 DEF PoolInv, CopiesAreApart, Hands, OnWorker, Copies
<1>5. \A i \in 1..len : i > a => batch'[i] = n + i - a
  BY <1>1, <1>2
<1>6. \A i \in 1..len : i <= a => batch'[i] \in avail
  BY <1>1
<1>7. Hands' = 1..len /\ Asked' = 1..len
  <2>1. \A i \in Items : task'[i] = IF i <= len THEN "queued" ELSE "none"
    BY DEF Activate
  <2>2. \A i \in Items : i <= len <=> i \in 1..len
    BY <1>2
  <2> QED
    BY <1>2, <2>1, <2>2 DEF Hands, Asked, OnWorker
<1>8. new \cap kept = {}
  <2> SUFFICES ASSUME NEW i \in 1..len, batch'[i] \in kept PROVE FALSE
    OBVIOUS
  <2>1. CASE i <= a
    BY <1>4, <1>6, <2>1
  <2>2. CASE i > a
    BY <1>1, <1>3, <1>5, <2>2
  <2> QED
    BY <1>1, <2>1, <2>2
<1>9. Numbered'
  <2> SUFFICES \E m \in 0..MaxCopies : made' = 1..m
    BY DEF Numbered
  <2>1. CASE len <= a
    <3>1. \A i \in 1..len : i <= a
      BY <1>1, <1>2, <2>1
    <3>2. new \subseteq made
      BY <1>3, <1>6, <3>1
    <3>3. made' = made
      BY <1>1, <3>2
    <3> QED
      BY <3>3 DEF PoolInv, Numbered
  <2>2. CASE len > a
    <3> DEFINE m == n + len - a
    <3>1. m \in 0..MaxCopies
      BY <1>1, <1>2, <2>2, ManyAssumption
    <3>2. made' \subseteq 1..m
      <4>1. made \subseteq 1..m
        BY <1>1, <1>2, <2>2
      <4>2. \A i \in 1..len : batch'[i] \in 1..m
        BY <1>1, <1>2, <1>3, <1>5, <1>6, <2>2, <4>1
      <4> QED
        BY <1>1, <4>1, <4>2
    <3>3. 1..m \subseteq made'
      <4> SUFFICES ASSUME NEW c \in 1..m PROVE c \in made'
        OBVIOUS
      <4>1. CASE c <= n
        BY <1>1, <4>1
      <4>2. CASE c > n
        <5>1. c - n + a \in 1..len /\ c - n + a > a
          BY <1>1, <1>2, <2>2, <4>2
        <5>2. batch'[c - n + a] = c
          BY <1>1, <1>2, <1>5, <5>1
        <5> QED
          BY <1>1, <5>1, <5>2
      <4> QED
        BY <1>1, <1>2, <4>1, <4>2
    <3> QED
      BY <3>1, <3>2, <3>3
  <2> QED
    BY <1>1, <1>2, <2>1, <2>2
<1>10. CopiesAreApart'
  <2>1. Copies(Hands)' = new
    BY <1>7 DEF Copies
  <2>2. kept' = kept
    BY DEF Activate
  <2>3. made' = avail' \cup kept' \cup new
    BY <1>1, <1>4, <2>2
  <2>4. avail' \cap kept' = {} /\ new \cap (avail' \cup kept') = {}
    BY <1>1, <1>4, <1>8, <2>2
  <2> QED
    BY <1>1, <1>7, <2>1, <2>3, <2>4 DEF CopiesAreApart, Hands, OnWorker, Copies
<1>11. OnlyFirstKeeps'
  BY DEF Activate, PoolInv, OnlyFirstKeeps, First
<1>12. TypeOK'
  <2>1. PICK m \in 0..MaxCopies : made' = 1..m
    BY <1>9 DEF Numbered
  <2>2. made' \subseteq 1..MaxCopies
    BY <2>1, ManyAssumption
  <2>3. batch' \in [Items -> 0..MaxCopies]
    <3>1. \A i \in Items : batch'[i] \in 0..MaxCopies
      <4> SUFFICES ASSUME NEW i \in Items PROVE batch'[i] \in 0..MaxCopies
        OBVIOUS
      <4>1. CASE i > len
        BY <1>1, <4>1, ManyAssumption
      <4>2. CASE i \in 1..len
        BY <1>1, <2>2, <4>2, ManyAssumption
      <4> QED
        BY <1>2, <4>1, <4>2
    <3> QED
      BY <1>1, <3>1
  <2>4. avail' \subseteq made' /\ kept' \subseteq made' /\ composed' \subseteq made'
    BY <1>1, <1>3 DEF Activate
  <2> QED
    BY <2>2, <2>3, <2>4 DEF PoolInv, TypeOK, Activate
<1> QED
  BY <1>9, <1>10, <1>11, <1>12

\* A step that moves no copy keeps the pool as it is.
LEMMA StillPool ==
    ASSUME PoolInv, Asked' = Asked, Hands' = Hands, task' \in [Items -> Points],
           caller' \in {"idle", "wait", "get", "interrupted"},
           inner' \in [Items -> {"none", "queued", "run"}],
           successes' \subseteq ended', ended' \subseteq Asked, anySuccess' \in BOOLEAN,
           UNCHANGED <<policy, poolVars>>
    PROVE  TypeOK' /\ CopiesAreApart' /\ OnlyFirstKeeps' /\ Numbered'
<1>1. TypeOK'
  BY DEF PoolInv, TypeOK, poolVars, Points
<1>2. CopiesAreApart'
  BY DEF PoolInv, CopiesAreApart, Copies, Hands, OnWorker, poolVars
<1> QED
  BY <1>1, <1>2 DEF PoolInv, OnlyFirstKeeps, First, Numbered, poolVars

\* A task that is over gives its copy back, or keeps it.
LEMMA LeaveHands ==
    ASSUME PoolInv, NEW i \in Hands, Hands' = Hands \ {i}, Asked' = Asked,
           task' \in [Items -> Points],
           \/ avail' = avail \cup {batch[i]} /\ kept' = kept
           \/ avail' = avail /\ kept' = kept \cup {batch[i]} /\ (First \/ batch[i] \notin composed),
           UNCHANGED <<policy, caller, inner, ended, successes, anySuccess, batch, made, composed>>
    PROVE  TypeOK' /\ CopiesAreApart' /\ OnlyFirstKeeps' /\ Numbered'
<1>1. /\ made = avail \cup kept \cup Copies(Hands)
      /\ avail \cap kept = {} /\ Copies(Hands) \cap (avail \cup kept) = {}
      /\ \A j, k \in Hands : batch[j] = batch[k] => j = k
  BY DEF PoolInv, CopiesAreApart, Hands, OnWorker
<1>2. batch[i] \in made /\ batch[i] \notin avail /\ batch[i] \notin kept
  BY <1>1 DEF Copies
<1>3. Copies(Hands)' = Copies(Hands) \ {batch[i]} /\ batch[i] \in Copies(Hands)
  BY <1>1 DEF Copies
<1>4. TypeOK'
  BY <1>2 DEF PoolInv, TypeOK, Points
<1>5. /\ made' = avail' \cup kept' \cup Copies(Hands)'
      /\ avail' \cap kept' = {} /\ Copies(Hands)' \cap (avail' \cup kept') = {}
  BY <1>1, <1>2, <1>3
<1>6. CopiesAreApart'
  BY <1>1, <1>5 DEF CopiesAreApart, Hands, OnWorker
<1>7. OnlyFirstKeeps'
  BY DEF PoolInv, OnlyFirstKeeps, First
<1> QED
  BY <1>4, <1>6, <1>7 DEF PoolInv, Numbered

\* A task leaves the loop over its mesh well only when the copy has ended.
LEMMA NextWon == PoolInv /\ [Next]_vars => WonHasEnded'
<1> SUFFICES ASSUME PoolInv, [Next]_vars PROVE WonHasEnded'
  OBVIOUS
<1>1. WonHasEnded /\ task \in [Items -> Points] /\ ended \subseteq Items
  BY DEF PoolInv, Tasks, TypeOK, Asked
<1>2. ASSUME NEW i \in Items, NEW p \in Points, task' = [task EXCEPT ![i] = p],
             p = "won" => i \in ended', ended \subseteq ended'
      PROVE  WonHasEnded'
  BY <1>1, <1>2 DEF WonHasEnded
<1>3. ASSUME NEW len \in Items, Activate(len) PROVE WonHasEnded'
  BY <1>3 DEF Activate, WonHasEnded
<1>4. CASE Return
  BY <1>4 DEF Return, WonHasEnded
<1>5. ASSUME NEW i \in Items, GiveUp(i) \/ Begin(i) \/ Raise(i) \/ Release(i) \/ Write(i)
      PROVE  WonHasEnded'
  <2>1. PICK p \in Points \ {"won"} : task' = [task EXCEPT ![i] = p]
    BY <1>5 DEF GiveUp, Begin, Raise, Release, Write, Points
  <2>2. ended' = ended
    BY <1>5 DEF GiveUp, Begin, Raise, Release, Write
  <2> QED
    BY <1>2, <2>1, <2>2
<1>6. ASSUME NEW i \in Items, TickOn(i) \/ TickEnds(i) \/ TickFails(i) PROVE WonHasEnded'
  <2>1. PICK p \in {"won", "lost"} : LeaveLoop(i, p) /\ (p = "won" => i \in ended')
    BY <1>6 DEF TickOn, TickEnds, TickFails
  <2>2. ended \subseteq ended' /\ p \in Points
    BY <1>6 DEF TickOn, TickEnds, TickFails, Points
  <2> QED
    BY <1>2, <2>1, <2>2 DEF LeaveLoop
<1>7. ASSUME \/ Poll \/ Interrupt \/ UNCHANGED vars
             \/ \E i \in Items : StartInner(i) \/ InnerBegin(i) \/ InnerEnd(i)
      PROVE  WonHasEnded'
  <2>1. UNCHANGED <<task, ended>>
    BY <1>7 DEF Poll, Interrupt, StartInner, InnerBegin, InnerEnd, vars, taskVars
  <2> QED
    BY <1>1, <2>1 DEF WonHasEnded
<1> QED
  BY <1>3, <1>4, <1>5, <1>6, <1>7 DEF Next

\* Every step of the shard keeps the pool in order.
LEMMA NextPool == PoolInv /\ [Next]_vars => PoolInv'
<1> SUFFICES ASSUME PoolInv, [Next]_vars
             PROVE  TypeOK' /\ CopiesAreApart' /\ OnlyFirstKeeps' /\ Numbered'
  BY NextTasks, NextWon DEF PoolInv
<1> USE DEF Points
<1>1. Tasks /\ TypeOK
  BY DEF PoolInv
<1>2. ASSUME NEW i \in Items, NEW p \in Points, task' = [task EXCEPT ![i] = p],
             task[i] # "none", p # "none"
      PROVE  /\ Asked' = Asked /\ task' \in [Items -> Points]
             /\ task[i] \in {"queued", "run", "won", "lost", "raise", "stop"} => i \in Hands
             /\ p \in {"early", "done"} => Hands' = Hands \ {i}
             /\ /\ task[i] \in {"queued", "run", "won", "lost", "raise", "stop"}
                /\ p \in {"run", "won", "lost", "raise", "stop"}
                => Hands' = Hands
  <2>1. \A j \in Items : task'[j] = IF j = i THEN p ELSE task[j]
    BY <1>1, <1>2 DEF Tasks
  <2>2. Asked' = Asked /\ task' \in [Items -> Points]
    BY <1>1, <1>2, <2>1 DEF Tasks, Asked
  <2>3. \A j \in Items : j # i => (j \in Hands' <=> j \in Hands)
    BY <2>1 DEF Hands, OnWorker
  <2>4. i \in Hands <=> task[i] \in {"queued", "run", "won", "lost", "raise", "stop"}
    BY DEF Hands, OnWorker
  <2>5. i \in Hands' <=> p \in {"queued", "run", "won", "lost", "raise", "stop"}
    BY <2>1 DEF Hands, OnWorker
  <2>6. Hands \subseteq Items /\ Hands' \subseteq Items
    BY DEF Hands, OnWorker
  <2>7. p \in {"early", "done"} => Hands' = Hands \ {i}
    BY <2>3, <2>5, <2>6
  <2>8. i \in Hands /\ i \in Hands' => Hands' = Hands
    BY <2>3, <2>6
  <2> QED
    BY <2>2, <2>4, <2>5, <2>7, <2>8
<1>3. ASSUME NEW len \in Items, Activate(len)
      PROVE  TypeOK' /\ CopiesAreApart' /\ OnlyFirstKeeps' /\ Numbered'
  BY <1>3, ActivatePool
<1>4. CASE Poll \/ Interrupt
  BY <1>1, <1>4, StillPool DEF Poll, Interrupt, taskVars, Tasks, TypeOK, Asked, Hands, OnWorker
<1>5. CASE Return
  <2>1. Hands = {} /\ Hands' = {} /\ Asked' = {}
    BY <1>1, <1>5 DEF Return, Tasks, Over, Asked, Hands, OnWorker
  <2>2. 0 \in 0..MaxCopies
    BY ManyAssumption
  <2>3. TypeOK'
    BY <1>1, <1>5, <2>1, <2>2 DEF Return, TypeOK
  <2>4. CopiesAreApart'
    BY <1>5, <2>1 DEF Return, PoolInv, CopiesAreApart, Copies, Hands, OnWorker
  <2> QED
    BY <1>5, <2>3, <2>4 DEF Return, PoolInv, OnlyFirstKeeps, First, Numbered
<1>6. ASSUME NEW i \in Items, GiveUp(i)
      PROVE  TypeOK' /\ CopiesAreApart' /\ OnlyFirstKeeps' /\ Numbered'
  <2>1. i \in Hands /\ Hands' = Hands \ {i} /\ Asked' = Asked /\ task' \in [Items -> Points]
    BY <1>2, <1>6 DEF GiveUp
  <2> QED
    BY <1>6, <2>1, LeaveHands DEF GiveUp
<1>7. ASSUME NEW i \in Items, Begin(i)
      PROVE  TypeOK' /\ CopiesAreApart' /\ OnlyFirstKeeps' /\ Numbered'
  <2>1. i \in Hands /\ Hands' = Hands /\ Asked' = Asked /\ task' \in [Items -> Points]
    BY <1>2, <1>7 DEF Begin
  <2>2. batch[i] \in made /\ batch[i] \notin kept
    BY <2>1 DEF PoolInv, CopiesAreApart, Copies, Hands, OnWorker
  <2>3. TypeOK'
    BY <1>1, <1>7, <2>1, <2>2 DEF Begin, TypeOK
  <2>4. CopiesAreApart'
    BY <1>7, <2>1 DEF Begin, PoolInv, CopiesAreApart, Copies, Hands, OnWorker
  <2>5. OnlyFirstKeeps'
    BY <1>7, <2>2 DEF Begin, PoolInv, OnlyFirstKeeps, First
  <2> QED
    BY <1>7, <2>3, <2>4, <2>5 DEF Begin, PoolInv, Numbered
<1>8. ASSUME NEW i \in Items, StartInner(i) \/ InnerBegin(i) \/ InnerEnd(i)
      PROVE  TypeOK' /\ CopiesAreApart' /\ OnlyFirstKeeps' /\ Numbered'
  <2>1. /\ Asked' = Asked /\ Hands' = Hands /\ UNCHANGED <<policy, poolVars, caller, task, ended, successes, anySuccess>>
        /\ inner' \in [Items -> {"none", "queued", "run"}]
    BY <1>1, <1>8 DEF StartInner, InnerBegin, InnerEnd, TypeOK, Asked, Hands, OnWorker
  <2> QED
    BY <1>1, <2>1, StillPool DEF TypeOK, Tasks
<1>9. ASSUME NEW i \in Items, TickOn(i) \/ TickEnds(i) \/ TickFails(i)
      PROVE  TypeOK' /\ CopiesAreApart' /\ OnlyFirstKeeps' /\ Numbered'
  <2>1. PICK p \in {"won", "lost"} : LeaveLoop(i, p)
    BY <1>9 DEF TickOn, TickEnds, TickFails
  <2>2. task[i] = "run" /\ ended' \in {ended, ended \cup {i}}
    BY <1>9 DEF TickOn, TickEnds, TickFails
  <2>3. Hands' = Hands /\ Asked' = Asked /\ task' \in [Items -> Points]
    BY <1>2, <2>1, <2>2 DEF LeaveLoop
  <2>4. successes' \subseteq ended' /\ ended' \subseteq Asked
    BY <1>1, <2>1, <2>2 DEF LeaveLoop, TypeOK, Asked
  <2> QED
    BY <1>1, <2>1, <2>3, <2>4, StillPool DEF LeaveLoop, TypeOK
<1>10. ASSUME NEW i \in Items, Write(i) \/ Raise(i)
       PROVE  TypeOK' /\ CopiesAreApart' /\ OnlyFirstKeeps' /\ Numbered'
  <2>1. PICK p \in {"raise", "stop"} : task' = [task EXCEPT ![i] = p]
    BY <1>10 DEF Write, Raise
  <2>2. task[i] \in {"won", "lost", "raise"}
    BY <1>10 DEF Write, Raise
  <2>3. Hands' = Hands /\ Asked' = Asked /\ task' \in [Items -> Points]
    BY <1>2, <2>1, <2>2
  <2>4. successes' \subseteq ended' /\ ended' \subseteq Asked
    BY <1>1, <1>10 DEF Write, Raise, TypeOK, PoolInv, WonHasEnded
  <2>5. UNCHANGED <<policy, caller, inner, poolVars>> /\ anySuccess' \in BOOLEAN
    BY <1>1, <1>10 DEF Write, Raise, TypeOK
  <2> QED
    BY <1>1, <2>3, <2>4, <2>5, StillPool DEF TypeOK
<1>11. ASSUME NEW i \in Items, Release(i)
       PROVE  TypeOK' /\ CopiesAreApart' /\ OnlyFirstKeeps' /\ Numbered'
  <2>1. i \in Hands /\ Hands' = Hands \ {i} /\ Asked' = Asked /\ task' \in [Items -> Points]
    BY <1>2, <1>11 DEF Release
  <2> QED
    BY <1>11, <2>1, LeaveHands DEF Release
<1>12. CASE UNCHANGED vars
  BY <1>1, <1>12, StillPool DEF vars, taskVars, poolVars, TypeOK, Tasks, Asked, Hands, OnWorker
<1> QED
  BY <1>3, <1>4, <1>5, <1>6, <1>7, <1>8, <1>9, <1>10, <1>11, <1>12 DEF Next

\* The states of the shard are of their types, and no copy has a number beyond
\* the bound of the pool.
THEOREM ManyTypeCorrect == Spec => []TypeOK
<1>1. PoolInv => TypeOK
  BY DEF PoolInv
<1> QED
  BY <1>1, InitPool, NextPool, PTL DEF Spec

\* No copy is lost, made twice or run by two tasks; without FirstSuccess only
\* one whose compose failed is kept for ever.
THEOREM CopiesCorrect == Spec => []CopiesAreAccountedFor
<1>1. PoolInv => CopiesAreAccountedFor
  BY DEF PoolInv, CopiesAreAccountedFor
<1> QED
  BY <1>1, InitPool, NextPool, PTL DEF Spec
===============================================================================
