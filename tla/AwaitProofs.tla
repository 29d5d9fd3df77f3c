---------------------------- MODULE AwaitProofs ----------------------------
(***************************************************************************)
(* Theorems of Await, for any number of calls, threads and workers.        *)
(*                                                                         *)
(* A call is in one place at a time: not given away, in the queue, in the  *)
(* hands of one worker, or complete.  From that follow that a coroutine    *)
(* never leaves a call behind, and that await implements AsyncCall.        *)
(***************************************************************************)
EXTENDS Await, Integers, FiniteSetTheorems, TLAPS

GivenAway == {"notify", "check", "suspended", "leave", "spin"}

\* The queue holds no call twice, and none that a worker has.
OnePlace ==
    /\ \A i, j \in DOMAIN queue : queue[i] = queue[j] => i = j
    /\ \A k, l \in Slots : job[k] = job[l] /\ job[k] # NoCall => k = l
    /\ \A k \in Slots, i \in DOMAIN queue : job[k] # queue[i]
    /\ \A k \in Slots : job[k] # NoCall <=> at[k] = "call"

\* A call that was given away is on the stack, and not complete before its end.
OnTheStack ==
    /\ \A i \in DOMAIN queue : pc[queue[i]] \in GivenAway /\ queue[i] \notin complete
    /\ \A k \in Slots : job[k] # NoCall => pc[job[k]] \in GivenAway /\ job[k] \notin complete
    /\ \A c \in complete : pc[c] \in GivenAway

\* How many workers there are, and which of them the controller stops.
Sized ==
    /\ \A k \in Slots : at[k] = "none" <=> k > size
    /\ control = "spawn" => size < NumWorkers
    /\ control # "spawn" => NumWorkers <= size
    /\ control \in {"notify", "join"} => NumWorkers < size
    /\ control = "spawn" => \A k \in 1 .. size : alive[k]
    /\ control \in {"loop", "notify", "join"} => \A k \in 1 .. NumWorkers : alive[k]

Types ==
    /\ counter \in Int
    /\ queue \in Seq(Calls)
    /\ size \in 0 .. MaxWorkers
    /\ at \in [Slots -> WorkerSteps]
    /\ job \in [Slots -> Calls \cup {NoCall}]
    /\ alive \in [Slots -> BOOLEAN]
    /\ running \in BOOLEAN /\ missed \in BOOLEAN
    /\ control \in ControlSteps
    /\ complete \subseteq Calls /\ onWorker \subseteq Calls
    /\ pc \in [Calls -> AwaitSteps]

IInv == Types /\ Sized /\ OnePlace /\ OnTheStack

-----------------------------------------------------------------------------
\* What Append and Tail do to the positions of a queue.
LEMMA AppendAt ==
    ASSUME NEW S, NEW s \in Seq(S), NEW e \in S
    PROVE  /\ Append(s, e) \in Seq(S)
           /\ DOMAIN Append(s, e) = DOMAIN s \cup {Len(s) + 1}
           /\ \A i \in DOMAIN s : Append(s, e)[i] = s[i]
           /\ Append(s, e)[Len(s) + 1] = e
           /\ Len(s) + 1 \notin DOMAIN s
    OBVIOUS

\* What is left of a queue by a pop: each element one position earlier.
LEMMA TailAt ==
    ASSUME NEW S, NEW s \in Seq(S), s # <<>>
    PROVE  /\ Head(s) \in S /\ Tail(s) \in Seq(S)
           /\ 1 \in DOMAIN s /\ Head(s) = s[1]
           /\ \A i \in DOMAIN Tail(s) :
                 /\ i + 1 \in DOMAIN s /\ Tail(s)[i] = s[i + 1] /\ i + 1 # 1
                 /\ i \in Nat
    OBVIOUS

\* The pool starts without workers and without calls.
LEMMA InitIInv == Init => IInv
<1> SUFFICES ASSUME Init PROVE IInv
    OBVIOUS
<1> USE TidePoolAssumption, AwaitAssumption DEF Init, PoolInit, Slots
<1>1. Types
  <2>1. counter \in Int /\ queue \in Seq(Calls) /\ size \in 0 .. MaxWorkers
    OBVIOUS
  <2>2. /\ at \in [Slots -> WorkerSteps]
        /\ job \in [Slots -> Calls \cup {NoCall}]
        /\ alive \in [Slots -> BOOLEAN]
        /\ pc \in [Calls -> AwaitSteps]
    BY DEF WorkerSteps, AwaitSteps
  <2>3. QED
    BY <2>1, <2>2 DEF Types, ControlSteps
<1>2. Sized
    BY DEF Sized
<1>3. OnePlace
    BY DEF OnePlace
<1>4. OnTheStack
    BY DEF OnTheStack
<1>5. QED
    BY <1>1, <1>2, <1>3, <1>4 DEF IInv

-----------------------------------------------------------------------------
(***************************************************************************)
(* Most steps move no call: they keep the invariant if they keep the types *)
(* and the sizes.                                                          *)
(***************************************************************************)
LEMMA QuietKeeps ==
    ASSUME IInv, Types', Sized', UNCHANGED <<queue, job, complete>>,
           \A k \in Slots : at'[k] = "call" <=> at[k] = "call",
           \A c \in Calls : pc[c] \in GivenAway => pc'[c] \in GivenAway
    PROVE  IInv'
<1>1. OnePlace'
    BY DEF IInv, OnePlace
<1>2. OnTheStack'
  <2>1. \A i \in DOMAIN queue : queue[i] \in Calls
    BY DEF IInv, Types
  <2>2. \A k \in Slots : job[k] # NoCall => job[k] \in Calls
    BY DEF IInv, Types
  <2>3. complete \subseteq Calls
    BY DEF IInv, Types
  <2>4. QED
    BY <2>1, <2>2, <2>3 DEF IInv, OnTheStack
<1>3. QED
    BY <1>1, <1>2 DEF IInv

\* The steps inside a worker's loop, a notification among them.
LEMMA MoveKeeps ==
    ASSUME IInv, at' \in [Slots -> WorkerSteps], counter' \in Int, missed' \in BOOLEAN,
           \A k \in Slots : \/ at'[k] = at[k]
                            \/ at[k] \notin {"none", "call"} /\ at'[k] \notin {"none", "call"},
           UNCHANGED <<queue, size, job, alive, running, control, complete, onWorker>>,
           pc' \in [Calls -> AwaitSteps],
           \A c \in Calls : pc[c] \in GivenAway => pc'[c] \in GivenAway
    PROVE  IInv'
<1>1. Types'
    BY DEF IInv, Types
<1>2. Sized'
    BY DEF IInv, Types, Sized
<1>3. QED
    BY <1>1, <1>2, QuietKeeps

\* Waking workers only moves them from the wait set to the mutex.
LEMMA WakeMoves ==
    ASSUME IInv, NEW ks \in SUBSET Waiting, Wake(ks)
    PROVE  /\ at' \in [Slots -> WorkerSteps]
           /\ \A k \in Slots : \/ at'[k] = at[k]
                               \/ at[k] = "waiting" /\ at'[k] = "lock"
    BY DEF IInv, Types, Wake, Waiting, WorkerSteps

\* So do notify_one and notify_all, whoever they wake.
LEMMA NotifyMoves ==
    ASSUME IInv, NotifyOne \/ NotifyAll
    PROVE  /\ at' \in [Slots -> WorkerSteps]
           /\ \A k \in Slots : \/ at'[k] = at[k]
                               \/ at[k] = "waiting" /\ at'[k] = "lock"
<1>1. PICK ks \in SUBSET Waiting : Wake(ks)
  <2>1. CASE NotifyAll
    BY <2>1 DEF NotifyAll
  <2>2. CASE NotifyOne /\ Waiting = {}
    BY <2>2 DEF NotifyOne
  <2>3. CASE NotifyOne /\ Waiting # {}
    <3>1. PICK k \in Waiting : Wake({k})
        BY <2>3 DEF NotifyOne
    <3>2. {k} \in SUBSET Waiting
        OBVIOUS
    <3>3. QED
        BY <3>1, <3>2
  <2>4. QED
    BY <2>1, <2>2, <2>3
<1>2. QED
    BY <1>1, WakeMoves

-----------------------------------------------------------------------------
(***************************************************************************)
(* The workers.                                                            *)
(***************************************************************************)
LEMMA PopKeeps ==
    ASSUME IInv, NEW k \in Slots, Pop(k), UNCHANGED <<pc, onWorker>>
    PROVE  IInv'
<1> DEFINE t == Tail(queue)
<1>1. /\ Head(queue) \in Calls /\ t \in Seq(Calls)
      /\ 1 \in DOMAIN queue /\ Head(queue) = queue[1]
      /\ \A i \in DOMAIN t :
            i + 1 \in DOMAIN queue /\ t[i] = queue[i + 1] /\ i + 1 # 1 /\ i \in Nat
    BY TailAt DEF IInv, Types, Pop
<1>2. /\ queue' = t
      /\ job' = [job EXCEPT ![k] = queue[1]]
      /\ at' = [at EXCEPT ![k] = "call"]
      /\ at[k] = "pop"
      /\ UNCHANGED <<counter, size, alive, running, control, complete, missed, pc, onWorker>>
    BY <1>1 DEF Pop, Go
<1>3. queue[1] # NoCall
    BY <1>1, TidePoolAssumption
<1>4. Types'
    BY <1>1, <1>2 DEF IInv, Types, WorkerSteps
<1>5. Sized'
    BY <1>2 DEF IInv, Types, Sized
<1>6. \A l \in Slots : job'[l] = IF l = k THEN queue[1] ELSE job[l]
    BY <1>2 DEF IInv, Types
<1>7. OnePlace'
  <2>1. \A i, j \in DOMAIN queue' : queue'[i] = queue'[j] => i = j
    <3>1. SUFFICES ASSUME NEW i \in DOMAIN t, NEW j \in DOMAIN t, t[i] = t[j]
                   PROVE  i = j
        BY <1>2
    <3>2. i + 1 = j + 1 /\ i \in Nat /\ j \in Nat
        BY <1>1, <3>1 DEF IInv, OnePlace
    <3>3. QED
        BY <3>2
  <2>2. \A m, l \in Slots : job'[m] = job'[l] /\ job'[m] # NoCall => m = l
    BY <1>1, <1>6 DEF IInv, OnePlace
  <2>3. \A l \in Slots, i \in DOMAIN queue' : job'[l] # queue'[i]
    <3>1. SUFFICES ASSUME NEW l \in Slots, NEW i \in DOMAIN t
                   PROVE  job'[l] # t[i]
        BY <1>2
    <3>2. CASE l = k
        BY <1>1, <1>6, <3>2 DEF IInv, OnePlace
    <3>3. CASE l # k
        BY <1>1, <1>6, <3>3 DEF IInv, OnePlace
    <3>4. QED
        BY <3>2, <3>3
  <2>4. \A l \in Slots : job'[l] # NoCall <=> at'[l] = "call"
    BY <1>2, <1>3, <1>6 DEF IInv, Types, OnePlace
  <2>5. QED
    BY <2>1, <2>2, <2>3, <2>4 DEF OnePlace
<1>8. OnTheStack'
  <2>1. \A i \in DOMAIN queue' : pc'[queue'[i]] \in GivenAway /\ queue'[i] \notin complete'
    BY <1>1, <1>2 DEF IInv, OnTheStack
  <2>2. \A l \in Slots : job'[l] # NoCall =>
            pc'[job'[l]] \in GivenAway /\ job'[l] \notin complete'
    BY <1>1, <1>2, <1>6 DEF IInv, OnTheStack
  <2>3. QED
    BY <1>2, <2>1, <2>2 DEF IInv, OnTheStack
<1>9. QED
    BY <1>4, <1>5, <1>7, <1>8 DEF IInv

\* The end of a call makes it complete and leaves it in no other place.
LEMMA CallKeeps ==
    ASSUME IInv, NEW k \in Slots, Call(k), UNCHANGED <<pc, onWorker>>
    PROVE  IInv'
<1>1. /\ complete' = complete \cup {job[k]}
      /\ job' = [job EXCEPT ![k] = NoCall]
      /\ at' = [at EXCEPT ![k] = "count"]
      /\ at[k] = "call"
      /\ UNCHANGED <<counter, queue, size, alive, running, control, missed, pc, onWorker>>
    BY DEF Call, Go
<1>2. job[k] # NoCall /\ job[k] \in Calls /\ pc[job[k]] \in GivenAway
    BY <1>1 DEF IInv, Types, OnePlace, OnTheStack
<1>3. Types'
    BY <1>1, <1>2 DEF IInv, Types, WorkerSteps
<1>4. Sized'
    BY <1>1 DEF IInv, Types, Sized
<1>5. \A l \in Slots : job'[l] = IF l = k THEN NoCall ELSE job[l]
    BY <1>1 DEF IInv, Types
<1>6. \A i \in DOMAIN queue : queue[i] # NoCall
    BY TidePoolAssumption DEF IInv, Types
<1>7. OnePlace'
    BY <1>1, <1>5, <1>6 DEF IInv, Types, OnePlace
<1>8. OnTheStack'
  <2>1. \A i \in DOMAIN queue' : pc'[queue'[i]] \in GivenAway /\ queue'[i] \notin complete'
    BY <1>1 DEF IInv, OnePlace, OnTheStack
  <2>2. \A l \in Slots : job'[l] # NoCall =>
            pc'[job'[l]] \in GivenAway /\ job'[l] \notin complete'
    BY <1>1, <1>2, <1>5 DEF IInv, OnePlace, OnTheStack
  <2>3. \A c \in complete' : pc'[c] \in GivenAway
    BY <1>1, <1>2 DEF IInv, OnTheStack
  <2>4. QED
    BY <2>1, <2>2, <2>3 DEF OnTheStack
<1>9. QED
    BY <1>3, <1>4, <1>7, <1>8 DEF IInv

\* Every step of a worker keeps the invariant.
LEMMA WorkerKeeps ==
    ASSUME IInv, NEW k \in Slots, Worker(k) \/ Spurious(k), UNCHANGED <<pc, onWorker>>
    PROVE  IInv'
<1>1. CASE Pop(k)
    BY <1>1, PopKeeps
<1>2. CASE Call(k)
    BY <1>2, CallKeeps
<1>3. CASE LoopHead(k) \/ PopFails(k) \/ CountDown(k) \/ CheckEmpty(k)
           \/ Predicate(k) \/ Block(k) \/ Spurious(k)
  <2>1. at[k] \notin {"none", "call"}
    BY <1>3 DEF LoopHead, PopFails, CountDown, CheckEmpty, Predicate, Block, Spurious
  <2>2. \E s \in WorkerSteps \ {"none", "call"} : Go(k, s)
    BY <1>3 DEF LoopHead, PopFails, CountDown, CheckEmpty, Predicate, Block, Spurious, WorkerSteps
  <2>3. PICK s \in WorkerSteps \ {"none", "call"} : at' = [at EXCEPT ![k] = s]
    BY <2>2 DEF Go
  <2>4. at' \in [Slots -> WorkerSteps]
    BY <2>3 DEF IInv, Types
  <2>5. \A l \in Slots : \/ at'[l] = at[l]
                         \/ at[l] \notin {"none", "call"} /\ at'[l] \notin {"none", "call"}
    BY <2>1, <2>3 DEF IInv, Types
  <2>6. /\ counter' \in Int /\ missed' \in BOOLEAN
        /\ UNCHANGED <<queue, size, job, alive, running, control, complete, onWorker>>
    <3>1. counter \in Int /\ missed \in BOOLEAN /\ alive[k] \in BOOLEAN
        BY DEF IInv, Types
    <3>2. counter' = counter \/ counter' = counter - 1
        BY <1>3 DEF LoopHead, PopFails, CountDown, CheckEmpty, Predicate, Block, Spurious
    <3>3. missed' \in BOOLEAN
        BY <1>3, <3>1 DEF LoopHead, PopFails, CountDown, CheckEmpty, Predicate, Block, Spurious
    <3>4. UNCHANGED <<queue, size, job, alive, running, control, complete>>
        BY <1>3 DEF LoopHead, PopFails, CountDown, CheckEmpty, Predicate, Block, Spurious
    <3>5. QED
        BY <3>1, <3>2, <3>3, <3>4
  <2>7. pc' \in [Calls -> AwaitSteps] /\ \A c \in Calls : pc'[c] = pc[c]
    BY DEF IInv, Types
  <2>8. QED
    BY <2>4, <2>5, <2>6, <2>7, MoveKeeps
<1>4. QED
    BY <1>1, <1>2, <1>3 DEF Worker

-----------------------------------------------------------------------------
(***************************************************************************)
(* The controller.                                                         *)
(***************************************************************************)
LEMMA EmplaceKeeps ==
    ASSUME IInv, Emplace, size < MaxWorkers, control' \in ControlSteps,
           control = "spawn" \/ (control = "loop" /\ control' = "loop"),
           control = "spawn" => \/ control' = "spawn" /\ size + 1 < NumWorkers
                                \/ control' = "loop" /\ size + 1 = NumWorkers,
           UNCHANGED <<counter, queue, job, running, complete, missed, pc, onWorker>>
    PROVE  IInv'
<1>1. size + 1 \in Slots /\ size \in Nat
    BY TidePoolAssumption DEF IInv, Types, Slots
<1>2. at[size + 1] = "none"
    BY <1>1 DEF IInv, Sized
<1>3. /\ at'[size + 1] = "loop" /\ alive'[size + 1] = TRUE
      /\ \A k \in Slots : k # size + 1 => at'[k] = at[k] /\ alive'[k] = alive[k]
    BY <1>1 DEF IInv, Types, Emplace
<1>4. Types'
  <2>1. size' \in 0 .. MaxWorkers
    BY <1>1, TidePoolAssumption DEF Emplace, Slots
  <2>2. at' \in [Slots -> WorkerSteps] /\ alive' \in [Slots -> BOOLEAN]
    BY DEF IInv, Types, Emplace, WorkerSteps
  <2>3. QED
    BY <2>1, <2>2 DEF IInv, Types
<1>5. size' = size + 1
    BY DEF Emplace
<1>6. 1 .. size' \subseteq Slots /\ 1 .. NumWorkers \subseteq Slots
    BY <1>1, <1>5, TidePoolAssumption DEF Slots
<1>7. Sized'
  <2>1. \A k \in Slots : at'[k] = "none" <=> k > size'
    <3>1. SUFFICES ASSUME NEW k \in Slots PROVE at'[k] = "none" <=> k > size'
        OBVIOUS
    <3>2. k \in Nat /\ (at[k] = "none" <=> k > size)
        BY TidePoolAssumption DEF IInv, Sized, Slots
    <3>3. CASE k = size + 1
        BY <1>1, <1>3, <1>5, <3>3
    <3>4. CASE k # size + 1
        BY <1>1, <1>3, <1>5, <3>2, <3>4
    <3>5. QED
        BY <3>3, <3>4
  <2>2. control' = "spawn" => size' < NumWorkers /\ \A k \in 1 .. size' : alive'[k]
    BY <1>1, <1>3, <1>5, <1>6 DEF IInv, Sized
  <2>3. control' # "spawn" => NumWorkers <= size'
    BY <1>1, <1>5, TidePoolAssumption DEF IInv, Sized
  <2>4. control' \notin {"notify", "join"}
    OBVIOUS
  <2>5. control' = "loop" => \A k \in 1 .. NumWorkers : alive'[k]
    <3>1. CASE control = "spawn"
        BY <1>1, <1>3, <1>6, <3>1, TidePoolAssumption DEF IInv, Sized
    <3>2. CASE control = "loop"
        BY <1>3, <1>6, <3>2 DEF IInv, Sized
    <3>3. QED
        BY <3>1, <3>2
  <2>6. QED
    BY <2>1, <2>2, <2>3, <2>4, <2>5 DEF Sized
<1>8. \A k \in Slots : at'[k] = "call" <=> at[k] = "call"
    BY <1>2, <1>3
<1>9. QED
    BY <1>4, <1>7, <1>8, QuietKeeps

\* Every step of the controller keeps it: it only removes a worker past
\* NumWorkers, the last one, and only after that worker has left its loop.
LEMMA ControllerKeeps ==
    ASSUME IInv, Controller, UNCHANGED <<pc, onWorker>>
    PROVE  IInv'
<1> USE TidePoolAssumption
<1>1. CASE Spawn
  <2>1. size \in Nat /\ size < NumWorkers /\ size < MaxWorkers
    BY <1>1 DEF Spawn, IInv, Types, Sized
  <2>2. \/ control' = "spawn" /\ size + 1 < NumWorkers
        \/ control' = "loop" /\ size + 1 = NumWorkers
    BY <1>1, <2>1 DEF Spawn
  <2>3. QED
    BY <1>1, <2>1, <2>2, EmplaceKeeps DEF Spawn, ControlSteps
<1>2. CASE Grow
    BY <1>2, EmplaceKeeps DEF Grow, IInv, Types, ControlSteps
<1>3. CASE Shrink
  <2>1. size \in Slots /\ NumWorkers < size /\ NumWorkers \in Nat /\ size \in Nat
    BY <1>3 DEF Shrink, Superfluous, IInv, Types, Slots
  <2>2. \A k \in 1 .. NumWorkers : k \in Slots /\ k # size
    BY <2>1 DEF Slots
  <2>3. Types'
    BY <1>3 DEF Shrink, IInv, Types, ControlSteps
  <2>4. Sized'
    BY <1>3, <2>1, <2>2 DEF Shrink, IInv, Types, Sized
  <2>5. QED
    BY <1>3, <2>3, <2>4, QuietKeeps DEF Shrink
<1>4. CASE ShrinkNotify \/ StopNotify
  <2>1. NotifyAll
    BY <1>4 DEF ShrinkNotify, StopNotify
  <2>2. /\ at' \in [Slots -> WorkerSteps]
        /\ \A k \in Slots : at'[k] = at[k] \/ (at[k] = "waiting" /\ at'[k] = "lock")
    BY <2>1, NotifyMoves
  <2>3. Types'
    BY <1>4, <2>2 DEF ShrinkNotify, StopNotify, IInv, Types, ControlSteps
  <2>4. Sized'
    BY <1>4, <2>2 DEF ShrinkNotify, StopNotify, IInv, Types, Sized
  <2>5. QED
    BY <1>4, <2>2, <2>3, <2>4, QuietKeeps DEF ShrinkNotify, StopNotify
<1>5. CASE ShrinkJoin
  <2>1. size \in Slots /\ NumWorkers < size /\ size \in Nat /\ size - 1 \in Nat
    BY <1>5 DEF ShrinkJoin, IInv, Types, Sized, Slots
  <2>2. \A k \in Slots : at'[k] = IF k = size THEN "none" ELSE at[k]
    BY <1>5 DEF ShrinkJoin, Go, IInv, Types
  <2>3. Types'
    BY <1>5, <2>1 DEF ShrinkJoin, Go, IInv, Types, WorkerSteps, ControlSteps
  <2>4. Sized'
    BY <1>5, <2>1, <2>2 DEF ShrinkJoin, IInv, Types, Sized, Slots
  <2>5. \A k \in Slots : at'[k] = "call" <=> at[k] = "call"
    BY <1>5, <2>1, <2>2 DEF ShrinkJoin
  <2>6. QED
    BY <1>5, <2>3, <2>4, <2>5, QuietKeeps DEF ShrinkJoin
<1>6. CASE LoopEnds \/ JoinAll
  <2>1. Types' /\ Sized'
    BY <1>6 DEF LoopEnds, JoinAll, IInv, Types, Sized, ControlSteps
  <2>2. QED
    BY <1>6, <2>1, QuietKeeps DEF LoopEnds, JoinAll
<1>7. CASE StopNext
  <2>1. Types' /\ Sized'
    BY <1>7 DEF StopNext, IInv, Types, Sized, ControlSteps
  <2>2. QED
    BY <1>7, <2>1, QuietKeeps DEF StopNext
<1>8. QED
    BY <1>1, <1>2, <1>3, <1>4, <1>5, <1>6, <1>7 DEF Controller

-----------------------------------------------------------------------------
(***************************************************************************)
(* The coroutines.                                                         *)
(***************************************************************************)
\* A call that no queue and no worker has: its coroutine is not in await, or
\* the call is complete.
LEMMA PushKeeps ==
    ASSUME IInv, NEW c \in Calls, SchedulePush(c)
    PROVE  IInv'
<1>1. /\ queue' = Append(queue, c)
      /\ pc' = [pc EXCEPT ![c] = "notify"] /\ pc[c] = "push"
      /\ UNCHANGED <<counter, size, at, job, alive, running, control, complete,
                     missed, onWorker>>
    BY DEF SchedulePush, Step, Push
<1>2. /\ Append(queue, c) \in Seq(Calls)
      /\ DOMAIN Append(queue, c) = DOMAIN queue \cup {Len(queue) + 1}
      /\ \A i \in DOMAIN queue : Append(queue, c)[i] = queue[i]
      /\ Append(queue, c)[Len(queue) + 1] = c
      /\ Len(queue) + 1 \notin DOMAIN queue
    BY AppendAt DEF IInv, Types
<1>3. Types'
    BY <1>1, <1>2 DEF IInv, Types, AwaitSteps
<1>4. Sized'
    BY <1>1 DEF IInv, Sized
<1>5. /\ \A i \in DOMAIN queue : queue[i] # c
      /\ \A k \in Slots : job[k] # c
      /\ c \notin complete
    BY <1>1, TidePoolAssumption DEF IInv, OnTheStack, GivenAway
<1>6. OnePlace'
    BY <1>1, <1>2, <1>5 DEF IInv, OnePlace
<1>7. \A d \in Calls : pc'[d] = IF d = c THEN "notify" ELSE pc[d]
    BY <1>1 DEF IInv, Types
<1>8. OnTheStack'
  <2>1. /\ \A i \in DOMAIN queue : queue[i] \in Calls
        /\ \A k \in Slots : job[k] # NoCall => job[k] \in Calls
        /\ complete \subseteq Calls
    BY DEF IInv, Types
  <2>2. QED
    BY <1>1, <1>2, <1>5, <1>7, <2>1 DEF IInv, OnTheStack, GivenAway
<1>9. QED
    BY <1>3, <1>4, <1>6, <1>8 DEF IInv

\* The coroutine goes on with its call complete: nobody has the call.
LEMMA LeaveKeeps ==
    ASSUME IInv, NEW c \in Calls, c \in complete, complete' = complete \ {c},
           pc' = [pc EXCEPT ![c] = "idle"], onWorker' \subseteq Calls,
           UNCHANGED <<counter, queue, size, at, job, alive, running, control, missed>>
    PROVE  IInv'
<1>1. Types' /\ Sized'
    BY DEF IInv, Types, Sized, AwaitSteps
<1>2. OnePlace'
    BY DEF IInv, OnePlace
<1>3. /\ \A i \in DOMAIN queue : queue[i] # c /\ queue[i] \in Calls
      /\ \A k \in Slots : job[k] # NoCall => job[k] # c /\ job[k] \in Calls
    BY DEF IInv, Types, OnTheStack
<1>4. OnTheStack'
    BY <1>3 DEF IInv, Types, OnTheStack
<1>5. QED
    BY <1>1, <1>2, <1>4 DEF IInv

\* Every step of a coroutine in await keeps the invariant.
LEMMA CoroutineKeeps ==
    ASSUME IInv, NEW c \in Calls, Coroutine(c)
    PROVE  IInv'
<1>1. CASE SchedulePush(c)
    BY <1>1, PushKeeps
<1>2. CASE Begin(c)
  <2>1. Types'
    BY <1>2 DEF Begin, Step, CountUp, IInv, Types, AwaitSteps
  <2>2. Sized'
    BY <1>2 DEF Begin, IInv, Sized
  <2>3. \A d \in Calls : pc[d] \in GivenAway => pc'[d] \in GivenAway
    BY <1>2 DEF Begin, Step, GivenAway, IInv, Types
  <2>4. QED
    BY <1>2, <2>1, <2>2, <2>3, QuietKeeps DEF Begin
<1>3. CASE ScheduleNotify(c)
  <2>1. /\ at' \in [Slots -> WorkerSteps]
        /\ \A k \in Slots : at'[k] = at[k] \/ (at[k] = "waiting" /\ at'[k] = "lock")
    BY <1>3, NotifyMoves DEF ScheduleNotify, Notify
  <2>2. /\ pc' \in [Calls -> AwaitSteps]
        /\ \A d \in Calls : pc[d] \in GivenAway => pc'[d] \in GivenAway
    BY <1>3 DEF ScheduleNotify, Step, GivenAway, AwaitSteps, IInv, Types
  <2>3. counter \in Int /\ missed \in BOOLEAN
    BY DEF IInv, Types
  <2>4. UNCHANGED <<counter, queue, size, job, alive, running, control, complete,
                    missed, onWorker>>
    BY <1>3 DEF ScheduleNotify, Notify
  <2>5. QED
    BY <2>1, <2>2, <2>3, <2>4, MoveKeeps
<1>4. CASE Check(c) \/ Resume(c) \/ StopWire(c)
  <2>1. UNCHANGED <<poolVars, onWorker>>
    BY <1>4 DEF Check, Resume, StopWire
  <2>2. /\ pc' \in [Calls -> AwaitSteps]
        /\ \A d \in Calls : pc[d] \in GivenAway => pc'[d] \in GivenAway
    BY <1>4 DEF Check, Resume, StopWire, Step, GivenAway, AwaitSteps, IInv, Types
  <2>3. Types' /\ Sized'
    BY <2>1, <2>2 DEF poolVars, IInv, Types, Sized
  <2>4. QED
    BY <2>1, <2>2, <2>3, QuietKeeps DEF poolVars
<1>5. CASE Leave(c) /\ c \notin complete
  <2>1. /\ pc' = [pc EXCEPT ![c] = "spin"]
        /\ onWorker' = onWorker \ {c} /\ complete' = complete
        /\ UNCHANGED <<counter, queue, size, at, job, alive, running, control, missed>>
    BY <1>5 DEF Leave, Step, DropFrame
  <2>2. Types' /\ Sized'
    BY <2>1 DEF IInv, Types, Sized, AwaitSteps
  <2>3. \A d \in Calls : pc[d] \in GivenAway => pc'[d] \in GivenAway
    BY <2>1 DEF GivenAway, IInv, Types
  <2>4. QED
    BY <2>1, <2>2, <2>3, QuietKeeps
<1>6. CASE Leave(c) /\ c \in complete
    BY <1>6, LeaveKeeps DEF Leave, Step, DropFrame, IInv, Types
<1>7. CASE Spin(c)
    BY <1>7, LeaveKeeps DEF Spin, Step, DropFrame, IInv, Types
<1>8. QED
    BY <1>1, <1>2, <1>3, <1>4, <1>5, <1>6, <1>7 DEF Coroutine

-----------------------------------------------------------------------------
(***************************************************************************)
(* The theorems.                                                           *)
(***************************************************************************)
LEMMA NextIInv == IInv /\ [Next]_vars => IInv'
<1> SUFFICES ASSUME IInv, [Next]_vars PROVE IInv'
    OBVIOUS
<1>1. CASE UNCHANGED vars
  <2>1. Types' /\ Sized'
    BY <1>1 DEF vars, poolVars, IInv, Types, Sized
  <2>2. QED
    BY <1>1, <2>1, QuietKeeps DEF vars, poolVars
<1>2. CASE Pool
  <2>1. CASE Terminate
    <3>1. Types' /\ Sized'
        BY <1>2, <2>1 DEF Pool, Terminate, IInv, Types, Sized
    <3>2. QED
        BY <1>2, <2>1, <3>1, QuietKeeps DEF Pool, Terminate
  <2>2. CASE Controller
    BY <1>2, <2>2, ControllerKeeps DEF Pool
  <2>3. CASE \E k \in Slots : Worker(k) \/ Spurious(k)
    BY <1>2, <2>3, WorkerKeeps DEF Pool
  <2>4. QED
    BY <1>2, <2>1, <2>2, <2>3 DEF Pool
<1>3. CASE \E c \in Calls : Coroutine(c)
    BY <1>3, CoroutineKeeps
<1>4. QED
    BY <1>1, <1>2, <1>3 DEF Next

\* The invariant holds in every state: each call is in one place, on the stack
\* of a coroutine that has not left await, and the pool is between its bounds.
THEOREM Inductive == Spec => []IInv
    BY InitIInv, NextIInv, PTL DEF Spec

\* A call that is queued or in a worker's hands is on the stack of a coroutine
\* that has not left await, for any number of workers, calls and threads.
THEOREM FrameOutlivesCallCorrect == Spec => []FrameOutlivesCall
<1>1. IInv => FrameOutlivesCall
    BY TidePoolAssumption
    DEF IInv, Types, OnTheStack, FrameOutlivesCall, Queued, Taken, GivenAway
<1>2. QED
    BY <1>1, Inductive, PTL

\* The pool has NumWorkers workers that were not told to stop, and never more
\* than MaxWorkers, until it is terminated.
THEOREM PoolKeepsWorkersCorrect == Spec => []PoolKeepsWorkers
<1>1. IInv => PoolKeepsWorkers
    BY TidePoolAssumption DEF IInv, Types, Sized, PoolKeepsWorkers
<1>2. QED
    BY <1>1, Inductive, PTL

-----------------------------------------------------------------------------
(***************************************************************************)
(* The counter: each step that changes it, or what it counts, changes two  *)
(* of the four by one.                                                     *)
(***************************************************************************)
LEMMA CountedIsFinite ==
    /\ IsFiniteSet(Pushing) /\ Cardinality(Pushing) \in Nat
    /\ IsFiniteSet(Working) /\ Cardinality(Working) \in Nat
<1>1. IsFiniteSet(Slots)
    BY FS_Interval, TidePoolAssumption DEF Slots
<1>2. Pushing \subseteq Calls /\ Working \subseteq Slots
    BY DEF Pushing, Working
<1>3. IsFiniteSet(Pushing) /\ IsFiniteSet(Working)
    BY <1>1, <1>2, FS_Subset, TidePoolAssumption
<1>4. QED
    BY <1>3, FS_CardinalityType

\* A step that moves no call and does not touch the counter keeps it exact.
LEMMA CountSame ==
    ASSUME CounterIsExact, UNCHANGED <<counter, queue>>, Pushing' = Pushing,
           Working' = Working
    PROVE  CounterIsExact'
    BY DEF CounterIsExact

\* Steps other than a pop and a countdown leave the same workers at work.
LEMMA SameWork ==
    ASSUME IInv, at' \in [Slots -> WorkerSteps],
           \A k \in Slots : at[k] \in {"call", "count"} <=> at'[k] \in {"call", "count"}
    PROVE  Working' = Working
    BY DEF Working

\* A pop takes a call out of the queue and puts one more worker to work.
LEMMA PopCounts ==
    ASSUME IInv, CounterIsExact, NEW k \in Slots, Pop(k), UNCHANGED <<pc, onWorker>>
    PROVE  CounterIsExact'
<1>1. Working' = Working \cup {k} /\ k \notin Working
    BY DEF Working, Pop, Go, IInv, Types
<1>2. Cardinality(Working') = Cardinality(Working) + 1
    BY <1>1, CountedIsFinite, FS_AddElement
<1>3. Len(queue) \in Nat /\ Len(queue') = Len(queue) - 1
    BY DEF Pop, IInv, Types
<1>4. Pushing' = Pushing /\ counter' = counter
    BY DEF Pushing, Pop
<1>5. QED
    BY <1>2, <1>3, <1>4, CountedIsFinite DEF CounterIsExact

\* The countdown of a worker that is done takes it from those at work.
LEMMA CountDownCounts ==
    ASSUME IInv, CounterIsExact, NEW k \in Slots, CountDown(k), UNCHANGED <<pc, onWorker>>
    PROVE  CounterIsExact'
<1>1. Working' = Working \ {k} /\ k \in Working
    BY DEF Working, CountDown, Go, IInv, Types
<1>2. Cardinality(Working') = Cardinality(Working) - 1
    BY <1>1, CountedIsFinite, FS_RemoveElement
<1>3. Len(queue) \in Nat /\ queue' = queue /\ counter' = counter - 1
    BY DEF CountDown, IInv, Types
<1>4. Pushing' = Pushing
    BY DEF Pushing
<1>5. QED
    BY <1>2, <1>3, <1>4, CountedIsFinite DEF CounterIsExact

\* The steps of workers, controller and terminate keep the counter exact.
LEMMA PoolCounts ==
    ASSUME IInv, CounterIsExact, Pool
    PROVE  CounterIsExact'
<1>1. UNCHANGED <<pc, onWorker>> /\ Pushing' = Pushing
    BY DEF Pool, Pushing
<1>2. CASE \E k \in Slots : Pop(k) \/ CountDown(k)
    BY <1>1, <1>2, PopCounts, CountDownCounts
<1>3. CASE \E k \in Slots : \/ LoopHead(k) \/ PopFails(k) \/ Call(k) \/ CheckEmpty(k)
                            \/ Predicate(k) \/ Block(k) \/ Spurious(k)
  <2>1. PICK k \in Slots : \/ LoopHead(k) \/ PopFails(k) \/ Call(k) \/ CheckEmpty(k)
                          \/ Predicate(k) \/ Block(k) \/ Spurious(k)
    BY <1>3
  <2>2. UNCHANGED <<counter, queue>>
    BY <2>1 DEF LoopHead, PopFails, Call, CheckEmpty, Predicate, Block, Spurious
  <2>3. Working' = Working
    <3>1. \E step \in WorkerSteps :
             /\ at' = [at EXCEPT ![k] = step]
             /\ at[k] \in {"call", "count"} <=> step \in {"call", "count"}
        BY <2>1 DEF LoopHead, PopFails, Call, CheckEmpty, Predicate, Block, Spurious,
                    Go, WorkerSteps
    <3>2. QED
        BY <3>1, SameWork DEF IInv, Types
  <2>4. QED
    BY <1>1, <2>2, <2>3, CountSame
<1>4. CASE ShrinkNotify \/ StopNotify
  <2>1. /\ at' \in [Slots -> WorkerSteps]
        /\ \A k \in Slots : at'[k] = at[k] \/ (at[k] = "waiting" /\ at'[k] = "lock")
    BY <1>4, NotifyMoves DEF ShrinkNotify, StopNotify
  <2>2. UNCHANGED <<counter, queue>>
    BY <1>4 DEF ShrinkNotify, StopNotify
  <2>3. QED
    BY <1>1, <2>1, <2>2, SameWork, CountSame
<1>5. CASE Spawn \/ Grow
  <2>1. size + 1 \in Slots /\ at[size + 1] = "none"
    <3>1. size \in Nat /\ size < MaxWorkers
        BY <1>5, TidePoolAssumption DEF Spawn, Grow, IInv, Types, Sized
    <3>2. QED
        BY <3>1, TidePoolAssumption DEF IInv, Sized, Slots
  <2>2. at' = [at EXCEPT ![size + 1] = "loop"] /\ UNCHANGED <<counter, queue>>
    BY <1>5 DEF Spawn, Grow, Emplace
  <2>3. Working' = Working
    BY <2>1, <2>2, SameWork DEF IInv, Types, WorkerSteps
  <2>4. QED
    BY <1>1, <2>2, <2>3, CountSame
<1>6. CASE ShrinkJoin
  <2>1. at' = [at EXCEPT ![size] = "none"] /\ at[size] = "done" /\ UNCHANGED <<counter, queue>>
    BY <1>6 DEF ShrinkJoin, Go
  <2>2. Working' = Working
    BY <2>1, SameWork DEF IInv, Types, WorkerSteps
  <2>3. QED
    BY <1>1, <2>1, <2>2, CountSame
<1>7. CASE Terminate \/ Shrink \/ LoopEnds \/ StopNext \/ JoinAll
  <2>1. UNCHANGED <<counter, queue, at>>
    BY <1>7 DEF Terminate, Shrink, LoopEnds, StopNext, JoinAll
  <2>2. Working' = Working
    BY <2>1 DEF Working
  <2>3. QED
    BY <1>1, <2>1, <2>2, CountSame
<1>8. QED
    BY <1>2, <1>3, <1>4, <1>5, <1>6, <1>7 DEF Pool, Controller, Worker

\* So do those of a coroutine: schedule() counts before it pushes.
LEMMA CoroutineCounts ==
    ASSUME IInv, CounterIsExact, NEW c \in Calls, Coroutine(c)
    PROVE  CounterIsExact'
<1>1. CASE Begin(c)
  <2>1. Pushing' = Pushing \cup {c} /\ c \notin Pushing
    BY <1>1 DEF Pushing, Begin, Step, IInv, Types
  <2>2. Cardinality(Pushing') = Cardinality(Pushing) + 1
    BY <2>1, CountedIsFinite, FS_AddElement
  <2>3. Working' = Working /\ queue' = queue /\ counter' = counter + 1 /\ Len(queue) \in Nat
    BY <1>1 DEF Working, Begin, CountUp, IInv, Types
  <2>4. QED
    BY <2>2, <2>3, CountedIsFinite DEF CounterIsExact
<1>2. CASE SchedulePush(c)
  <2>1. Pushing' = Pushing \ {c} /\ c \in Pushing
    BY <1>2 DEF Pushing, SchedulePush, Step, IInv, Types
  <2>2. Cardinality(Pushing') = Cardinality(Pushing) - 1
    BY <2>1, CountedIsFinite, FS_RemoveElement
  <2>3. Working' = Working /\ counter' = counter
    BY <1>2 DEF Working, SchedulePush, Push
  <2>4. Len(queue) \in Nat /\ Len(queue') = Len(queue) + 1
    BY <1>2 DEF SchedulePush, Push, IInv, Types
  <2>5. QED
    BY <2>2, <2>3, <2>4, CountedIsFinite DEF CounterIsExact
<1>3. CASE \/ ScheduleNotify(c) \/ Check(c) \/ Resume(c)
           \/ StopWire(c) \/ Leave(c) \/ Spin(c)
  <2>1. Pushing' = Pushing
    BY <1>3 DEF Pushing, ScheduleNotify, Check, Resume, StopWire, Leave, Spin, Step,
                IInv, Types
  <2>2. UNCHANGED <<counter, queue>>
    BY <1>3 DEF ScheduleNotify, Check, Resume, StopWire, Leave, Spin, Notify, DropFrame,
                poolVars
  <2>3. Working' = Working
    <3>1. CASE ScheduleNotify(c)
        BY <3>1, NotifyMoves, SameWork DEF ScheduleNotify, Notify
    <3>2. CASE UNCHANGED at
        BY <3>2 DEF Working
    <3>3. QED
        BY <1>3, <3>1, <3>2 DEF Check, Resume, StopWire, Leave, Spin, DropFrame, poolVars
  <2>4. QED
    BY <2>1, <2>2, <2>3, CountSame
<1>4. QED
    BY <1>1, <1>2, <1>3 DEF Coroutine

\* The counter is what is about to be pushed, queued, or in a worker's hands.
THEOREM CounterIsExactCorrect == Spec => []CounterIsExact
<1>1. Init => CounterIsExact
  <2>1. SUFFICES ASSUME Init PROVE CounterIsExact
    OBVIOUS
  <2>2. Pushing = {} /\ Working = {} /\ counter = 0 /\ Len(queue) = 0
    BY <2>1 DEF Init, PoolInit, Pushing, Working
  <2>3. QED
    BY <2>2, FS_EmptySet DEF CounterIsExact
<1>2. IInv /\ CounterIsExact /\ [Next]_vars => CounterIsExact'
  <2>1. CASE UNCHANGED vars
    BY <2>1, CountSame DEF vars, poolVars, Pushing, Working
  <2>2. CASE Next
    BY <2>2, PoolCounts, CoroutineCounts DEF Next
  <2>3. QED
    BY <2>1, <2>2
<1>3. QED
    BY <1>1, <1>2, Inductive, PTL DEF Spec

\* Every variable has its type: the counter is never negative because it
\* counts something.
THEOREM TypeCorrect == Spec => []TypeOK
<1>1. IInv /\ CounterIsExact => TypeOK
  <2>1. SUFFICES ASSUME IInv, CounterIsExact PROVE TypeOK
    OBVIOUS
  <2>2. Len(queue) \in Nat
    BY <2>1 DEF IInv, Types
  <2>3. counter \in Nat
    BY <2>1, <2>2, CountedIsFinite DEF CounterIsExact
  <2>4. QED
    BY <2>1, <2>3 DEF IInv, Types, TypeOK
<1>2. QED
    BY <1>1, Inductive, CounterIsExactCorrect, PTL

-----------------------------------------------------------------------------
(***************************************************************************)
(* await implements AsyncCall: every step moves one call, or none.         *)
(***************************************************************************)
Stages == [c \in Calls |-> StageOf(c)]

\* A step that moves no call between its places leaves every stage.
LEMMA StageSame ==
    ASSUME IInv, UNCHANGED <<job, complete>>,
           \A c \in Calls : pc[c] = "idle" <=> pc'[c] = "idle"
    PROVE  UNCHANGED Stages
    BY DEF Stages, StageOf, Taken

\* A step that changes the stage of one call is a step of AsyncCall.
LEMMA StageMoves ==
    ASSUME NEW c \in Calls, NEW from, NEW to, StageOf(c) = from, StageOf(c)' = to,
           \A d \in Calls : d # c => StageOf(d)' = StageOf(d)
    PROVE  Stages[c] = from /\ Stages' = [Stages EXCEPT ![c] = to]
    BY DEF Stages

\* A pop is the abstract step that takes the call.
LEMMA PopTakes ==
    ASSUME IInv, NEW k \in Slots, Pop(k), UNCHANGED <<pc, onWorker>>
    PROVE  \E c \in Calls : Abstract!TakeCall(c)
<1>1. PICK c \in Calls : 1 \in DOMAIN queue /\ c = queue[1] /\ c = Head(queue)
    BY TailAt DEF IInv, Types, Pop
<1>2. /\ job' = [job EXCEPT ![k] = c] /\ job[k] = NoCall
      /\ UNCHANGED <<pc, complete>>
    BY <1>1 DEF Pop, IInv, Types, OnePlace
<1>3. pc[c] # "idle" /\ c \notin complete /\ c # NoCall
    BY <1>1, TidePoolAssumption DEF IInv, OnTheStack, GivenAway
<1>4. \A l \in Slots : job[l] # c
    BY <1>1 DEF IInv, OnePlace
<1>5. \A l \in Slots : job'[l] = IF l = k THEN c ELSE job[l]
    BY <1>2 DEF IInv, Types
<1>6. StageOf(c) = "asked"
    BY <1>3, <1>4 DEF StageOf, Taken
<1>7. StageOf(c)' = "taken"
    BY <1>2, <1>3, <1>5 DEF StageOf, Taken
<1>8. \A d \in Calls : d # c => StageOf(d)' = StageOf(d)
    BY <1>2, <1>5, TidePoolAssumption DEF StageOf, Taken
<1>9. Stages[c] = "asked" /\ Stages' = [Stages EXCEPT ![c] = "taken"]
    BY <1>1, <1>6, <1>7, <1>8, StageMoves
<1>10. QED
    BY <1>1, <1>9 DEF Abstract!TakeCall, Stages

\* The end of BlockingCall::call is the abstract step that finishes it.
LEMMA CallFinishes ==
    ASSUME IInv, NEW k \in Slots, Call(k), UNCHANGED <<pc, onWorker>>
    PROVE  \E c \in Calls : Abstract!FinishCall(c)
<1>0. PICK c \in Calls : c = job[k]
    BY DEF Call, IInv, Types, OnePlace
<1>1. /\ complete' = complete \cup {c} /\ job' = [job EXCEPT ![k] = NoCall]
      /\ at[k] = "call" /\ UNCHANGED pc
    BY <1>0 DEF Call
<1>2. c # NoCall /\ c \in Calls /\ pc[c] # "idle" /\ c \notin complete
    BY <1>0, <1>1 DEF IInv, Types, OnePlace, OnTheStack, GivenAway
<1>3. \A l \in Slots : job'[l] = IF l = k THEN NoCall ELSE job[l]
    BY <1>1 DEF IInv, Types
<1>4. StageOf(c) = "taken"
    BY <1>0, <1>2 DEF StageOf, Taken
<1>5. StageOf(c)' = "over"
    BY <1>1, <1>2 DEF StageOf
<1>6. \A d \in Calls : d # c => StageOf(d)' = StageOf(d)
    BY <1>0, <1>1, <1>3, TidePoolAssumption DEF StageOf, Taken
<1>7. Stages[c] = "taken" /\ Stages' = [Stages EXCEPT ![c] = "over"]
    BY <1>2, <1>4, <1>5, <1>6, StageMoves
<1>8. QED
    BY <1>2, <1>7 DEF Abstract!FinishCall, Stages

\* The beginning of an await asks for a call that was free.
LEMMA BeginAsks ==
    ASSUME IInv, NEW c \in Calls, Begin(c)
    PROVE  Abstract!AskCall(c)
<1>1. pc[c] = "idle" /\ pc' = [pc EXCEPT ![c] = "push"] /\ UNCHANGED <<job, complete>>
    BY DEF Begin, Step
<1>2. c \notin complete /\ \A k \in Slots : job[k] # c
    BY <1>1, TidePoolAssumption DEF IInv, OnTheStack, GivenAway
<1>3. \A d \in Calls : pc'[d] = IF d = c THEN "push" ELSE pc[d]
    BY <1>1 DEF IInv, Types
<1>4. StageOf(c) = "free" /\ StageOf(c)' = "asked"
    BY <1>1, <1>2, <1>3 DEF StageOf, Taken
<1>5. \A d \in Calls : d # c => StageOf(d)' = StageOf(d)
    BY <1>1, <1>3 DEF StageOf, Taken
<1>6. QED
    BY <1>4, <1>5, StageMoves DEF Abstract!AskCall, Stages

\* A coroutine that goes on leaves a call that is over.
LEMMA GoingOnLeaves ==
    ASSUME IInv, NEW c \in Calls, c \in complete, complete' = complete \ {c},
           pc[c] # "idle", pc' = [pc EXCEPT ![c] = "idle"], UNCHANGED job
    PROVE  Abstract!LeaveCall(c)
<1>1. \A d \in Calls : pc'[d] = IF d = c THEN "idle" ELSE pc[d]
    BY DEF IInv, Types
<1>2. StageOf(c) = "over" /\ StageOf(c)' = "free"
    BY <1>1 DEF StageOf
<1>3. \A d \in Calls : d # c => StageOf(d)' = StageOf(d)
    BY <1>1 DEF StageOf, Taken
<1>4. QED
    BY <1>2, <1>3, StageMoves DEF Abstract!LeaveCall, Stages

\* Every step of await and of the pool is a step of AsyncCall, or none.
LEMMA StepImplements == IInv /\ [Next]_vars => [Abstract!CallNext]_Stages
<1> SUFFICES ASSUME IInv, [Next]_vars PROVE Abstract!CallNext \/ UNCHANGED Stages
    OBVIOUS
<1>1. CASE UNCHANGED vars
    BY <1>1, StageSame DEF vars, poolVars
<1>2. CASE \E k \in Slots : Pop(k) /\ UNCHANGED <<pc, onWorker>>
    BY <1>2, PopTakes DEF Abstract!CallNext
<1>3. CASE \E k \in Slots : Call(k) /\ UNCHANGED <<pc, onWorker>>
    BY <1>3, CallFinishes DEF Abstract!CallNext
<1>4. CASE Pool /\ ~\E k \in Slots : Pop(k) \/ Call(k)
  <2>1. UNCHANGED <<job, complete, pc>>
    BY <1>4 DEF Pool, Terminate, Controller, Spawn, Shrink, ShrinkNotify, ShrinkJoin,
                Grow, LoopEnds, StopNext, StopNotify, JoinAll, Worker, LoopHead,
                PopFails, CountDown, CheckEmpty, Predicate, Block, Spurious
  <2>2. QED
    BY <2>1, StageSame
<1>5. CASE \E c \in Calls : Coroutine(c)
  <2>1. PICK c \in Calls : Coroutine(c)
    BY <1>5
  <2>2. CASE Begin(c)
    BY <2>2, BeginAsks DEF Abstract!CallNext
  <2>3. CASE (Leave(c) /\ c \in complete) \/ Spin(c)
    <3>1. Abstract!LeaveCall(c)
        BY <2>3, GoingOnLeaves DEF Leave, Spin, Step, DropFrame
    <3>2. QED
        BY <3>1 DEF Abstract!CallNext
  <2>4. CASE SchedulePush(c) \/ ScheduleNotify(c) \/ Check(c) \/ Resume(c)
             \/ StopWire(c) \/ (Leave(c) /\ c \notin complete)
    <3>1. UNCHANGED <<job, complete>>
        BY <2>4 DEF SchedulePush, ScheduleNotify, Check, Resume, StopWire, Leave,
                    Push, Notify, DropFrame, poolVars
    <3>2. \A d \in Calls : pc[d] = "idle" <=> pc'[d] = "idle"
        BY <2>4 DEF SchedulePush, ScheduleNotify, Check, Resume, StopWire, Leave,
                    Step, IInv, Types
    <3>3. QED
        BY <3>1, <3>2, StageSame
  <2>5. QED
    BY <2>1, <2>2, <2>3, <2>4 DEF Coroutine
<1>6. Pool => \/ \E k \in Slots : Pop(k) /\ UNCHANGED <<pc, onWorker>>
              \/ \E k \in Slots : Call(k) /\ UNCHANGED <<pc, onWorker>>
              \/ ~\E k \in Slots : Pop(k) \/ Call(k)
    BY DEF Pool
<1>7. QED
    BY <1>1, <1>2, <1>3, <1>4, <1>5, <1>6 DEF Next

\* await implements its promise: a function runs once for each await, and the
\* coroutine goes on only when it is over.
THEOREM AwaitImplements == Spec => ImplementsAsyncCall
<1>1. Init => Abstract!CallInit
    BY DEF Init, Abstract!CallInit, StageOf
<1>2. IInv /\ [Next]_vars => [Abstract!CallNext]_Stages
    BY StepImplements
<1>3. QED
    BY <1>1, <1>2, Inductive, PTL DEF Spec, ImplementsAsyncCall, Abstract!CallSpec, Stages
=============================================================================
