--------------------------- MODULE ChannelProofs ---------------------------
(***************************************************************************)
(* Theorems of Channel, for any number of wires, threads and values: what  *)
(* a consumer that ends leaves in the channel, that no value is lost or    *)
(* delivered twice, and that a consumer hears a producer in order.         *)
(***************************************************************************)
EXTENDS Channel, FiniteSetTheorems, TLAPS

\* The channel, its consumers and the histories keep their types, for any wires
\* on any threads: a consumer only ever outputs values that were produced.
THEOREM TypeCorrect == Spec => []TypeOK
<1>1. Init => TypeOK
  <2>1. SUFFICES ASSUME Init PROVE TypeOK
    OBVIOUS
  <2>2. <<>> \in Seq(Values) /\ 0 \in 0 .. MaxValue
    BY ChannelAssumption
  <2>3. /\ made \in [Producers -> 0 .. MaxValue] /\ at \in [Consumers -> ConsumerSteps]
        /\ storage \in [Consumers -> Seq(Values)] /\ got \in [Consumers -> Seq(Values)]
        /\ late \in [Consumers -> SUBSET Values]
    BY <2>1, <2>2 DEF Init, ConsumerSteps
  <2>4. QED
    BY <2>1, <2>2, <2>3 DEF Init, TypeOK
<1>2. TypeOK /\ [Next]_vars => TypeOK'
  <2>1. SUFFICES ASSUME TypeOK, [Next]_vars PROVE TypeOK'
    OBVIOUS
  <2>2. CASE UNCHANGED vars
    BY <2>1, <2>2 DEF vars, TypeOK
  <2>3. ASSUME NEW p \in Producers, Produce(p) PROVE TypeOK'
    <3>1. made[p] + 1 \in 1 .. MaxValue /\ <<p, made[p] + 1>> \in Values
        BY <2>1, <2>3, ChannelAssumption DEF Produce, TypeOK, Values
    <3>2. data' \in Seq(Values) /\ made' \in [Producers -> 0 .. MaxValue]
        BY <2>1, <2>3, <3>1, ChannelAssumption DEF Produce, Push, TypeOK
    <3>3. promised' \subseteq Values /\ late' \in [Consumers -> SUBSET Values]
        BY <2>1, <2>3, <3>1 DEF Produce, TypeOK
    <3>4. QED
        BY <2>1, <2>3, <3>2, <3>3 DEF Produce, TypeOK
  <2>4. ASSUME NEW p \in Producers, Complete(p) PROVE TypeOK'
    BY <2>1, <2>4 DEF Complete, TypeOK
  <2>5. ASSUME NEW c \in Consumers, PopMore(c) \/ PopLast(c) PROVE TypeOK'
    <3>1. Head(data) \in Values /\ Tail(data) \in Seq(Values)
        BY <2>1, <2>5 DEF PopMore, PopLast, TypeOK
    <3>2. Append(storage[c], Head(data)) \in Seq(Values)
        BY <2>1, <3>1 DEF TypeOK
    <3>3. got[c] \o Append(storage[c], Head(data)) \in Seq(Values)
        BY <2>1, <3>2 DEF TypeOK
    <3>4. CASE PopMore(c)
        BY <2>1, <3>1, <3>2, <3>4 DEF PopMore, Take, TypeOK
    <3>5. CASE PopLast(c)
        BY <2>1, <3>1, <3>2, <3>3, <3>5 DEF PopLast, Output, TypeOK, ConsumerSteps
    <3>6. QED
        BY <2>5, <3>4, <3>5
  <2>6. ASSUME NEW c \in Consumers, LooksClosed(c) PROVE TypeOK'
    <3>1. storage[c] \in Seq(Values) /\ got[c] \o storage[c] \in Seq(Values)
        BY <2>1 DEF TypeOK
    <3>2. CASE storage[c] # <<>>
        BY <2>1, <2>6, <3>1, <3>2 DEF LooksClosed, Output, TypeOK, ConsumerSteps
    <3>3. CASE storage[c] = <<>>
        BY <2>1, <2>6, <3>3 DEF LooksClosed, Go, TypeOK, ConsumerSteps
    <3>4. QED
        BY <3>2, <3>3
  <2>7. ASSUME NEW c \in Consumers,
               Activate(c) \/ PopFails(c) \/ LooksOpen(c) \/ Resume(c) \/ StartConsumer(c)
        PROVE  TypeOK'
    <3>1. at' \in [Consumers -> ConsumerSteps]
        BY <2>1, <2>7 DEF Activate, PopFails, LooksOpen, Resume, StartConsumer, Go, TypeOK,
                          ConsumerSteps
    <3>2. <<>> \in Seq(Values)
        OBVIOUS
    <3>3. storage' \in [Consumers -> Seq(Values)]
        BY <2>1, <2>7, <3>2 DEF Activate, PopFails, LooksOpen, Resume, StartConsumer, TypeOK
    <3>4. late' \in [Consumers -> SUBSET Values]
        BY <2>1, <2>7 DEF Activate, PopFails, LooksOpen, Resume, StartConsumer, TypeOK
    <3>5. QED
        BY <2>1, <2>7, <3>1, <3>3, <3>4
        DEF Activate, PopFails, LooksOpen, Resume, StartConsumer, TypeOK
  <2>8. ASSUME NEW c \in Consumers, StopConsumer(c) PROVE TypeOK'
    <3>1. InSeq(Buffered(c)) \subseteq Values
        BY <2>1 DEF TypeOK, Buffered, InSeq
    <3>2. QED
        BY <2>1, <2>8, <3>1 DEF StopConsumer, TypeOK, ConsumerSteps
  <2>9. ASSUME NEW f \in Flushers, Flush(f) \/ FlushOne(f) \/ FlushEnds(f) PROVE TypeOK'
    <3>1. data # <<>> => Head(data) \in Values /\ Tail(data) \in Seq(Values)
        BY <2>1 DEF TypeOK
    <3>2. QED
        BY <2>1, <2>9, <3>1 DEF Flush, FlushOne, FlushEnds, TypeOK
  <2>10. QED
    BY <2>1, <2>2, <2>3, <2>4, <2>5, <2>6, <2>7, <2>8, <2>9 DEF Next, Consume
<1>3. QED
    BY <1>1, <1>2, PTL DEF Spec

-----------------------------------------------------------------------------
(***************************************************************************)
(* What is in the channel while a consumer is between a pop that failed    *)
(* and its look at "closed" came in between, so it is in "late"; from the  *)
(* look on, nothing that comes is promised any more.                       *)
(***************************************************************************)
PromisedIsMade == \A v \in promised : v[2] <= made[v[1]]
LooksAtLate == \A c \in Consumers : at[c] = "look" => InSeq(data) \subseteq late[c]
EndsClosed == \A c \in Consumers : at[c] = "ended" => closed

LInv == TypeOK /\ PromisedIsMade /\ LooksAtLate /\ EndsClosed /\ LeftBehindIsLate

\* What a consumer sees that shares its thread with the producers: the queue
\* is still empty when it looks at "closed".
LooksAtNothing == \A c \in Consumers : Near(c) /\ at[c] = "look" => data = <<>>

\* A push adds one value to those in the queue.
LEMMA AppendIn ==
    ASSUME NEW S, NEW s \in Seq(S), NEW e \in S
    PROVE  InSeq(Append(s, e)) = InSeq(s) \cup {e}
<1>1. /\ DOMAIN Append(s, e) = DOMAIN s \cup {Len(s) + 1}
      /\ \A i \in DOMAIN s : Append(s, e)[i] = s[i]
      /\ Append(s, e)[Len(s) + 1] = e
    OBVIOUS
<1>2. QED
    BY <1>1 DEF InSeq

\* A pop adds none.
LEMMA TailIn ==
    ASSUME NEW S, NEW s \in Seq(S), s # <<>>
    PROVE  InSeq(Tail(s)) \subseteq InSeq(s)
<1>1. \A i \in DOMAIN Tail(s) : i + 1 \in DOMAIN s /\ Tail(s)[i] = s[i + 1]
    OBVIOUS
<1>2. QED
    BY <1>1 DEF InSeq

\* What Produce does to the parts of the invariant.
LEMMA ProduceFacts ==
    ASSUME LInv, NEW p \in Producers, Produce(p)
    PROVE  \E v \in Values :
              /\ v \notin promised
              /\ InSeq(data') = InSeq(data) \cup {v}
              /\ promised' = IF closed THEN promised ELSE promised \cup {v}
              /\ \A c \in Consumers : /\ late[c] \subseteq late'[c]
                                      /\ at[c] = "look" => v \in late'[c]
<1> DEFINE v == <<p, made[p] + 1>>
<1>1. made[p] \in Nat /\ v \in Values
    BY ChannelAssumption DEF LInv, TypeOK, Produce, Values
<1>2. v \notin promised
    BY <1>1 DEF LInv, PromisedIsMade
<1>3. InSeq(data') = InSeq(data) \cup {v}
  <2>1. data \in Seq(Values) /\ data' = Append(data, v)
    BY DEF LInv, TypeOK, Produce, Push
  <2>2. InSeq(Append(data, v)) = InSeq(data) \cup {v}
    BY <1>1, <2>1, AppendIn
  <2>3. InSeq(data') = InSeq(Append(data, v))
    BY <2>1 DEF InSeq
  <2>4. QED
    BY <2>2, <2>3
<1>4. \A c \in Consumers : late[c] \subseteq late'[c] /\ (at[c] = "look" => v \in late'[c])
    BY DEF Produce, LInv, TypeOK
<1>5. promised' = IF closed THEN promised ELSE promised \cup {v}
    BY DEF Produce
<1>6. QED
    BY <1>1, <1>2, <1>3, <1>4, <1>5

\* Produce keeps the invariant: a value is late for the consumers that look.
LEMMA ProduceKeeps ==
    ASSUME LInv, TypeOK', NEW p \in Producers, Produce(p)
    PROVE  LInv'
<1>1. PICK v \in Values :
         /\ v \notin promised
         /\ InSeq(data') = InSeq(data) \cup {v}
         /\ promised' = IF closed THEN promised ELSE promised \cup {v}
         /\ \A c \in Consumers : /\ late[c] \subseteq late'[c]
                                 /\ at[c] = "look" => v \in late'[c]
    BY ProduceFacts
<1>2. UNCHANGED <<at, closed>>
    BY DEF Produce
<1>3. PromisedIsMade'
  <2>1. SUFFICES ASSUME NEW u \in promised' PROVE u[2] <= made'[u[1]]
    BY DEF PromisedIsMade
  <2>2. made' = [made EXCEPT ![p] = @ + 1] /\ made[p] \in Nat
    BY ChannelAssumption DEF Produce, LInv, TypeOK
  <2>3. CASE u \in promised
    <3>1. u[1] \in Producers /\ u[2] \in Nat /\ made[u[1]] \in Nat /\ u[2] <= made[u[1]]
        BY <2>3, ChannelAssumption DEF LInv, TypeOK, PromisedIsMade, Values
    <3>2. QED
        BY <2>2, <3>1 DEF LInv, TypeOK
  <2>4. CASE u = <<p, made[p] + 1>>
    BY <2>2, <2>4 DEF LInv, TypeOK
  <2>5. QED
    BY <2>3, <2>4 DEF Produce
<1>4. LooksAtLate'
    BY <1>1, <1>2 DEF LInv, LooksAtLate
<1>5. EndsClosed'
    BY <1>2 DEF LInv, EndsClosed
<1>6. LeftBehindIsLate'
    BY <1>1, <1>2 DEF LInv, EndsClosed, LeftBehindIsLate
<1>7. QED
    BY <1>3, <1>4, <1>5, <1>6 DEF LInv

\* Every other step takes values out of the channel, or leaves them.
LEMMA OthersKeep ==
    ASSUME LInv, TypeOK', UNCHANGED <<made, promised>>, closed => closed',
           InSeq(data') \subseteq InSeq(data),
           \A c \in Consumers :
              \/ at'[c] = at[c] /\ late'[c] = late[c]
              \/ at'[c] = "look" /\ data = <<>>
              \/ at[c] = "look" /\ at'[c] = "ended" /\ closed /\ late'[c] = late[c]
              \/ at'[c] \notin {"look", "ended"}
    PROVE  LInv'
<1>1. PromisedIsMade'
    BY DEF LInv, PromisedIsMade
<1>2. data = <<>> => InSeq(data) = {}
    BY DEF InSeq
<1>3. LooksAtLate'
    BY <1>2 DEF LInv, LooksAtLate
<1>4. EndsClosed' /\ LeftBehindIsLate'
    BY DEF LInv, LooksAtLate, EndsClosed, LeftBehindIsLate
<1>5. QED
    BY <1>1, <1>3, <1>4 DEF LInv

\* Every step of a consumer keeps it: only a pop that fails forgets what was
\* late, and the queue is empty then.
LEMMA ConsumerKeeps ==
    ASSUME LInv, TypeOK', NEW c \in Consumers,
           Consume(c) \/ StopConsumer(c) \/ StartConsumer(c)
    PROVE  LInv'
<1>1. UNCHANGED <<made, promised, closed>>
    BY DEF Consume, Activate, PopMore, PopLast, PopFails, LooksOpen, LooksClosed,
           Resume, StopConsumer, StartConsumer
<1>2. InSeq(data') \subseteq InSeq(data)
  <2>1. data' = data \/ (data # <<>> /\ data' = Tail(data))
    BY DEF Consume, Activate, PopMore, PopLast, PopFails, LooksOpen, LooksClosed,
           Resume, StopConsumer, StartConsumer, Take
  <2>2. CASE data # <<>> /\ data' = Tail(data)
    <3>1. InSeq(Tail(data)) \subseteq InSeq(data)
        BY <2>2, TailIn DEF LInv, TypeOK
    <3>2. QED
        BY <2>2, <3>1 DEF InSeq
  <2>3. QED
    BY <2>1, <2>2
<1>3. \A d \in Consumers : d # c => at'[d] = at[d] /\ late'[d] = late[d]
    BY DEF Consume, Activate, PopMore, PopLast, PopFails, LooksOpen, LooksClosed,
           Resume, StopConsumer, StartConsumer, Go, Output, LInv, TypeOK
<1>4. \/ at'[c] = at[c] /\ late'[c] = late[c]
      \/ at'[c] = "look" /\ data = <<>>
      \/ at[c] = "look" /\ at'[c] = "ended" /\ closed /\ late'[c] = late[c]
      \/ at'[c] \notin {"look", "ended"}
    BY DEF Consume, Activate, PopMore, PopLast, PopFails, LooksOpen, LooksClosed,
           Resume, StopConsumer, StartConsumer, Go, Output, LInv, TypeOK
<1>5. QED
    BY <1>1, <1>2, <1>3, <1>4, OthersKeep

\* A flush takes values away.
LEMMA FlusherKeeps ==
    ASSUME LInv, TypeOK', NEW f \in Flushers, Flush(f) \/ FlushOne(f) \/ FlushEnds(f)
    PROVE  LInv'
<1>1. UNCHANGED <<made, promised, closed, at, late>>
    BY DEF Flush, FlushOne, FlushEnds
<1>2. InSeq(data') \subseteq InSeq(data)
  <2>1. CASE data # <<>> /\ data' = Tail(data)
    <3>1. InSeq(Tail(data)) \subseteq InSeq(data)
        BY <2>1, TailIn DEF LInv, TypeOK
    <3>2. QED
        BY <2>1, <3>1 DEF InSeq
  <2>2. CASE data' = data
    BY <2>2
  <2>3. QED
    BY <2>1, <2>2 DEF Flush, FlushOne, FlushEnds
<1>3. QED
    BY <1>1, <1>2, OthersKeep

\* Every step keeps the invariant.
LEMMA NextLInv == LInv /\ TypeOK' /\ [Next]_vars => LInv'
<1> SUFFICES ASSUME LInv, TypeOK', [Next]_vars PROVE LInv'
    OBVIOUS
<1>1. CASE UNCHANGED vars
    BY <1>1, OthersKeep DEF vars
<1>2. ASSUME NEW p \in Producers, Complete(p) PROVE LInv'
    BY <1>2, OthersKeep DEF Complete
<1>3. QED
    BY <1>1, <1>2, ProduceKeeps, ConsumerKeeps, FlusherKeeps DEF Next

\* A consumer that ends leaves only what came between its last pop and its
\* look at "closed".
THEOREM LeftBehindCorrect == Spec => []LInv /\ []LeftBehindIsLate
<1>1. Init => PromisedIsMade /\ LooksAtLate /\ EndsClosed /\ LeftBehindIsLate
    BY DEF Init, PromisedIsMade, LooksAtLate, EndsClosed, LeftBehindIsLate
<1>2. LInv => LeftBehindIsLate
    BY DEF LInv
<1>3. TypeOK /\ PromisedIsMade /\ LooksAtLate /\ EndsClosed /\ LeftBehindIsLate => LInv
    BY DEF LInv
<1>4. QED
    BY <1>1, <1>2, <1>3, NextLInv, TypeCorrect, PTL DEF Spec

-----------------------------------------------------------------------------
(***************************************************************************)
(* In the mesh of the producers.                                           *)
(***************************************************************************)
LEMMA NearKeeps ==
    ASSUME LInv, LInv', LooksAtNothing, NothingLeftBehind, [Next]_vars
    PROVE  LooksAtNothing' /\ NothingLeftBehind'
<1>1. CASE UNCHANGED vars
    BY <1>1 DEF vars, LooksAtNothing, NothingLeftBehind
<1>2. ASSUME NEW p \in Producers, Produce(p)
      PROVE  LooksAtNothing' /\ NothingLeftBehind'
  <2>1. PICK v \in Values :
           /\ v \notin promised
           /\ InSeq(data') = InSeq(data) \cup {v}
           /\ promised' = IF closed THEN promised ELSE promised \cup {v}
    BY <1>2, ProduceFacts
  <2>2. \A c \in Consumers : Near(c) => at[c] # "look"
    BY <1>2 DEF Near, Produce, Turn
  <2>3. UNCHANGED <<at, closed>>
    BY <1>2 DEF Produce
  <2>4. QED
    BY <2>1, <2>2, <2>3 DEF LooksAtNothing, NothingLeftBehind, LInv, EndsClosed
<1>3. ASSUME NEW p \in Producers, Complete(p)
      PROVE  LooksAtNothing' /\ NothingLeftBehind'
    BY <1>3 DEF Complete, LooksAtNothing, NothingLeftBehind
<1>4. ASSUME NEW c \in Consumers, Consume(c) \/ StopConsumer(c) \/ StartConsumer(c)
      PROVE  LooksAtNothing' /\ NothingLeftBehind'
  <2>1. data = <<>> => data' = <<>>
    BY <1>4 DEF Consume, Activate, PopMore, PopLast, PopFails, LooksOpen, LooksClosed,
           Resume, StopConsumer, StartConsumer
  <2>2. \A d \in Consumers : d # c => at'[d] = at[d]
    BY <1>4 DEF Consume, Activate, PopMore, PopLast, PopFails, LooksOpen, LooksClosed,
           Resume, StopConsumer, StartConsumer, Go, Output, LInv, TypeOK
  <2>3. \/ at'[c] = at[c]
        \/ at'[c] = "look" /\ data = <<>>
        \/ at[c] = "look" /\ at'[c] = "ended" /\ data' = data
        \/ at'[c] \notin {"look", "ended"}
    BY <1>4 DEF Consume, Activate, PopMore, PopLast, PopFails, LooksOpen, LooksClosed,
           Resume, StopConsumer, StartConsumer, Go, Output, LInv, TypeOK
  <2>4. promised' = promised
    BY <1>4 DEF Consume, Activate, PopMore, PopLast, PopFails, LooksOpen, LooksClosed,
           Resume, StopConsumer, StartConsumer
  <2>5. InSeq(data') \subseteq InSeq(data)
    <3>1. data' = data \/ (data # <<>> /\ data' = Tail(data))
        BY <1>4 DEF Consume, Activate, PopMore, PopLast, PopFails, LooksOpen, LooksClosed,
               Resume, StopConsumer, StartConsumer, Take
    <3>2. CASE data # <<>> /\ data' = Tail(data)
      <4>1. InSeq(Tail(data)) \subseteq InSeq(data)
        BY <3>2, TailIn DEF LInv, TypeOK
      <4>2. QED
        BY <3>2, <4>1 DEF InSeq
    <3>3. QED
        BY <3>1, <3>2
  <2>6. data = <<>> => InSeq(data) = {}
    BY DEF InSeq
  <2>7. QED
    BY <2>1, <2>2, <2>3, <2>4, <2>5, <2>6 DEF LooksAtNothing, NothingLeftBehind
<1>5. ASSUME NEW f \in Flushers, Flush(f) \/ FlushOne(f) \/ FlushEnds(f)
      PROVE  LooksAtNothing' /\ NothingLeftBehind'
  <2>1. UNCHANGED <<promised, at>>
    BY <1>5 DEF Flush, FlushOne, FlushEnds
  <2>2. data' = data \/ (data # <<>> /\ data' = Tail(data))
    BY <1>5 DEF Flush, FlushOne, FlushEnds
  <2>3. InSeq(data') \subseteq InSeq(data)
    <3>1. CASE data # <<>> /\ data' = Tail(data)
      <4>1. InSeq(Tail(data)) \subseteq InSeq(data)
        BY <3>1, TailIn DEF LInv, TypeOK
      <4>2. QED
        BY <3>1, <4>1 DEF InSeq
    <3>2. QED
        BY <2>2, <3>1
  <2>4. QED
    BY <2>1, <2>2, <2>3 DEF LooksAtNothing, NothingLeftBehind
<1>6. QED
    BY <1>1, <1>2, <1>3, <1>4, <1>5 DEF Next

\* A consumer that the thread of every producer ticks leaves nothing, when it
\* ends, of what was produced before the channel was completed.
THEOREM NothingLeftBehindCorrect == Spec => []NothingLeftBehind
<1>1. Init => LooksAtNothing /\ NothingLeftBehind
    BY DEF Init, LooksAtNothing, NothingLeftBehind
<1>2. LInv /\ LInv' /\ LooksAtNothing /\ NothingLeftBehind /\ [Next]_vars
          => LooksAtNothing' /\ NothingLeftBehind'
    BY NearKeeps
<1>3. QED
    BY <1>1, <1>2, LeftBehindCorrect, PTL DEF Spec

-----------------------------------------------------------------------------
(***************************************************************************)
(* Where the values are.  The queue holds the values of a producer in the  *)
(* order they were made, and what a consumer has taken was ahead of what   *)
(* is queued; so no value is met twice on the way through one consumer,    *)
(* and only what the consumers have of each other is left to keep apart.   *)
(***************************************************************************)
\* What a consumer took and did not lose.
Out(c) == got[c] \o Buffered(c)

\* The values that were produced.
Made == {v \in Values : v[2] <= made[v[1]]}

\* v was made after u, if they are of one producer.
After(u, v) == u[1] = v[1] => u[2] < v[2]
Rising(s) == \A i, j \in DOMAIN s : i < j => After(s[i], s[j])
Ahead(s, t) == \A u \in InSeq(s), v \in InSeq(t) : After(u, v)

Flowing == /\ Rising(data)
           /\ \A c \in Consumers : Rising(Out(c)) /\ Ahead(Out(c), data)

AllMade == /\ InSeq(data) \subseteq Made /\ dropped \subseteq Made
           /\ \A c \in Consumers : InSeq(Out(c)) \subseteq Made

NoneLost == \A v \in Made : \/ v \in InSeq(data) \/ v \in dropped
                            \/ \E c \in Consumers : v \in InSeq(Out(c))

Apart == /\ dropped \cap InSeq(data) = {}
         /\ \A c \in Consumers : InSeq(Out(c)) \cap dropped = {}
         /\ \A c, d \in Consumers : c # d => InSeq(Out(c)) \cap InSeq(Out(d)) = {}

PlaceInv == Flowing /\ AllMade /\ NoneLost /\ Apart

\* A value that comes after all of a sequence goes at its end.
LEMMA AppendRises ==
    ASSUME NEW s \in Seq(Values), NEW e \in Values, Rising(s), \A u \in InSeq(s) : After(u, e)
    PROVE  Rising(Append(s, e))
<1>1. /\ DOMAIN Append(s, e) = DOMAIN s \cup {Len(s) + 1} /\ DOMAIN s = 1 .. Len(s) /\ Len(s) \in Nat
      /\ \A i \in DOMAIN s : Append(s, e)[i] = s[i]
      /\ Append(s, e)[Len(s) + 1] = e
  OBVIOUS
<1>2. \A i \in DOMAIN s : After(s[i], e)
  BY DEF InSeq
<1> SUFFICES ASSUME NEW i \in DOMAIN Append(s, e), NEW j \in DOMAIN Append(s, e), i < j
             PROVE  After(Append(s, e)[i], Append(s, e)[j])
  BY DEF Rising
<1>3. i \in DOMAIN s
  BY <1>1
<1>4. CASE j \in DOMAIN s
  BY <1>1, <1>3, <1>4 DEF Rising
<1>5. CASE j = Len(s) + 1
  BY <1>1, <1>2, <1>3, <1>5
<1> QED
  BY <1>1, <1>4, <1>5

\* The head comes before the rest and is not met again.
LEMMA TailRises ==
    ASSUME NEW s \in Seq(Values), s # <<>>, Rising(s)
    PROVE  /\ Rising(Tail(s)) /\ Tail(s) \in Seq(Values) /\ Head(s) \in Values
           /\ InSeq(s) = InSeq(Tail(s)) \cup {Head(s)}
           /\ Head(s) \notin InSeq(Tail(s))
           /\ \A v \in InSeq(Tail(s)) : After(Head(s), v)
<1>1. /\ DOMAIN s = 1 .. Len(s) /\ Len(s) \in Nat \ {0}
      /\ DOMAIN Tail(s) = 1 .. Len(s) - 1 /\ Tail(s) \in Seq(Values)
      /\ \A i \in 1 .. Len(s) - 1 : Tail(s)[i] = s[i + 1]
      /\ Head(s) = s[1] /\ s[1] \in Values
  OBVIOUS
<1> DEFINE t == Tail(s)
           h == Head(s)
<1> HIDE DEF t, h
<1>2. /\ DOMAIN t = 1 .. Len(s) - 1 /\ \A i \in 1 .. Len(s) - 1 : t[i] = s[i + 1] /\ i + 1 \in DOMAIN s
      /\ h = s[1] /\ 1 \in DOMAIN s
  BY <1>1 DEF t, h
<1>3. Rising(t)
  <2> SUFFICES ASSUME NEW i \in DOMAIN t, NEW j \in DOMAIN t, i < j PROVE After(t[i], t[j])
    BY DEF Rising
  <2>1. i \in 1 .. Len(s) - 1 /\ j \in 1 .. Len(s) - 1 /\ i + 1 < j + 1
    BY <1>1, <1>2
  <2> QED
    BY <1>2, <2>1 DEF Rising
<1>4. InSeq(s) = InSeq(t) \cup {h}
  <2>1. InSeq(t) \cup {h} \subseteq InSeq(s)
    BY <1>2 DEF InSeq
  <2>2. ASSUME NEW i \in DOMAIN s PROVE s[i] \in InSeq(t) \cup {h}
    <3>1. CASE i = 1
      BY <1>2, <3>1
    <3>2. CASE i # 1
      <4>1. i - 1 \in 1 .. Len(s) - 1 /\ (i - 1) + 1 = i
        BY <1>1, <3>2
      <4>2. t[i - 1] = s[i]
        BY <1>2, <4>1
      <4> QED
        BY <1>2, <4>1, <4>2 DEF InSeq
    <3> QED
      BY <3>1, <3>2
  <2> QED
    BY <2>1, <2>2 DEF InSeq
<1>5. \A v \in InSeq(t) : After(h, v)
  <2> SUFFICES ASSUME NEW i \in DOMAIN t PROVE After(h, t[i])
    BY DEF InSeq
  <2>1. t[i] = s[i + 1] /\ i + 1 \in DOMAIN s /\ 1 < i + 1
    BY <1>1, <1>2
  <2> QED
    BY <1>2, <2>1 DEF Rising
<1>6. h \notin InSeq(t)
  <2>1. h[2] \in Nat
    BY <1>1, <1>2, ChannelAssumption DEF Values
  <2> QED
    BY <1>5, <2>1 DEF After
<1> QED
  BY <1>1, <1>3, <1>4, <1>5, <1>6 DEF t, h

\* Two sequences one after the other rise if each does and have nothing in common.
LEMMA CatRises ==
    ASSUME NEW p \in Seq(Values), NEW q \in Seq(Values), Rising(p \o q)
    PROVE  /\ p \o q \in Seq(Values) /\ Rising(p) /\ Rising(q)
           /\ InSeq(p \o q) = InSeq(p) \cup InSeq(q) /\ InSeq(p) \cap InSeq(q) = {}
<1>1. /\ DOMAIN p = 1 .. Len(p) /\ Len(p) \in Nat /\ DOMAIN q = 1 .. Len(q) /\ Len(q) \in Nat
      /\ DOMAIN (p \o q) = 1 .. Len(p) + Len(q) /\ p \o q \in Seq(Values)
      /\ \A i \in 1 .. Len(p) : (p \o q)[i] = p[i]
      /\ \A i \in 1 .. Len(q) : (p \o q)[Len(p) + i] = q[i]
      /\ \A i \in 1 .. Len(p) : p[i] \in Values
  OBVIOUS
<1> DEFINE r == p \o q
<1> HIDE DEF r
<1>2. /\ DOMAIN r = 1 .. Len(p) + Len(q) /\ Rising(r)
      /\ \A i \in 1 .. Len(p) : r[i] = p[i]
      /\ \A i \in 1 .. Len(q) : r[Len(p) + i] = q[i]
  BY <1>1 DEF r
<1>3. Rising(p)
  BY <1>1, <1>2 DEF Rising
<1>4. Rising(q)
  <2> SUFFICES ASSUME NEW i \in DOMAIN q, NEW j \in DOMAIN q, i < j PROVE After(q[i], q[j])
    BY DEF Rising
  <2>1. Len(p) + i \in DOMAIN r /\ Len(p) + j \in DOMAIN r /\ Len(p) + i < Len(p) + j
    BY <1>1, <1>2
  <2> QED
    BY <1>1, <1>2, <2>1 DEF Rising
<1>5. InSeq(r) = InSeq(p) \cup InSeq(q)
  <2>1. \A i \in DOMAIN p : i \in DOMAIN r
    BY <1>1, <1>2
  <2>2. \A i \in DOMAIN q : Len(p) + i \in DOMAIN r
    BY <1>1, <1>2
  <2>3. InSeq(p) \cup InSeq(q) \subseteq InSeq(r)
    BY <1>1, <1>2, <2>1, <2>2 DEF InSeq
  <2>4. ASSUME NEW i \in DOMAIN r PROVE r[i] \in InSeq(p) \cup InSeq(q)
    <3>1. CASE i <= Len(p)
      BY <1>1, <1>2, <3>1 DEF InSeq
    <3>2. CASE i > Len(p)
      <4>1. i - Len(p) \in DOMAIN q /\ Len(p) + (i - Len(p)) = i
        BY <1>1, <1>2, <3>2
      <4>2. r[i] = q[i - Len(p)]
        BY <1>1, <1>2, <4>1
      <4> QED
        BY <4>1, <4>2 DEF InSeq
    <3> QED
      BY <1>1, <1>2, <3>1, <3>2
  <2> QED
    BY <2>3, <2>4 DEF InSeq
<1>6. InSeq(p) \cap InSeq(q) = {}
  <2> SUFFICES ASSUME NEW i \in DOMAIN p, NEW j \in DOMAIN q, p[i] = q[j] PROVE FALSE
    BY DEF InSeq
  <2>1. i \in DOMAIN r /\ Len(p) + j \in DOMAIN r /\ i < Len(p) + j
    BY <1>1, <1>2
  <2>2. After(p[i], q[j])
    BY <1>1, <1>2, <2>1 DEF Rising
  <2>3. p[i][2] \in Nat
    BY <1>1, ChannelAssumption DEF Values
  <2> QED
    BY <2>2, <2>3 DEF After
<1> QED
  BY <1>1, <1>3, <1>4, <1>5, <1>6 DEF r

\* What a consumer took is a sequence of values.
LEMMA OutType ==
    ASSUME TypeOK, NEW c \in Consumers
    PROVE  got[c] \in Seq(Values) /\ Buffered(c) \in Seq(Values) /\ Out(c) \in Seq(Values)
<1>1. got[c] \in Seq(Values) /\ storage[c] \in Seq(Values) /\ <<>> \in Seq(Values)
  BY DEF TypeOK
<1>2. Buffered(c) \in Seq(Values)
  BY <1>1 DEF Buffered
<1>3. \A p, q \in Seq(Values) : p \o q \in Seq(Values)
  OBVIOUS
<1> QED
  BY <1>1, <1>2, <1>3 DEF Out

\* Taking a value into the buffer, or out with it, puts it after what was taken.
LEMMA CatAppend ==
    ASSUME NEW S, NEW p \in Seq(S), NEW q \in Seq(S), NEW e \in S
    PROVE  /\ p \o Append(q, e) = Append(p \o q, e)
           /\ (p \o Append(q, e)) \o <<>> = Append(p \o q, e)
           /\ (p \o q) \o <<>> = p \o q /\ p \o <<>> = p
<1>1. p \o Append(q, e) = Append(p \o q, e)
  OBVIOUS
<1>2. p \o <<>> = p
  OBVIOUS
<1>3. p \o q \in Seq(S)
  OBVIOUS
<1>4. \A r \in Seq(S) : r \o <<>> = r
  OBVIOUS
<1>5. Append(p \o q, e) \in Seq(S)
  BY <1>3
<1> QED
  BY <1>1, <1>2, <1>3, <1>4, <1>5

\* A consumer takes the value at the head, loses its buffer, or neither.
LEMMA ConsumerMoves ==
    ASSUME TypeOK, NEW c \in Consumers, Consume(c) \/ StopConsumer(c) \/ StartConsumer(c)
    PROVE  /\ made' = made /\ \A d \in Consumers : d # c => Out(d)' = Out(d)
           /\ \/ Out(c)' = Out(c) /\ data' = data /\ dropped' = dropped
              \/ /\ data # <<>> /\ data' = Tail(data) /\ dropped' = dropped
                 /\ Out(c)' = Append(Out(c), Head(data))
              \/ /\ Out(c)' = got[c] /\ data' = data
                 /\ dropped' = dropped \cup InSeq(Buffered(c))
<1>1. made' = made
  BY DEF Consume, Activate, PopMore, PopLast, PopFails, LooksOpen, LooksClosed, Resume,
         StopConsumer, StartConsumer
<1>2. ASSUME NEW d \in Consumers, d # c PROVE Out(d)' = Out(d)
  <2>1. at'[d] = at[d] /\ storage'[d] = storage[d] /\ got'[d] = got[d]
    BY <1>2 DEF Consume, Activate, PopMore, PopLast, PopFails, LooksOpen, LooksClosed, Resume,
                StopConsumer, StartConsumer, Go, Take, Output, TypeOK
  <2> QED
    BY <2>1 DEF Out, Buffered
<1>3. got[c] \in Seq(Values) /\ storage[c] \in Seq(Values) /\ <<>> \in Seq(Values)
  BY DEF TypeOK
<1>4. ASSUME Activate(c) \/ PopFails(c) \/ LooksOpen(c) \/ Resume(c) \/ StartConsumer(c)
      PROVE  Out(c)' = Out(c) /\ data' = data /\ dropped' = dropped
  <2>1. Buffered(c)' = Buffered(c)
    BY <1>4 DEF Activate, PopFails, LooksOpen, Resume, StartConsumer, Go, Buffered, TypeOK
  <2> QED
    BY <1>4, <2>1 DEF Out, Activate, PopFails, LooksOpen, Resume, StartConsumer
<1>5. CASE LooksClosed(c)
  <2>1. Buffered(c) = storage[c] /\ Buffered(c)' = <<>>
    BY <1>5 DEF LooksClosed, Output, Go, Buffered, TypeOK
  <2>2. got'[c] = got[c] \o storage[c]
    <3>1. got[c] \o <<>> = got[c]
      BY <1>3
    <3> QED
      BY <1>5, <3>1 DEF LooksClosed, Output, TypeOK
  <2>3. Out(c)' = Out(c)
    <3>1. (got[c] \o storage[c]) \o <<>> = got[c] \o storage[c]
      <4>1. \A r \in Seq(Values) : r \o <<>> = r
        OBVIOUS
      <4>2. got[c] \o storage[c] \in Seq(Values)
        BY <1>3, OutType, CatRises, <4>1
      <4> QED
        BY <4>1, <4>2
    <3> QED
      BY <2>1, <2>2, <3>1 DEF Out
  <2> QED
    BY <1>5, <2>3, <1>1, <1>2 DEF LooksClosed
<1>6. ASSUME PopMore(c) \/ PopLast(c)
      PROVE  /\ data # <<>> /\ data' = Tail(data) /\ dropped' = dropped
             /\ Out(c)' = Append(Out(c), Head(data))
  <2>1. data # <<>> /\ data' = Tail(data) /\ dropped' = dropped /\ Buffered(c) = storage[c]
    BY <1>6 DEF PopMore, PopLast, Take, Buffered
  <2>2. PICK p \in Seq(Values), q \in Seq(Values), e \in Values :
          p = got[c] /\ q = storage[c] /\ e = Head(data)
    BY <1>3, <2>1 DEF TypeOK
  <2>3. \/ got'[c] = p /\ Buffered(c)' = Append(q, e)
        \/ got'[c] = p \o Append(q, e) /\ Buffered(c)' = <<>>
    BY <1>6, <2>2 DEF PopMore, PopLast, Take, Output, Buffered, TypeOK
  <2>4. Out(c)' = Append(p \o q, e)
    <3>1. p \o Append(q, e) = Append(p \o q, e) /\ (p \o Append(q, e)) \o <<>> = Append(p \o q, e)
      BY CatAppend
    <3>2. Out(c)' = got'[c] \o Buffered(c)'
      BY DEF Out
    <3> QED
      BY <2>3, <3>1, <3>2, Zenon
  <2> QED
    BY <2>1, <2>2, <2>4 DEF Out
<1>7. CASE StopConsumer(c)
  <2>1. Buffered(c)' = <<>> /\ got'[c] = got[c] /\ got[c] \o <<>> = got[c]
    BY <1>3, <1>7 DEF StopConsumer, Buffered, TypeOK
  <2>2. Out(c)' = got[c]
    BY <2>1 DEF Out
  <2> QED
    BY <1>1, <1>2, <1>7, <2>2 DEF StopConsumer
<1> QED
  BY <1>1, <1>2, <1>4, <1>5, <1>6, <1>7 DEF Consume

\* A step that moves no value.
LEMMA StillPlaces ==
    ASSUME PlaceInv, \A c \in Consumers : Out(c)' = Out(c),
           UNCHANGED <<data, dropped, made>>
    PROVE  PlaceInv'
<1>1. Flowing'
  BY DEF PlaceInv, Flowing, Ahead
<1>2. Made' = Made
  BY DEF Made
<1>3. AllMade' /\ NoneLost'
  BY <1>2 DEF PlaceInv, AllMade, NoneLost, InSeq
<1>4. Apart'
  BY DEF PlaceInv, Apart, InSeq
<1> QED
  BY <1>1, <1>3, <1>4 DEF PlaceInv

\* A consumer takes the value at the head of the queue: it comes after all that
\* the consumer has of its producer, and no one else has it.
LEMMA TakePlaces ==
    ASSUME TypeOK, PlaceInv, NEW c \in Consumers, data # <<>>, data' = Tail(data),
           Out(c)' = Append(Out(c), Head(data)),
           \A d \in Consumers : d # c => Out(d)' = Out(d),
           UNCHANGED <<dropped, made>>
    PROVE  PlaceInv'
<1> DEFINE h == Head(data)
<1>1. data \in Seq(Values) /\ Rising(data) /\ \A d \in Consumers : Out(d) \in Seq(Values)
  BY OutType DEF TypeOK, PlaceInv, Flowing
<1>2. /\ Rising(data') /\ h \in Values /\ InSeq(data) = InSeq(data') \cup {h}
      /\ h \notin InSeq(data') /\ \A v \in InSeq(data') : After(h, v)
  BY <1>1, TailRises
<1>3. InSeq(Append(Out(c), h)) = InSeq(Out(c)) \cup {h}
  BY <1>1, <1>2, AppendIn
<1>4. Rising(Append(Out(c), h))
  BY <1>1, <1>2, AppendRises DEF PlaceInv, Flowing, Ahead
<1> HIDE DEF h
<1>5. Out(c)' = Append(Out(c), h)
  BY DEF h
<1>6. \A d \in Consumers : d # c => InSeq(Out(d)') = InSeq(Out(d)) /\ Rising(Out(d)')
  BY DEF PlaceInv, Flowing
<1>7. InSeq(Out(c)') = InSeq(Out(c)) \cup {h} /\ Rising(Out(c)')
  BY <1>3, <1>4, <1>5
<1>8. \A d \in Consumers : InSeq(Out(d)) \subseteq InSeq(Out(d)')
  BY <1>6, <1>7
<1>9. Flowing'
  BY <1>2, <1>6, <1>7 DEF PlaceInv, Flowing, Ahead
<1>10. Made' = Made
  BY DEF Made
<1>11. AllMade'
  BY <1>2, <1>6, <1>7, <1>10 DEF PlaceInv, AllMade
<1>12. NoneLost'
  BY <1>2, <1>7, <1>8, <1>10 DEF PlaceInv, NoneLost
<1>13. Apart'
  <2>1. h \notin dropped /\ \A d \in Consumers : h \notin InSeq(Out(d))
    <3>1. h \in InSeq(data) /\ h[2] \in Nat
      BY <1>2, ChannelAssumption DEF Values
    <3>2. ~After(h, h)
      BY <3>1 DEF After
    <3> QED
      BY <3>1, <3>2 DEF PlaceInv, Apart, Flowing, Ahead
  <2>2. dropped' \cap InSeq(data') = {}
    BY <1>2 DEF PlaceInv, Apart
  <2>3. \A d \in Consumers : InSeq(Out(d)') \cap dropped' = {}
    BY <1>6, <1>7, <2>1 DEF PlaceInv, Apart
  <2>4. ASSUME NEW d \in Consumers, NEW e \in Consumers, d # e
        PROVE  InSeq(Out(d)') \cap InSeq(Out(e)') = {}
    BY <1>6, <1>7, <2>1, <2>4 DEF PlaceInv, Apart
  <2> QED
    BY <2>2, <2>3, <2>4 DEF Apart
<1> QED
  BY <1>9, <1>11, <1>12, <1>13 DEF PlaceInv

\* A consumer that is stopped drops its buffer: what it has output is left.
LEMMA StopPlaces ==
    ASSUME TypeOK, PlaceInv, NEW c \in Consumers, data' = data, Out(c)' = got[c],
           dropped' = dropped \cup InSeq(Buffered(c)),
           \A d \in Consumers : d # c => Out(d)' = Out(d), made' = made
    PROVE  PlaceInv'
<1>1. /\ Rising(got[c]) /\ InSeq(Out(c)) = InSeq(got[c]) \cup InSeq(Buffered(c))
      /\ InSeq(got[c]) \cap InSeq(Buffered(c)) = {}
  <2>1. got[c] \in Seq(Values) /\ Buffered(c) \in Seq(Values) /\ Rising(got[c] \o Buffered(c))
    BY OutType DEF PlaceInv, Flowing, Out
  <2>2. /\ Rising(got[c]) /\ InSeq(got[c] \o Buffered(c)) = InSeq(got[c]) \cup InSeq(Buffered(c))
        /\ InSeq(got[c]) \cap InSeq(Buffered(c)) = {}
    BY <2>1, CatRises
  <2> QED
    BY <2>2 DEF Out
<1> DEFINE lost == InSeq(Buffered(c))
<1>2. dropped' = dropped \cup lost
  OBVIOUS
<1>3. \A d \in Consumers : d # c => InSeq(Out(d)') = InSeq(Out(d)) /\ Rising(Out(d)')
  BY DEF PlaceInv, Flowing
<1>4. InSeq(Out(c)) = InSeq(Out(c)') \cup lost /\ InSeq(Out(c)') \cap lost = {} /\ Rising(Out(c)')
  BY <1>1
<1> HIDE DEF lost
<1>5. Made' = Made /\ InSeq(data') = InSeq(data)
  BY DEF Made
<1>6. Flowing'
  BY <1>3, <1>4 DEF PlaceInv, Flowing, Ahead
<1>7. AllMade'
  BY <1>2, <1>3, <1>4, <1>5 DEF PlaceInv, AllMade
<1>8. NoneLost'
  <2> SUFFICES ASSUME NEW v \in Made
               PROVE  v \in InSeq(data') \/ v \in dropped' \/ \E d \in Consumers : v \in InSeq(Out(d)')
    BY <1>5 DEF NoneLost
  <2>1. v \in InSeq(data) \/ v \in dropped \/ \E d \in Consumers : v \in InSeq(Out(d))
    BY DEF PlaceInv, NoneLost
  <2> QED
    BY <1>2, <1>3, <1>4, <1>5, <2>1
<1>9. Apart'
  <2>1. lost \cap InSeq(data) = {}
    <3>1. \A v \in lost : v[2] \in Nat
      BY <1>4, ChannelAssumption DEF PlaceInv, AllMade, Made, Values
    <3>2. \A v \in lost : ~After(v, v)
      BY <3>1 DEF After
    <3> QED
      BY <1>4, <3>2 DEF PlaceInv, Flowing, Ahead
  <2>2. \A d \in Consumers : d # c => lost \cap InSeq(Out(d)) = {}
    BY <1>4 DEF PlaceInv, Apart
  <2>3. dropped' \cap InSeq(data') = {}
    BY <1>2, <1>5, <2>1 DEF PlaceInv, Apart
  <2>4. \A d \in Consumers : InSeq(Out(d)') \cap dropped' = {}
    BY <1>2, <1>3, <1>4, <2>2 DEF PlaceInv, Apart
  <2>5. ASSUME NEW d \in Consumers, NEW e \in Consumers, d # e
        PROVE  InSeq(Out(d)') \cap InSeq(Out(e)') = {}
    BY <1>3, <1>4, <2>5 DEF PlaceInv, Apart
  <2> QED
    BY <2>3, <2>4, <2>5 DEF Apart
<1> QED
  BY <1>6, <1>7, <1>8, <1>9 DEF PlaceInv

\* A flush drops the value at the head of the queue.
LEMMA FlushPlaces ==
    ASSUME TypeOK, PlaceInv, NEW f \in Flushers, FlushOne(f)
    PROVE  PlaceInv'
<1> DEFINE h == Head(data)
<1>1. /\ Rising(data') /\ h \in Values /\ InSeq(data) = InSeq(data') \cup {h}
      /\ h \notin InSeq(data')
  BY TailRises DEF FlushOne, TypeOK, PlaceInv, Flowing
<1>2. \A c \in Consumers : Out(c)' = Out(c)
  BY DEF FlushOne, Out, Buffered
<1>3. dropped' = dropped \cup {h} /\ made' = made
  BY DEF FlushOne
<1> HIDE DEF h
<1>4. \A c \in Consumers : InSeq(Out(c)') = InSeq(Out(c)) /\ Rising(Out(c)')
  BY <1>2 DEF PlaceInv, Flowing
<1>5. Flowing'
  BY <1>1, <1>4 DEF PlaceInv, Flowing, Ahead
<1>6. Made' = Made
  BY <1>3 DEF Made
<1>7. AllMade' /\ NoneLost'
  BY <1>1, <1>3, <1>4, <1>6 DEF PlaceInv, AllMade, NoneLost
<1>8. \A c \in Consumers : h \notin InSeq(Out(c))
  <2>1. h[2] \in Nat
    BY <1>1, ChannelAssumption DEF Values
  <2>2. ~After(h, h)
    BY <2>1 DEF After
  <2> QED
    BY <1>1, <2>2 DEF PlaceInv, Flowing, Ahead
<1>9. Apart'
  BY <1>1, <1>3, <1>4, <1>8 DEF PlaceInv, Apart
<1> QED
  BY <1>5, <1>7, <1>9 DEF PlaceInv

\* A value that is produced is new and comes after all of its producer.
LEMMA ProducePlaces ==
    ASSUME TypeOK, PlaceInv, NEW p \in Producers, Produce(p)
    PROVE  PlaceInv'
<1> DEFINE v == <<p, made[p] + 1>>
<1>1. made[p] \in Nat /\ v \in Values /\ v[1] = p /\ v[2] = made[p] + 1
  BY ChannelAssumption DEF TypeOK, Produce, Values
<1>2. made' = [made EXCEPT ![p] = @ + 1] /\ data' = Append(data, v) /\ dropped' = dropped
  BY DEF Produce, Push
<1>3. Made' = Made \cup {v}
  <2>1. \A u \in Values : u[2] \in Nat /\ u[1] \in Producers /\ made[u[1]] \in Nat
    BY ChannelAssumption DEF Values, TypeOK
  <2>2. \A u \in Values : u[1] # p => made'[u[1]] = made[u[1]]
    BY <1>2, <2>1 DEF TypeOK
  <2>3. made'[p] = made[p] + 1
    BY <1>2 DEF TypeOK
  <2>4. \A u \in Values : u[1] = p /\ u[2] = made[p] + 1 => u = v
    BY DEF Values
  <2>5. \A u \in Values : u[2] <= made'[u[1]] <=> u[2] <= made[u[1]] \/ u = v
    BY <1>1, <2>1, <2>2, <2>3, <2>4
  <2> QED
    BY <1>1, <2>5 DEF Made
<1>4. v \notin Made /\ \A u \in Made : After(u, v)
  <2>1. \A u \in Made : u[2] \in Nat
    BY ChannelAssumption DEF Made, Values
  <2> QED
    BY <1>1, <2>1 DEF Made, After
<1>5. \A c \in Consumers : Out(c)' = Out(c)
  BY DEF Produce, Out, Buffered
<1>6. InSeq(Append(data, v)) = InSeq(data) \cup {v}
  BY <1>1, AppendIn DEF TypeOK
<1>7. Rising(Append(data, v))
  BY <1>1, <1>4, AppendRises DEF TypeOK, PlaceInv, Flowing, AllMade
<1> HIDE DEF v
<1>8. InSeq(data') = InSeq(data) \cup {v} /\ Rising(data')
  BY <1>2, <1>6, <1>7
<1>9. \A c \in Consumers : InSeq(Out(c)') = InSeq(Out(c)) /\ Rising(Out(c)')
  BY <1>5 DEF PlaceInv, Flowing
<1>10. Flowing'
  BY <1>4, <1>8, <1>9 DEF PlaceInv, Flowing, Ahead, AllMade
<1>11. AllMade' /\ NoneLost'
  BY <1>2, <1>3, <1>8, <1>9 DEF PlaceInv, AllMade, NoneLost
<1>12. Apart'
  BY <1>2, <1>4, <1>8, <1>9 DEF PlaceInv, Apart, AllMade
<1> QED
  BY <1>10, <1>11, <1>12 DEF PlaceInv

\* Every step leaves each value where it is or moves it on.
LEMMA PlaceInvariant == Spec => []PlaceInv
<1>1. Init => PlaceInv
  <2> SUFFICES ASSUME Init PROVE PlaceInv
    OBVIOUS
  <2>1. \A c \in Consumers : Out(c) = <<>>
    BY DEF Init, Out, Buffered
  <2>2. InSeq(<<>>) = {} /\ Rising(<<>>)
    BY DEF InSeq, Rising
  <2>3. Flowing
    BY <2>1, <2>2 DEF Init, Flowing, Ahead
  <2>4. Made = {}
    BY ChannelAssumption DEF Init, Made, Values
  <2>5. AllMade /\ NoneLost /\ Apart
    BY <2>1, <2>2, <2>4 DEF Init, AllMade, NoneLost, Apart
  <2> QED
    BY <2>3, <2>5 DEF PlaceInv
<1>2. TypeOK /\ PlaceInv /\ [Next]_vars => PlaceInv'
  <2> SUFFICES ASSUME TypeOK, PlaceInv, [Next]_vars PROVE PlaceInv'
    OBVIOUS
  <2>1. ASSUME NEW c \in Consumers, Consume(c) \/ StopConsumer(c) \/ StartConsumer(c)
        PROVE  PlaceInv'
    <3>1. /\ made' = made /\ \A d \in Consumers : d # c => Out(d)' = Out(d)
          /\ \/ Out(c)' = Out(c) /\ data' = data /\ dropped' = dropped
             \/ /\ data # <<>> /\ data' = Tail(data) /\ dropped' = dropped
                /\ Out(c)' = Append(Out(c), Head(data))
             \/ /\ Out(c)' = got[c] /\ data' = data
                /\ dropped' = dropped \cup InSeq(Buffered(c))
      BY <2>1, ConsumerMoves
    <3>2. CASE Out(c)' = Out(c) /\ data' = data /\ dropped' = dropped
      BY <3>1, <3>2, StillPlaces
    <3>3. CASE /\ data # <<>> /\ data' = Tail(data) /\ dropped' = dropped
               /\ Out(c)' = Append(Out(c), Head(data))
      BY <3>1, <3>3, TakePlaces
    <3>4. CASE /\ Out(c)' = got[c] /\ data' = data
               /\ dropped' = dropped \cup InSeq(Buffered(c))
      BY <3>1, <3>4, StopPlaces
    <3> QED
      BY <3>1, <3>2, <3>3, <3>4
  <2>2. ASSUME NEW p \in Producers, Complete(p) PROVE PlaceInv'
    BY <2>2, StillPlaces DEF Complete, Out, Buffered
  <2>3. ASSUME NEW f \in Flushers, Flush(f) \/ FlushEnds(f) PROVE PlaceInv'
    BY <2>3, StillPlaces DEF Flush, FlushEnds, Out, Buffered
  <2>4. CASE UNCHANGED vars
    BY <2>4, StillPlaces DEF vars, Out, Buffered
  <2> QED
    BY <2>1, <2>2, <2>3, <2>4, ProducePlaces, FlushPlaces DEF Next
<1> QED
  BY <1>1, <1>2, TypeCorrect, PTL DEF Spec

\* A consumer outputs the values of each producer in the order they were made,
\* whatever the other consumers take, flushes drop and stops lose.
THEOREM OrderCorrect == Spec => []OutputInOrder
<1>1. PlaceInv => OutputInOrder
  BY DEF PlaceInv, Flowing, Rising, After, Out, OutputInOrder
<1> QED
  BY <1>1, PlaceInvariant, PTL

\* A value is at no place of a sequence it is not in, and at one of one that rises.
LEMMA PlacesInFacts ==
    ASSUME NEW s \in Seq(Values), NEW w, NEW v, Rising(s)
    PROVE  /\ v \notin InSeq(s) => PlacesIn(s, w, v) = {}
           /\ v \in InSeq(s) => \E x : PlacesIn(s, w, v) = {x}
<1>1. v \notin InSeq(s) => PlacesIn(s, w, v) = {}
  BY DEF InSeq, PlacesIn
<1>2. ASSUME v \in InSeq(s) PROVE \E x : PlacesIn(s, w, v) = {x}
  <2>1. PICK i \in DOMAIN s : s[i] = v
    BY <1>2 DEF InSeq
  <2>2. ASSUME NEW j \in DOMAIN s, s[j] = v PROVE j = i
    <3>1. i \in Nat /\ j \in Nat /\ v[2] \in Nat
      BY <2>1, ChannelAssumption DEF Values
    <3>2. ~After(v, v)
      BY <3>1 DEF After
    <3>3. ~(i < j) /\ ~(j < i)
      BY <2>1, <2>2, <3>2 DEF Rising
    <3> QED
      BY <3>1, <3>3
  <2>3. {j \in DOMAIN s : s[j] = v} = {i}
    BY <2>1, <2>2
  <2>4. PlacesIn(s, w, v) = {<<w, i>>}
    BY <2>3 DEF PlacesIn
  <2> QED
    BY <2>4
<1> QED
  BY <1>1, <1>2

\* Where a value is in what a consumer took: output or buffered, not both.
LEMMA OutPlaces ==
    ASSUME TypeOK, PlaceInv, NEW c \in Consumers, NEW v
    PROVE  /\ v \notin InSeq(Out(c)) =>
                 PlacesIn(got[c], <<"got", c>>, v) = {} /\ PlacesIn(Buffered(c), <<"buffered", c>>, v) = {}
           /\ v \in InSeq(Out(c)) => \E x :
                 PlacesIn(got[c], <<"got", c>>, v) \cup PlacesIn(Buffered(c), <<"buffered", c>>, v) = {x}
<1>1. PICK p \in Seq(Values), q \in Seq(Values) : p = got[c] /\ q = Buffered(c)
  BY OutType
<1>2. Rising(p \o q) /\ Out(c) = p \o q
  BY <1>1 DEF PlaceInv, Flowing, Out
<1>3. Rising(p) /\ Rising(q) /\ InSeq(p \o q) = InSeq(p) \cup InSeq(q) /\ InSeq(p) \cap InSeq(q) = {}
  BY <1>2, CatRises
<1>4. /\ v \notin InSeq(p) => PlacesIn(p, <<"got", c>>, v) = {}
      /\ v \in InSeq(p) => \E x : PlacesIn(p, <<"got", c>>, v) = {x}
      /\ v \notin InSeq(q) => PlacesIn(q, <<"buffered", c>>, v) = {}
      /\ v \in InSeq(q) => \E x : PlacesIn(q, <<"buffered", c>>, v) = {x}
  BY <1>3, PlacesInFacts
<1> HIDE DEF PlacesIn, InSeq
<1>5. CASE v \notin InSeq(p) /\ v \notin InSeq(q)
  BY <1>1, <1>2, <1>3, <1>4, <1>5
<1>6. CASE v \in InSeq(p) /\ v \notin InSeq(q)
  BY <1>1, <1>2, <1>3, <1>4, <1>6
<1>7. CASE v \notin InSeq(p) /\ v \in InSeq(q)
  BY <1>1, <1>2, <1>3, <1>4, <1>7
<1> QED
  BY <1>3, <1>5, <1>6, <1>7

\* The places of a value, by who has it.
LEMMA OnePlace ==
    ASSUME TypeOK, PlaceInv, NEW v \in Values
    PROVE  IF v \in Made THEN \E x : Places(v) = {x} ELSE Places(v) = {}
<1> DEFINE inData == PlacesIn(data, <<"data">>, v)
           inGot(c) == PlacesIn(got[c], <<"got", c>>, v)
           inBuffer(c) == PlacesIn(Buffered(c), <<"buffered", c>>, v)
           inDropped == {<<<<"dropped">>, 0>> : d \in dropped \cap {v}}
           outOf(c) == inGot(c) \cup inBuffer(c)
           out == UNION {outOf(c) : c \in Consumers}
<1>1. Places(v) = inData \cup out \cup inDropped
  <2>1. Places(v) = inData \cup (UNION {inGot(c) : c \in Consumers})
                      \cup (UNION {inBuffer(c) : c \in Consumers}) \cup inDropped
    BY DEF Places
  <2> HIDE DEF inData, inGot, inBuffer, inDropped
  <2>2. out = (UNION {inGot(c) : c \in Consumers}) \cup (UNION {inBuffer(c) : c \in Consumers})
    OBVIOUS
  <2> HIDE DEF out
  <2> QED
    BY <2>1, <2>2
<1>2. /\ v \notin InSeq(data) => inData = {}
      /\ v \in InSeq(data) => \E x : inData = {x}
  BY PlacesInFacts DEF TypeOK, PlaceInv, Flowing
<1>3. \A c \in Consumers : /\ v \notin InSeq(Out(c)) => outOf(c) = {}
                           /\ v \in InSeq(Out(c)) => \E x : outOf(c) = {x}
  BY OutPlaces, Zenon
<1>4. /\ v \notin dropped => inDropped = {}
      /\ v \in dropped => inDropped = {<<<<"dropped">>, 0>>}
  OBVIOUS
<1> HIDE DEF inData, outOf, inDropped, out
<1>5. /\ v \in InSeq(data) => v \notin dropped /\ \A c \in Consumers : v \notin InSeq(Out(c))
      /\ v \in dropped => \A c \in Consumers : v \notin InSeq(Out(c))
      /\ \A c, d \in Consumers : v \in InSeq(Out(c)) /\ v \in InSeq(Out(d)) => c = d
  <2>1. v[2] \in Nat
    BY ChannelAssumption DEF Values
  <2>2. ~After(v, v)
    BY <2>1 DEF After
  <2>3. v \in InSeq(data) => \A c \in Consumers : v \notin InSeq(Out(c))
    BY <2>2 DEF PlaceInv, Flowing, Ahead
  <2> QED
    BY <2>3 DEF PlaceInv, Apart
<1>6. CASE v \notin Made
  <2>1. v \notin InSeq(data) /\ v \notin dropped /\ \A c \in Consumers : v \notin InSeq(Out(c))
    BY <1>6 DEF PlaceInv, AllMade
  <2>2. out = {}
    BY <1>3, <2>1 DEF out
  <2> QED
    BY <1>1, <1>2, <1>4, <1>6, <2>1, <2>2
<1>7. CASE v \in InSeq(data)
  <2>1. out = {}
    BY <1>3, <1>5, <1>7 DEF out
  <2>2. v \in Made
    BY <1>7 DEF PlaceInv, AllMade
  <2> QED
    BY <1>1, <1>2, <1>4, <1>5, <1>7, <2>1, <2>2
<1>8. CASE v \in dropped
  <2>1. out = {}
    BY <1>3, <1>5, <1>8 DEF out
  <2>2. v \in Made
    BY <1>8 DEF PlaceInv, AllMade
  <2>3. Places(v) = inDropped
    BY <1>1, <1>2, <1>5, <1>8, <2>1
  <2> QED
    BY <1>4, <1>8, <2>2, <2>3
<1>9. ASSUME NEW c \in Consumers, v \in InSeq(Out(c))
      PROVE  v \in Made /\ \E x : Places(v) = {x}
  <2>1. out = outOf(c)
    BY <1>3, <1>5, <1>9 DEF out
  <2>2. v \in Made
    BY <1>9 DEF PlaceInv, AllMade
  <2>3. inData = {} /\ inDropped = {}
    BY <1>2, <1>4, <1>5, <1>9
  <2> QED
    BY <1>1, <1>3, <1>9, <2>1, <2>2, <2>3
<1>10. v \in Made => \/ v \in InSeq(data) \/ v \in dropped
                     \/ \E c \in Consumers : v \in InSeq(Out(c))
  BY DEF PlaceInv, NoneLost
<1> QED
  BY <1>6, <1>7, <1>8, <1>9, <1>10

\* Nothing is lost and nothing delivered twice, for any wires on any threads.
THEOREM OnePlaceCorrect == Spec => []EveryValueInOnePlace
<1>1. TypeOK /\ PlaceInv => EveryValueInOnePlace
  <2> SUFFICES ASSUME TypeOK, PlaceInv, NEW v \in Values
               PROVE  Cardinality(Places(v)) = IF v[2] <= made[v[1]] THEN 1 ELSE 0
    BY DEF EveryValueInOnePlace
  <2>1. v \in Made <=> v[2] <= made[v[1]]
    BY DEF Made
  <2>2. CASE v \in Made
    <3>1. PICK x : Places(v) = {x}
      BY <2>2, OnePlace
    <3> QED
      BY <2>1, <2>2, <3>1, FS_Singleton
  <2>3. CASE v \notin Made
    BY <2>1, <2>3, OnePlace, FS_EmptySet
  <2> QED
    BY <2>2, <2>3
<1> QED
  BY <1>1, PlaceInvariant, TypeCorrect, PTL
=============================================================================
