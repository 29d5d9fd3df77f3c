------------------------------ MODULE Channel ------------------------------
(***************************************************************************)
(* The channels wires produce to and consume from (MPMCChannel and the     *)
(* shards Produce, Consume, Complete and Flush of                          *)
(* src/shards/modules/channels).  Meshes tick on threads of their own, so  *)
(* the wires of different meshes interleave at every access to the channel *)
(* while those of one mesh take turns: a wire only gives way at the        *)
(* suspension of a Consume, or when its iteration is over.                 *)
(***************************************************************************)
EXTENDS Naturals, Sequences, FiniteSets

CONSTANTS Producers, Consumers, Flushers,   \* the wires
          Threads, ThreadOf,                \* the thread that ticks each wire
          Buffer,                           \* Consumers::_bufferSize
          MaxValue                          \* bound: the values of a producer

Wires == Producers \cup Consumers \cup Flushers

ASSUME ChannelAssumption ==
    /\ Producers \cap Consumers = {} /\ Flushers \cap (Producers \cup Consumers) = {}
    /\ ThreadOf \in [Wires -> Threads]
    /\ Buffer \in [Consumers -> Nat \ {0}]
    /\ MaxValue \in Nat

Values == Producers \X (1 .. MaxValue)

VARIABLES
    data,       \* MPMCChannel::_data
    closed,     \* ChannelShared::closed
    made,       \* how many values each producer has produced
    at,         \* where each consumer is: in Consume, or not activated
    storage,    \* Consumers::_storage: what is buffered, then the output
    clearing,   \* the flushers inside MPMCChannel::clear
    got,        \* history: what each consumer has output
    dropped,    \* history: the values flushed, or buffered by a stopped wire
    promised,   \* history: the values produced before the channel was completed
    late        \* history: of a consumer, what came after its last failed pop

vars == <<data, closed, made, at, storage, clearing, got, dropped, promised, late>>

ConsumerSteps == {"idle", "pop", "look", "suspended", "ended", "off"}

Init ==
    /\ data = <<>> /\ closed = FALSE
    /\ made = [p \in Producers |-> 0]
    /\ at = [c \in Consumers |-> "idle"]
    /\ storage = [c \in Consumers |-> <<>>]
    /\ clearing = {}
    /\ got = [c \in Consumers |-> <<>>]
    /\ dropped = {} /\ promised = {}
    /\ late = [c \in Consumers |-> {}]

InSeq(s) == {s[i] : i \in DOMAIN s}

\* The thread of wire w is not inside the activation of another one.
Turn(w) ==
    /\ \A c \in Consumers : ThreadOf[c] = ThreadOf[w] => at[c] \notin {"pop", "look"}
    /\ \A f \in clearing : ThreadOf[f] # ThreadOf[w]

\* What an activation of c that goes on has buffered.
Buffered(c) == IF at[c] \in {"pop", "look", "suspended"} THEN storage[c] ELSE <<>>

Go(c, from, to) == at[c] = from /\ at' = [at EXCEPT ![c] = to]

-----------------------------------------------------------------------------
\* Mutant: the value goes to the head of the queue.
Push_Front(v) == data' = <<v>> \o data

Push(v) == data' = Append(data, v)

Produce(p) ==
    /\ Turn(p) /\ made[p] < MaxValue
    /\ made' = [made EXCEPT ![p] = @ + 1]
    /\ Push(<<p, made[p] + 1>>)
    /\ promised' = IF closed THEN promised ELSE promised \cup {<<p, made[p] + 1>>}
    /\ late' = [c \in Consumers |-> IF at[c] = "look"
                                    THEN late[c] \cup {<<p, made[p] + 1>>} ELSE late[c]]
    /\ UNCHANGED <<closed, at, storage, clearing, got, dropped>>

Complete(p) ==
    /\ Turn(p) /\ ~closed
    /\ closed' = TRUE
    /\ UNCHANGED <<data, made, at, storage, clearing, got, dropped, promised, late>>

-----------------------------------------------------------------------------
\* Mutant: a completed channel ends the flow before it is emptied.
Activate_LooksFirst(c) ==
    /\ Turn(c)
    /\ Go(c, "idle", IF closed THEN "look" ELSE "pop")
    /\ storage' = [storage EXCEPT ![c] = <<>>]
    /\ UNCHANGED <<data, closed, made, clearing, got, dropped, promised, late>>

\* The last output goes back to the channel and the buffer is empty.
Activate(c) ==
    /\ Turn(c)
    /\ Go(c, "idle", "pop")
    /\ storage' = [storage EXCEPT ![c] = <<>>]
    /\ UNCHANGED <<data, closed, made, clearing, got, dropped, promised, late>>

\* The activation is over and its output is s.
Output(c, s) ==
    /\ at' = [at EXCEPT ![c] = "idle"]
    /\ got' = [got EXCEPT ![c] = @ \o s]
    /\ storage' = [storage EXCEPT ![c] = s]

\* Mutant: the value stays in the queue.
Take_Peeks(c) == storage' = [storage EXCEPT ![c] = Append(@, Head(data))] /\ data' = data

Take(c) == storage' = [storage EXCEPT ![c] = Append(@, Head(data))] /\ data' = Tail(data)

PopMore(c) ==
    /\ at[c] = "pop" /\ data # <<>>
    /\ Len(storage[c]) + 1 < Buffer[c]
    /\ Take(c)
    /\ UNCHANGED <<closed, made, at, clearing, got, dropped, promised, late>>

PopLast(c) ==
    /\ at[c] = "pop" /\ data # <<>>
    /\ Len(storage[c]) + 1 = Buffer[c]
    /\ data' = Tail(data)
    /\ Output(c, Append(storage[c], Head(data)))
    /\ UNCHANGED <<closed, made, clearing, dropped, promised, late>>

PopFails(c) ==
    /\ data = <<>>
    /\ Go(c, "pop", "look")
    /\ late' = [late EXCEPT ![c] = {}]
    /\ UNCHANGED <<data, closed, made, storage, clearing, got, dropped, promised>>

LooksOpen(c) ==
    /\ ~closed
    /\ Go(c, "look", "suspended")
    /\ UNCHANGED <<data, closed, made, storage, clearing, got, dropped, promised, late>>

\* Mutant: a consumer waits for a full buffer whatever happens.
LooksClosed_Waits(c) ==
    /\ closed
    /\ Go(c, "look", "suspended")
    /\ UNCHANGED <<data, closed, made, storage, clearing, got, dropped, promised, late>>

\* Mutant: the end of the channel is one more output, Var::Empty.
LooksClosed_Outputs(c) ==
    /\ closed /\ at[c] = "look"
    /\ Output(c, IF storage[c] # <<>> THEN storage[c] ELSE <<<<"Empty", 0>>>>)
    /\ UNCHANGED <<data, closed, made, clearing, dropped, promised, late>>

\* A completed channel: the rest of the buffer first, then the flow stops.
LooksClosed(c) ==
    /\ closed /\ at[c] = "look"
    /\ IF storage[c] # <<>>
       THEN Output(c, storage[c])
       ELSE Go(c, "look", "ended") /\ UNCHANGED <<storage, got>>
    /\ UNCHANGED <<data, closed, made, clearing, dropped, promised, late>>

Resume(c) ==
    /\ Turn(c)
    /\ Go(c, "suspended", "pop")
    /\ UNCHANGED <<data, closed, made, storage, clearing, got, dropped, promised, late>>

\* The wire is stopped where it is suspended, and cleaned up.
StopConsumer(c) ==
    /\ Turn(c) /\ at[c] \in {"idle", "suspended"}
    /\ at' = [at EXCEPT ![c] = "off"]
    /\ dropped' = dropped \cup InSeq(Buffered(c))
    /\ storage' = [storage EXCEPT ![c] = <<>>]
    /\ UNCHANGED <<data, closed, made, clearing, got, promised, late>>

\* A wire that was stopped or has ended is scheduled again.
StartConsumer(c) ==
    /\ Turn(c)
    /\ at[c] \in {"off", "ended"}
    /\ at' = [at EXCEPT ![c] = "idle"]
    /\ UNCHANGED <<data, closed, made, storage, clearing, got, dropped, promised, late>>

-----------------------------------------------------------------------------
Flush(f) ==
    /\ Turn(f)
    /\ clearing' = clearing \cup {f}
    /\ UNCHANGED <<data, closed, made, at, storage, got, dropped, promised, late>>

\* One turn of the loop of clear(); it stops at the first pop that fails.
FlushOne(f) ==
    /\ f \in clearing /\ data # <<>>
    /\ dropped' = dropped \cup {Head(data)}
    /\ data' = Tail(data)
    /\ UNCHANGED <<closed, made, at, storage, clearing, got, promised, late>>

FlushEnds(f) ==
    /\ f \in clearing /\ data = <<>>
    /\ clearing' = clearing \ {f}
    /\ UNCHANGED <<data, closed, made, at, storage, got, dropped, promised, late>>

Consume(c) ==
    \/ Activate(c) \/ PopMore(c) \/ PopLast(c) \/ PopFails(c)
    \/ LooksOpen(c) \/ LooksClosed(c) \/ Resume(c)

Next ==
    \/ \E p \in Producers : Produce(p) \/ Complete(p)
    \/ \E c \in Consumers : Consume(c) \/ StopConsumer(c) \/ StartConsumer(c)
    \/ \E f \in Flushers : Flush(f) \/ FlushOne(f) \/ FlushEnds(f)

Spec == Init /\ [][Next]_vars

\* A looped consumer is ticked, one tick after the other, and its thread runs;
\* nothing has to be produced, completed, flushed, stopped or started.
Fairness ==
    /\ \A c \in Consumers :
          /\ WF_vars(PopMore(c) \/ PopLast(c) \/ PopFails(c) \/ LooksOpen(c) \/ LooksClosed(c))
          /\ SF_vars(Activate(c) \/ Resume(c))
    /\ \A f \in Flushers : WF_vars(FlushOne(f) \/ FlushEnds(f))

FairSpec == Spec /\ Fairness

-----------------------------------------------------------------------------
\* Every variable has its type.
TypeOK ==
    /\ data \in Seq(Values)
    /\ closed \in BOOLEAN
    /\ made \in [Producers -> 0 .. MaxValue]
    /\ at \in [Consumers -> ConsumerSteps]
    /\ storage \in [Consumers -> Seq(Values)]
    /\ clearing \subseteq Flushers
    /\ got \in [Consumers -> Seq(Values)]
    /\ dropped \subseteq Values /\ promised \subseteq Values
    /\ late \in [Consumers -> SUBSET Values]

PlacesIn(s, where, v) == {<<where, i>> : i \in {j \in DOMAIN s : s[j] = v}}
Places(v) ==
    PlacesIn(data, <<"data">>, v)
    \cup (UNION {PlacesIn(got[c], <<"got", c>>, v) : c \in Consumers})
    \cup (UNION {PlacesIn(Buffered(c), <<"buffered", c>>, v) : c \in Consumers})
    \cup {<<<<"dropped">>, 0>> : d \in dropped \cap {v}}

\* Nothing is lost or delivered twice: a value that was produced is queued,
\* buffered by one consumer, output by one, or dropped, and only once.
EveryValueInOnePlace ==
    \A v \in Values :
        Cardinality(Places(v)) = IF v[2] <= made[v[1]] THEN 1 ELSE 0

\* A consumer outputs the values of a producer in the order of production.
OutputInOrder ==
    \A c \in Consumers : LET out == got[c] \o Buffered(c) IN
        \A i, j \in DOMAIN out : i < j /\ out[i][1] = out[j][1] => out[i][2] < out[j][2]

\* A consumer that ends on a completed channel leaves behind, of what was
\* produced before, only what came between its last pop and its look at
\* "closed" (channels.cpp:273 and 275), which another thread can do.
LeftBehindIsLate ==
    \A c \in Consumers : at[c] = "ended" => promised \cap InSeq(data) \subseteq late[c]

\* Nothing comes in between if every producer is ticked by the thread of the
\* consumer: it leaves nothing.
Near(c) == \A p \in Producers : ThreadOf[p] = ThreadOf[c]
NothingLeftBehind ==
    \A c \in Consumers : Near(c) /\ at[c] = "ended" => promised \cap InSeq(data) = {}

\* A consumer of a completed channel ends, unless it is stopped first.
ConsumersEnd == \A c \in Consumers : closed ~> at[c] \in {"ended", "off"}
=============================================================================
