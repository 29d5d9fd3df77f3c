----------------------------- MODULE Broadcast -----------------------------
(***************************************************************************)
(* The channels wires broadcast on and listen to (BroadcastChannel and the *)
(* shards Broadcast, Listen and Complete of src/shards/modules/channels).  *)
(* Each Listen subscribes when it is composed and gets a queue of its own; *)
(* it marks the queue closed when it is cleaned up, and the next Broadcast *)
(* erases the queues so marked, memory included.                           *)
(*                                                                         *)
(* A Listen delivers one value at a time here (Buffer = 1): filling a      *)
(* buffer, and a wire being ticked by the thread of its mesh, are as in    *)
(* Channel.                                                                *)
(***************************************************************************)
EXTENDS Naturals, Sequences, FiniteSets

CONSTANTS Casters, Listeners,   \* the wires that broadcast, and that listen
          Threads, ThreadOf,    \* the thread that ticks each wire
          Subs, NoSub,          \* bound: the subscriptions there may ever be
          Recomposed,           \* the listeners composed each time they start
          MaxValue              \* bound: the values of a broadcaster

Wires == Casters \cup Listeners
Nobody == "nobody"

ASSUME BroadcastAssumption ==
    /\ Casters \cap Listeners = {}
    /\ ThreadOf \in [Wires -> Threads]
    /\ NoSub \notin Subs /\ IsFiniteSet(Subs) /\ Nobody \notin Casters
    /\ Recomposed \subseteq Listeners
    /\ MaxValue \in Nat

Values == Casters \X (1 .. MaxValue)

VARIABLES
    subs,       \* BroadcastChannel::subscribers
    used,       \* the subscriptions that were ever made
    data,       \* the queue of each subscription
    shut,       \* the subscriptions whose "closed" is set
    closed,     \* "closed" of the channel itself
    owner,      \* BroadcastChannel::subMutex: a broadcaster, or none
    todo,       \* the subscriptions the broadcast has still to visit
    made,       \* how many values each broadcaster has sent
    caster,     \* where each broadcaster is
    listener,   \* where each listener is
    sub,        \* Listen::_subscriptionChannel
    got,        \* history: what each subscription has delivered
    touched,    \* history: a listener used a subscription that was erased
    reused      \* history: the listeners that run again with the subscription of
                \* an earlier run

vars == <<subs, used, data, shut, closed, owner, todo, made, caster, listener,
          sub, got, touched, reused>>

CasterSteps == {"idle", "lock", "visit", "suspended"}
ListenerSteps == {"new", "idle", "pop", "look", "suspended", "recycle", "off"}

Init ==
    /\ subs = {} /\ used = {} /\ shut = {} /\ closed = FALSE
    /\ data = [s \in Subs |-> <<>>] /\ got = [s \in Subs |-> <<>>]
    /\ owner = Nobody /\ todo = {}
    /\ made = [b \in Casters |-> 0]
    /\ caster = [b \in Casters |-> "idle"]
    /\ listener = [l \in Listeners |-> "new"]
    /\ sub = [l \in Listeners |-> NoSub]
    /\ touched = FALSE /\ reused = {}

\* Mutant: a cleanup lets other wires run between its two halves.
Turn_CleanupYields(w) ==
    /\ ~touched
    /\ \A b \in Casters : ThreadOf[b] = ThreadOf[w] => caster[b] \in {"idle", "suspended"}
    /\ \A l \in Listeners : ThreadOf[l] = ThreadOf[w] =>
          listener[l] \in {"new", "idle", "suspended", "recycle", "off"}

\* The thread of wire w is not inside a shard of another one.  What the program
\* does once it has used an erased queue is undefined, and nothing starts here.
Turn(w) ==
    /\ ~touched
    /\ \A b \in Casters : ThreadOf[b] = ThreadOf[w] => caster[b] \in {"idle", "suspended"}
    /\ \A l \in Listeners : ThreadOf[l] = ThreadOf[w] =>
          listener[l] \in {"new", "idle", "suspended", "off"}

BGo(b, from, to) == caster[b] = from /\ caster' = [caster EXCEPT ![b] = to]
LGo(l, from, to) == listener[l] = from /\ listener' = [listener EXCEPT ![l] = to]

\* A use of the queue of l, which may be gone.
Touch(l) == touched' = (touched \/ sub[l] \notin subs)

-----------------------------------------------------------------------------
(***************************************************************************)
(* Broadcast::activate.                                                    *)
(***************************************************************************)
Cast(b) ==
    /\ Turn(b) /\ made[b] < MaxValue
    /\ BGo(b, "idle", "lock")
    /\ UNCHANGED <<subs, used, data, shut, closed, owner, todo, made, listener, sub,
                   got, touched, reused>>

TryLock(b) ==
    /\ owner = Nobody
    /\ BGo(b, "lock", "visit")
    /\ owner' = b
    /\ todo' = subs
    /\ made' = [made EXCEPT ![b] = @ + 1]
    /\ UNCHANGED <<subs, used, data, shut, closed, listener, sub, got, touched, reused>>

TryLockFails(b) ==
    /\ owner # Nobody
    /\ BGo(b, "lock", "suspended")
    /\ UNCHANGED <<subs, used, data, shut, closed, owner, todo, made, listener, sub,
                   got, touched, reused>>

ResumeCast(b) ==
    /\ Turn(b)
    /\ BGo(b, "suspended", "lock")
    /\ UNCHANGED <<subs, used, data, shut, closed, owner, todo, made, listener, sub,
                   got, touched, reused>>

\* The wire of a broadcaster is stopped while it has not got the lock.
StopCast(b) ==
    /\ Turn(b)
    /\ BGo(b, "suspended", "idle")
    /\ UNCHANGED <<subs, used, data, shut, closed, owner, todo, made, listener, sub,
                   got, touched, reused>>

\* Mutant: the queue is erased that comes after one that is closed.
Erase_Next(b, s) ==
    /\ caster[b] = "visit" /\ s \in todo /\ todo \cap shut # {}
    /\ todo' = todo \ {s}
    /\ subs' = subs \ {s}
    /\ data' = [data EXCEPT ![s] = <<>>]
    /\ UNCHANGED <<used, shut, closed, owner, made, caster, listener, sub, got, touched,
                   reused>>

Erase(b, s) ==
    /\ caster[b] = "visit" /\ s \in todo /\ s \in shut
    /\ todo' = todo \ {s}
    /\ subs' = subs \ {s}
    /\ data' = [data EXCEPT ![s] = <<>>]
    /\ UNCHANGED <<used, shut, closed, owner, made, caster, listener, sub, got,
                   touched, reused>>

\* Mutant: a value is pushed ahead of what is queued.
Send_Front(b, s) ==
    /\ caster[b] = "visit" /\ s \in todo /\ s \notin shut
    /\ todo' = todo \ {s}
    /\ data' = [data EXCEPT ![s] = <<<<b, made[b]>>>> \o @]
    /\ UNCHANGED <<subs, used, shut, closed, owner, made, caster, listener, sub, got,
                   touched, reused>>

Send(b, s) ==
    /\ caster[b] = "visit" /\ s \in todo /\ s \notin shut
    /\ todo' = todo \ {s}
    /\ data' = [data EXCEPT ![s] = Append(@, <<b, made[b]>>)]
    /\ UNCHANGED <<subs, used, shut, closed, owner, made, caster, listener, sub, got,
                   touched, reused>>

Unlock(b) ==
    /\ todo = {} /\ owner = b
    /\ BGo(b, "visit", "idle")
    /\ owner' = Nobody
    /\ UNCHANGED <<subs, used, data, shut, closed, todo, made, listener, sub, got,
                   touched, reused>>

Complete(b) ==
    /\ Turn(b) /\ ~closed
    /\ closed' = TRUE
    /\ UNCHANGED <<subs, used, data, shut, owner, todo, made, caster, listener, sub,
                   got, touched, reused>>

-----------------------------------------------------------------------------
(***************************************************************************)
(* Listen.                                                                 *)
(***************************************************************************)
\* Mutant: a subscription is made without the lock.
Subscribe_Unlocked(l) ==
    \E s \in Subs \ used :
        /\ subs' = subs \cup {s} /\ used' = used \cup {s}
        /\ sub' = [sub EXCEPT ![l] = s]

\* compose waits for the lock and adds a queue to the list.
Subscribe(l) ==
    \E s \in Subs \ used :
        /\ owner = Nobody
        /\ subs' = subs \cup {s} /\ used' = used \cup {s}
        /\ sub' = [sub EXCEPT ![l] = s]

\* The wire is scheduled: composed if it never was, or if it always is.
Compose(l) ==
    /\ Turn(l)
    /\ listener[l] = "new" \/ (listener[l] = "off" /\ l \in Recomposed)
    /\ listener' = [listener EXCEPT ![l] = "idle"]
    /\ Subscribe(l)
    /\ reused' = reused \ {l}
    /\ UNCHANGED <<data, shut, closed, owner, todo, made, caster, got, touched>>

\* Detach schedules a wire it composed once, again and again.
Restart(l) ==
    /\ Turn(l) /\ l \notin Recomposed
    /\ LGo(l, "off", "idle")
    /\ reused' = reused \cup {l}
    /\ UNCHANGED <<subs, used, data, shut, closed, owner, todo, made, caster, sub, got,
                   touched>>

\* The last output goes back to the queue.
Listen(l) ==
    /\ Turn(l)
    /\ LGo(l, "idle", "pop")
    /\ Touch(l)
    /\ UNCHANGED <<subs, used, data, shut, closed, owner, todo, made, caster, sub,
                   got, reused>>

Pop(l) ==
    /\ LGo(l, "pop", "idle")
    /\ data[sub[l]] # <<>>
    /\ data' = [data EXCEPT ![sub[l]] = Tail(@)]
    /\ got' = [got EXCEPT ![sub[l]] = Append(@, Head(data[sub[l]]))]
    /\ Touch(l)
    /\ UNCHANGED <<subs, used, shut, closed, owner, todo, made, caster, sub, reused>>

PopFails(l) ==
    /\ LGo(l, "pop", "look")
    /\ data[sub[l]] = <<>>
    /\ Touch(l)
    /\ UNCHANGED <<subs, used, data, shut, closed, owner, todo, made, caster, sub,
                   got, reused>>

LooksOpen(l) ==
    /\ ~closed
    /\ LGo(l, "look", "suspended")
    /\ UNCHANGED <<subs, used, data, shut, closed, owner, todo, made, caster, sub,
                   got, touched, reused>>

\* The first half of cleanup; the second is Recycle.
Shut(l) == shut' = shut \cup {sub[l]}

\* The flow stops, and the wire is cleaned up by the tick that follows.
LooksClosed(l) ==
    /\ closed
    /\ LGo(l, "look", "recycle")
    /\ Shut(l) /\ Touch(l)
    /\ UNCHANGED <<subs, used, data, closed, owner, todo, made, caster, sub, got,
                   reused>>

Resume(l) ==
    /\ Turn(l)
    /\ LGo(l, "suspended", "pop")
    /\ UNCHANGED <<subs, used, data, shut, closed, owner, todo, made, caster, sub,
                   got, touched, reused>>

\* Mutant: cleanup does not look whether there is a subscription.
StopListener_Unchecked(l) ==
    /\ Turn(l) /\ listener[l] \in {"new", "idle", "suspended"}
    /\ listener' = [listener EXCEPT ![l] = "recycle"]
    /\ Shut(l) /\ Touch(l)
    /\ UNCHANGED <<subs, used, data, closed, owner, todo, made, caster, sub, got,
                   reused>>

\* The wire is stopped and cleaned up.
StopListener(l) ==
    /\ Turn(l) /\ listener[l] \in {"idle", "suspended"}
    /\ listener' = [listener EXCEPT ![l] = "recycle"]
    /\ Shut(l) /\ Touch(l)
    /\ UNCHANGED <<subs, used, data, closed, owner, todo, made, caster, sub, got,
                   reused>>

\* The second half of cleanup: the storage goes back to the queue.
Recycle(l) ==
    /\ LGo(l, "recycle", "off")
    /\ Touch(l)
    /\ UNCHANGED <<subs, used, data, shut, closed, owner, todo, made, caster, sub,
                   got, reused>>

-----------------------------------------------------------------------------
BroadcastStep(b) ==
    \/ TryLock(b) \/ TryLockFails(b) \/ ResumeCast(b) \/ Unlock(b)
    \/ \E s \in Subs : Erase(b, s) \/ Send(b, s)
ListenStep(l) ==
    \/ Listen(l) \/ Pop(l) \/ PopFails(l) \/ LooksOpen(l) \/ LooksClosed(l)
    \/ Resume(l) \/ Recycle(l)

Next ==
    \/ \E b \in Casters : Cast(b) \/ StopCast(b) \/ Complete(b) \/ BroadcastStep(b)
    \/ \E l \in Listeners : Compose(l) \/ Restart(l) \/ StopListener(l) \/ ListenStep(l)

Spec == Init /\ [][Next]_vars

-----------------------------------------------------------------------------
\* Every variable has its type.
TypeOK ==
    /\ subs \subseteq used /\ used \subseteq Subs /\ shut \subseteq Subs
    /\ data \in [Subs -> Seq(Values)] /\ got \in [Subs -> Seq(Values)]
    /\ closed \in BOOLEAN /\ touched \in BOOLEAN
    /\ reused \subseteq Listeners \ Recomposed
    /\ owner \in Casters \cup {Nobody} /\ todo \subseteq Subs
    /\ made \in [Casters -> 0 .. MaxValue]
    /\ caster \in [Casters -> CasterSteps]
    /\ listener \in [Listeners -> ListenerSteps]
    /\ sub \in [Listeners -> Subs \cup {NoSub}]

\* All that a subscription was sent.
Sent(s) == got[s] \o data[s]
Before(s, u, v) == \E i, j \in DOMAIN Sent(s) : i < j /\ Sent(s)[i] = u /\ Sent(s)[j] = v

\* The listeners agree on the order of what they hear, however many wires
\* broadcast: a broadcast holds the lock until it has visited every subscriber.
SameOrder ==
    \A s, t \in Subs : \A i, j \in DOMAIN Sent(s) :
        i < j => ~Before(t, Sent(s)[j], Sent(s)[i])

\* Only the broadcast with the lock goes through the list; what it has still to
\* visit is in the list, which does not change under its iterator; and what it
\* has visited and is open has its value, so nothing is skipped.
ListIsLocked ==
    /\ \A b \in Casters : caster[b] = "visit" <=> owner = b
    /\ owner # Nobody => todo \subseteq subs
    /\ \A b \in Casters, s \in subs \ todo :
          caster[b] = "visit" /\ s \notin shut =>
              \E i \in DOMAIN Sent(s) : Sent(s)[i] = <<b, made[b]>>

\* A listener that has not been cleaned up has its queue in the list, and open,
\* unless it runs again with the one of an earlier run.
ListenersAreSubscribed ==
    \A l \in Listeners \ reused :
        listener[l] \in {"idle", "pop", "look", "suspended"} =>
            sub[l] \in subs /\ sub[l] \notin shut

\* "we automatically cleanup based on the closed flag of the inner channel"
\* (channels.hpp:79): a queue is erased when its listener is through with it,
\* or between the two halves of the cleanup, by a broadcast of another thread.
\* Again a listener that keeps its queue from one run to the next is excepted.
ErasesWhatIsDone ==
    [][\A l \in Listeners \ reused :
          sub[l] \in subs \ subs' =>
              \/ listener[l] = "off"
              \/ listener[l] = "recycle" /\ ThreadOf[owner] # ThreadOf[l]]_vars
=============================================================================
