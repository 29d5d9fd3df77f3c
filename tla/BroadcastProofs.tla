-------------------------- MODULE BroadcastProofs --------------------------
(***************************************************************************)
(* Proofs about Broadcast, for any wires on any threads: its types; that   *)
(* the list of subscriptions only changes under the lock; that a listener  *)
(* composed for its run is in the list; when its queue may be erased; and  *)
(* that all listeners hear the same order.                                 *)
(***************************************************************************)
EXTENDS Broadcast, TLAPS

\* A wire that waits for the lock has a value left, one that has it has sent one.
HasValue ==
    \A b \in Casters : /\ caster[b] \in {"lock", "suspended"} => made[b] < MaxValue
                       /\ caster[b] = "visit" => made[b] # 0

\* A listener that was ever composed has a subscription.
Composed == \A l \in Listeners : listener[l] # "new" => sub[l] \in used

TInv == TypeOK /\ HasValue /\ Composed

\* The types and the two facts they rest on hold always.
LEMMA TypeInvariant == Spec => []TInv
<1>1. Init => TInv
  <2>1. SUFFICES ASSUME Init PROVE TInv
    OBVIOUS
  <2>2. <<>> \in Seq(Values) /\ 0 \in 0 .. MaxValue
    BY BroadcastAssumption
  <2>3. /\ data \in [Subs -> Seq(Values)] /\ got \in [Subs -> Seq(Values)]
        /\ made \in [Casters -> 0 .. MaxValue] /\ caster \in [Casters -> CasterSteps]
        /\ listener \in [Listeners -> ListenerSteps]
    BY <2>1, <2>2 DEF Init, CasterSteps, ListenerSteps
  <2>4. QED
    BY <2>1, <2>3 DEF Init, TInv, TypeOK, HasValue, Composed
<1>2. TInv /\ [Next]_vars => TInv'
  <2>1. SUFFICES ASSUME TInv, [Next]_vars PROVE TInv'
    OBVIOUS
  <2>2. TypeOK /\ HasValue /\ Composed
    BY <2>1 DEF TInv
  <2>3. CASE UNCHANGED vars
    BY <2>2, <2>3 DEF vars, TInv, TypeOK, HasValue, Composed
  <2>4. ASSUME NEW b \in Casters,
               Cast(b) \/ TryLockFails(b) \/ ResumeCast(b) \/ StopCast(b) \/ Unlock(b)
        PROVE  TypeOK' /\ HasValue'
    <3>1. caster' \in [Casters -> CasterSteps] /\ HasValue' /\ made' = made
        BY <2>2, <2>4 DEF Cast, TryLockFails, ResumeCast, StopCast, Unlock, BGo, TypeOK,
                          CasterSteps, HasValue
    <3>2. QED
        BY <2>2, <2>4, <3>1
        DEF Cast, TryLockFails, ResumeCast, StopCast, Unlock, TypeOK
  <2>5. ASSUME NEW b \in Casters, TryLock(b) PROVE TypeOK' /\ HasValue'
    <3>1. made[b] < MaxValue /\ made[b] + 1 \in 0 .. MaxValue
        BY <2>2, <2>5, BroadcastAssumption DEF TryLock, BGo, HasValue, TypeOK
    <3>2. made' \in [Casters -> 0 .. MaxValue] /\ caster' \in [Casters -> CasterSteps]
        BY <2>2, <2>5, <3>1 DEF TryLock, BGo, TypeOK, CasterSteps
    <3>3. HasValue'
        BY <2>2, <2>5 DEF TryLock, BGo, TypeOK, HasValue
    <3>4. QED
        BY <2>2, <2>5, <3>2, <3>3 DEF TryLock, TypeOK
  <2>6. ASSUME NEW b \in Casters, NEW s \in Subs, Erase(b, s) \/ Send(b, s) PROVE TypeOK' /\ HasValue'
    <3>1. <<b, made[b]>> \in Values
        BY <2>2, <2>6, BroadcastAssumption DEF Erase, Send, TypeOK, HasValue, Values
    <3>2. CASE Erase(b, s)
      <4>1. data' \in [Subs -> Seq(Values)]
        BY <2>2, <3>2 DEF Erase, TypeOK
      <4>2. QED
        BY <2>2, <3>2, <4>1 DEF Erase, TypeOK, HasValue
    <3>3. CASE Send(b, s)
      <4>1. data' \in [Subs -> Seq(Values)]
        BY <2>2, <3>1, <3>3 DEF Send, TypeOK
      <4>2. QED
        BY <2>2, <3>3, <4>1 DEF Send, TypeOK, HasValue
    <3>4. QED
        BY <2>6, <3>2, <3>3
  <2>7. ASSUME NEW b \in Casters, Complete(b) PROVE TypeOK' /\ HasValue'
    BY <2>2, <2>7 DEF Complete, TypeOK, HasValue
  <2>8. ASSUME NEW l \in Listeners, Compose(l) PROVE TypeOK' /\ HasValue'
    <3>1. /\ subs' \subseteq used' /\ used' \subseteq Subs
          /\ sub' \in [Listeners -> Subs \cup {NoSub}]
          /\ listener' \in [Listeners -> ListenerSteps]
        BY <2>2, <2>8 DEF Compose, Subscribe, TypeOK, ListenerSteps
    <3>2. QED
        BY <2>2, <2>8, <3>1 DEF Compose, TypeOK, HasValue
  <2>9. ASSUME NEW l \in Listeners,
               Restart(l) \/ LooksOpen(l) \/ Resume(l)
               \/ Listen(l) \/ PopFails(l) \/ Recycle(l)
        PROVE  TypeOK' /\ HasValue'
    <3>1. listener' \in [Listeners -> ListenerSteps] /\ touched' \in BOOLEAN
        BY <2>2, <2>9 DEF Restart, Listen, PopFails, LooksOpen, Resume, Recycle, LGo, Touch,
                          TypeOK, ListenerSteps
    <3>2. QED
        BY <2>2, <2>9, <3>1
        DEF Restart, Listen, PopFails, LooksOpen, Resume, Recycle, TypeOK, HasValue
  <2>10. ASSUME NEW l \in Listeners, StopListener(l) \/ LooksClosed(l),
                sub[l] \in Subs
         PROVE  TypeOK' /\ HasValue'
    <3>1. /\ listener' \in [Listeners -> ListenerSteps] /\ touched' \in BOOLEAN
          /\ shut' \subseteq Subs
        BY <2>2, <2>10 DEF StopListener, LooksClosed, LGo, Touch, Shut, TypeOK, ListenerSteps
    <3>2. QED
        BY <2>2, <2>10, <3>1 DEF StopListener, LooksClosed, TypeOK, HasValue
  <2>11. ASSUME NEW l \in Listeners, Pop(l), sub[l] \in Subs PROVE TypeOK' /\ HasValue'
    <3>1. Head(data[sub[l]]) \in Values /\ Tail(data[sub[l]]) \in Seq(Values)
        BY <2>2, <2>11 DEF Pop, TypeOK
    <3>2. Append(got[sub[l]], Head(data[sub[l]])) \in Seq(Values)
        BY <2>2, <2>11, <3>1 DEF TypeOK
    <3>3. data' \in [Subs -> Seq(Values)] /\ got' \in [Subs -> Seq(Values)]
        BY <2>2, <2>11, <3>1, <3>2 DEF Pop, TypeOK
    <3>4. listener' \in [Listeners -> ListenerSteps] /\ touched' \in BOOLEAN
        BY <2>2, <2>11 DEF Pop, LGo, Touch, TypeOK, ListenerSteps
    <3>5. QED
        BY <2>2, <2>11, <3>3, <3>4 DEF Pop, TypeOK, HasValue
  <2>12. ASSUME NEW l \in Listeners, listener[l] # "new" PROVE sub[l] \in Subs
    BY <2>2, <2>12 DEF Composed, TypeOK
  <2>13. CASE Next
    <3>1. ASSUME NEW l \in Listeners, StopListener(l) \/ LooksClosed(l) \/ Pop(l)
          PROVE  sub[l] \in Subs
        BY <2>12, <3>1 DEF StopListener, LooksClosed, Pop, LGo
    <3>2. TypeOK' /\ HasValue'
        BY <2>4, <2>5, <2>6, <2>7, <2>8, <2>9, <2>10, <2>11, <2>13, <3>1
        DEF Next, BroadcastStep, ListenStep
    <3>3. ASSUME NEW b \in Casters, Cast(b) \/ StopCast(b) \/ Complete(b) \/ BroadcastStep(b)
          PROVE  UNCHANGED <<listener, sub, used>>
        BY <3>3 DEF Cast, StopCast, Complete, BroadcastStep, TryLock, TryLockFails,
                    ResumeCast, Unlock, Erase, Send
    <3>4. ASSUME NEW l \in Listeners, Compose(l) PROVE Composed'
        BY <2>2, <3>4 DEF Compose, Subscribe, Composed, TypeOK
    <3>5. ASSUME NEW l \in Listeners, Restart(l) \/ StopListener(l) \/ ListenStep(l)
          PROVE  /\ UNCHANGED <<sub, used>> /\ listener[l] # "new"
                 /\ \A k \in Listeners \ {l} : listener'[k] = listener[k]
        BY <2>2, <3>5 DEF Restart, StopListener, ListenStep, Listen, Pop, PopFails, LooksOpen,
                          LooksClosed, Resume, Recycle, LGo, TypeOK
    <3>6. Composed'
        BY <2>2, <2>13, <3>3, <3>4, <3>5 DEF Next, Composed
    <3>7. QED
        BY <3>2, <3>6 DEF TInv
  <2>14. QED
    BY <2>1, <2>3, <2>13
<1>3. QED
  BY <1>1, <1>2, PTL DEF Spec

\* The variables have their types: a listener that runs or is cleaned up has a
\* subscription, and no broadcast sends more than it has.
THEOREM TypeCorrect == Spec => []TypeOK
<1>1. TInv => TypeOK
  BY DEF TInv
<1>2. QED
  BY <1>1, TypeInvariant, PTL

-----------------------------------------------------------------------------
\* A subscription belongs to one listener.
OwnSub ==
    /\ shut \subseteq used
    /\ \A l, k \in Listeners : l # k /\ sub[l] = sub[k] => sub[l] = NoSub
    /\ \A l \in Listeners : sub[l] \in used \cup {NoSub}

SInv == OwnSub /\ ListenersAreSubscribed

\* What a subscription belongs to, and that it is in the list.
LEMMA SubscriptionInvariant == Spec => []SInv
<1>1. Init => SInv
  BY BroadcastAssumption DEF Init, SInv, OwnSub, ListenersAreSubscribed
<1>2. TInv /\ SInv /\ [Next]_vars => SInv'
  <2>1. SUFFICES ASSUME TInv, SInv, [Next]_vars PROVE SInv'
    OBVIOUS
  <2>2. TypeOK /\ Composed /\ OwnSub /\ ListenersAreSubscribed
    BY <2>1 DEF TInv, SInv
  <2>3. CASE UNCHANGED vars
    BY <2>2, <2>3 DEF vars, SInv, OwnSub, ListenersAreSubscribed
  <2>4. ASSUME NEW b \in Casters, Cast(b) \/ StopCast(b) \/ Complete(b) \/ BroadcastStep(b)
        PROVE  SInv'
    <3>1. /\ UNCHANGED <<listener, sub, used, shut, reused>>
          /\ \A s \in subs : s \notin shut => s \in subs'
      <4>1. CASE \E s \in Subs : Erase(b, s) \/ Send(b, s)
        BY <4>1 DEF Erase, Send
      <4>2. CASE ~ \E s \in Subs : Erase(b, s) \/ Send(b, s)
        BY <2>4, <4>2 DEF Cast, StopCast, Complete, BroadcastStep, TryLock, TryLockFails,
                          ResumeCast, Unlock
      <4>3. QED
        BY <4>1, <4>2
    <3>2. QED
        BY <2>2, <3>1 DEF SInv, OwnSub, ListenersAreSubscribed
  <2>5. ASSUME NEW l \in Listeners, Compose(l) PROVE SInv'
    <3>1. PICK s \in Subs \ used : /\ subs' = subs \cup {s} /\ used' = used \cup {s}
                                   /\ sub' = [sub EXCEPT ![l] = s]
        BY <2>5 DEF Compose, Subscribe
    <3>2. /\ shut' = shut /\ reused' = reused \ {l}
          /\ \A k \in Listeners \ {l} : listener'[k] = listener[k]
        BY <2>2, <2>5 DEF Compose, TypeOK
    <3>3. OwnSub'
        BY <2>2, <3>1, <3>2, BroadcastAssumption DEF OwnSub, TypeOK
    <3>4. QED
        BY <2>2, <3>1, <3>2, <3>3, BroadcastAssumption
        DEF SInv, OwnSub, ListenersAreSubscribed, TypeOK
  <2>6. ASSUME NEW l \in Listeners, StopListener(l) \/ LooksClosed(l) PROVE SInv'
    <3>1. /\ UNCHANGED <<subs, used, sub, reused>> /\ shut' = shut \cup {sub[l]}
          /\ sub[l] \in used /\ sub[l] # NoSub /\ listener'[l] = "recycle"
          /\ \A k \in Listeners \ {l} : listener'[k] = listener[k]
        BY <2>2, <2>6, BroadcastAssumption
        DEF StopListener, LooksClosed, Shut, LGo, TypeOK, Composed
    <3>2. OwnSub'
        BY <2>2, <3>1 DEF OwnSub
    <3>3. ASSUME NEW k \in Listeners \ reused,
                 listener'[k] \in {"idle", "pop", "look", "suspended"}
          PROVE  sub[k] \in subs /\ sub[k] \notin shut'
        BY <2>2, <3>1, <3>3, BroadcastAssumption DEF OwnSub, ListenersAreSubscribed
    <3>4. QED
        BY <3>1, <3>2, <3>3 DEF SInv, ListenersAreSubscribed
  <2>7. ASSUME NEW l \in Listeners,
               Restart(l) \/ Listen(l) \/ Pop(l) \/ PopFails(l) \/ LooksOpen(l)
               \/ Resume(l) \/ Recycle(l)
        PROVE  SInv'
    <3>1. /\ UNCHANGED <<subs, used, sub, shut>>
          /\ reused \subseteq reused'
          /\ \A k \in Listeners \ reused' :
                listener'[k] \in {"idle", "pop", "look", "suspended"} =>
                    listener[k] \in {"idle", "pop", "look", "suspended"}
        BY <2>2, <2>7, BroadcastAssumption
        DEF Restart, Listen, Pop, PopFails, LooksOpen, Resume, Recycle, LGo, TypeOK
    <3>2. QED
        BY <2>2, <3>1 DEF SInv, OwnSub, ListenersAreSubscribed
  <2>8. QED
    BY <2>1, <2>3, <2>4, <2>5, <2>6, <2>7 DEF Next, ListenStep
<1>3. QED
  BY <1>1, <1>2, TypeInvariant, PTL DEF Spec

\* A listener keeps the queue it was composed with in the list until its wire is
\* cleaned up, whatever other wires do: a broadcast erases what is shut, and
\* nobody else shuts it.
THEOREM SubscribedCorrect == Spec => []ListenersAreSubscribed
<1>1. SInv => ListenersAreSubscribed
  BY DEF SInv
<1>2. QED
  BY <1>1, SubscriptionInvariant, PTL

-----------------------------------------------------------------------------
\* A value that is popped moves from the queue to what was delivered.
LEMMA PopKeeps ==
    ASSUME NEW S, NEW g \in Seq(S), NEW d \in Seq(S), d # <<>>
    PROVE  Append(g, Head(d)) \o Tail(d) = g \o d
<1>1. Head(d) \in S /\ Tail(d) \in Seq(S) /\ Len(Tail(d)) = Len(d) - 1 /\ Len(d) \in Nat \ {0}
  OBVIOUS
<1>2. Append(g, Head(d)) \in Seq(S) /\ Len(Append(g, Head(d))) = Len(g) + 1
  BY <1>1
<1>3. Len(Append(g, Head(d)) \o Tail(d)) = Len(g \o d)
  BY <1>1, <1>2
<1>4. ASSUME NEW i \in 1 .. Len(g \o d)
      PROVE  (Append(g, Head(d)) \o Tail(d))[i] = (g \o d)[i]
  <2>1. CASE i <= Len(g)
    BY <1>1, <1>2, <2>1
  <2>2. CASE i = Len(g) + 1
    BY <1>1, <1>2, <2>2
  <2>3. CASE i > Len(g) + 1
    BY <1>1, <1>2, <2>3
  <2>4. QED
    BY <2>1, <2>2, <2>3
<1>5. g \o d \in Seq(S) /\ Append(g, Head(d)) \o Tail(d) \in Seq(S)
  BY <1>1, <1>2
<1>6. QED
  BY <1>3, <1>4, <1>5

\* A pop moves a value from the queue to what was delivered.
LEMMA PopSendsNothing ==
    ASSUME TInv, NEW l \in Listeners, Pop(l)
    PROVE  \A s \in Subs : Sent(s)' = Sent(s)
<1>1. TypeOK /\ sub[l] \in Subs
  BY DEF TInv, TypeOK, Composed, Pop, LGo
<1>2. got'[sub[l]] = Append(got[sub[l]], Head(data[sub[l]])) /\ data'[sub[l]] = Tail(data[sub[l]])
  BY <1>1 DEF Pop, TypeOK
<1>3. got'[sub[l]] \o data'[sub[l]] = got[sub[l]] \o data[sub[l]]
  BY <1>1, <1>2, PopKeeps DEF Pop, TypeOK
<1>4. ASSUME NEW s \in Subs, s # sub[l] PROVE Sent(s)' = Sent(s)
  BY <1>1, <1>4 DEF Pop, Sent, TypeOK
<1> QED
  BY <1>1, <1>3, <1>4 DEF Sent

\* The list of subscriptions is only changed by who has the lock, so that a
\* broadcast visits all that are in it.
THEOREM ListCorrect == Spec => []ListIsLocked
<1>1. Init => ListIsLocked
  BY BroadcastAssumption DEF Init, ListIsLocked
<1>2. TInv /\ ListIsLocked /\ [Next]_vars => ListIsLocked'
  <2>1. SUFFICES ASSUME TInv, ListIsLocked, [Next]_vars PROVE ListIsLocked'
    OBVIOUS
  <2>2. TypeOK /\ HasValue /\ Composed /\ ListIsLocked
    BY <2>1 DEF TInv
  <2>3. CASE UNCHANGED vars
    BY <2>2, <2>3 DEF vars, ListIsLocked, Sent
  <2>4. ASSUME UNCHANGED <<subs, todo, owner, made>>, shut \subseteq shut',
               \A s \in Subs : Sent(s)' = Sent(s),
               \A b \in Casters : caster'[b] = "visit" <=> caster[b] = "visit"
        PROVE  ListIsLocked'
    BY <2>2, <2>4 DEF ListIsLocked, TypeOK
  <2>5. ASSUME NEW b \in Casters,
               Cast(b) \/ TryLockFails(b) \/ ResumeCast(b) \/ StopCast(b) \/ Complete(b)
        PROVE  ListIsLocked'
    <3>1. /\ UNCHANGED <<subs, todo, owner, made, shut, got, data>>
          /\ \A c \in Casters : caster'[c] = "visit" <=> caster[c] = "visit"
        BY <2>2, <2>5 DEF Cast, TryLockFails, ResumeCast, StopCast, Complete, BGo, TypeOK
    <3>2. QED
        BY <2>4, <3>1 DEF Sent
  <2>6. ASSUME NEW b \in Casters, TryLock(b) PROVE ListIsLocked'
    <3>1. \A c \in Casters : caster[c] # "visit"
        BY <2>2, <2>6, BroadcastAssumption DEF TryLock, ListIsLocked
    <3>2. /\ owner' = b /\ todo' = subs' /\ caster'[b] = "visit"
          /\ \A c \in Casters \ {b} : caster'[c] # "visit"
        BY <2>2, <2>6, <3>1 DEF TryLock, BGo, TypeOK
    <3>3. QED
        BY <3>2 DEF ListIsLocked
  <2>7. ASSUME NEW b \in Casters, Unlock(b) PROVE ListIsLocked'
    <3>1. /\ owner' = Nobody /\ caster'[b] # "visit"
          /\ \A c \in Casters \ {b} : caster'[c] = caster[c] /\ caster[c] # "visit"
        BY <2>2, <2>7 DEF Unlock, BGo, TypeOK, ListIsLocked
    <3>2. QED
        BY <3>1, BroadcastAssumption DEF ListIsLocked
  <2>8. ASSUME NEW b \in Casters, NEW s \in Subs, Erase(b, s) PROVE ListIsLocked'
    <3>1. /\ todo' = todo \ {s} /\ subs' = subs \ {s} /\ UNCHANGED <<owner, caster, made, shut>>
          /\ \A t \in Subs \ {s} : Sent(t)' = Sent(t)
        BY <2>2, <2>8 DEF Erase, Sent, TypeOK
    <3>2. QED
        BY <2>2, <3>1 DEF ListIsLocked, TypeOK
  <2>9. ASSUME NEW b \in Casters, NEW s \in Subs, Send(b, s) PROVE ListIsLocked'
    <3>1. /\ todo' = todo \ {s} /\ UNCHANGED <<subs, owner, caster, made, shut>>
          /\ caster[b] = "visit"
          /\ \A t \in Subs \ {s} : Sent(t)' = Sent(t)
        BY <2>2, <2>9 DEF Send, Sent, TypeOK
    <3>2. Sent(s)' = got[s] \o Append(data[s], <<b, made[b]>>)
        BY <2>2, <2>9 DEF Send, Sent, TypeOK
    <3>3. \E i \in DOMAIN Sent(s)' : Sent(s)'[i] = <<b, made[b]>>
      <4>1. got[s] \in Seq(Values) /\ data[s] \in Seq(Values)
        BY <2>2 DEF TypeOK
      <4>2. <<b, made[b]>> \in Values
        BY <2>2, <3>1, BroadcastAssumption DEF TypeOK, HasValue, Values
      <4>3. QED
        <5>1. PICK q : q = Append(data[s], <<b, made[b]>>)
            OBVIOUS
        <5>2. q \in Seq(Values) /\ Len(q) \in Nat \ {0} /\ q[Len(q)] = <<b, made[b]>>
            BY <4>1, <4>2, <5>1
        <5>3. /\ Len(got[s]) + Len(q) \in DOMAIN (got[s] \o q)
              /\ (got[s] \o q)[Len(got[s]) + Len(q)] = q[Len(q)]
            BY <4>1, <5>2
        <5>4. Sent(s)' = got[s] \o q
            BY <3>2, <5>1
        <5>5. /\ Len(got[s]) + Len(q) \in DOMAIN Sent(s)'
              /\ Sent(s)'[Len(got[s]) + Len(q)] = <<b, made[b]>>
            BY <5>2, <5>3, <5>4, Zenon
        <5>6. QED
            BY <5>5, Zenon
    <3>4. \A c \in Casters : caster[c] = "visit" => c = b
        BY <2>2, <3>1 DEF ListIsLocked
    <3>5. QED
        BY <2>2, <3>1, <3>3, <3>4 DEF ListIsLocked, TypeOK
  <2>10. ASSUME NEW l \in Listeners, Compose(l) PROVE ListIsLocked'
    <3>1. owner = Nobody /\ UNCHANGED <<owner, caster>>
        BY <2>10 DEF Compose, Subscribe
    <3>2. \A c \in Casters : caster[c] # "visit"
        BY <2>2, <3>1, BroadcastAssumption DEF ListIsLocked
    <3>3. QED
        BY <2>2, <3>1, <3>2 DEF ListIsLocked
  <2>11. ASSUME NEW l \in Listeners,
                Restart(l) \/ Listen(l) \/ PopFails(l) \/ LooksOpen(l) \/ LooksClosed(l)
                \/ Resume(l) \/ StopListener(l) \/ Recycle(l)
         PROVE  ListIsLocked'
    <3>1. UNCHANGED <<subs, todo, owner, made, caster, got, data>> /\ shut \subseteq shut'
        BY <2>11 DEF Restart, Listen, PopFails, LooksOpen, LooksClosed, Resume, StopListener,
                     Recycle, Shut
    <3>2. QED
        BY <2>4, <3>1 DEF Sent
  <2>12. ASSUME NEW l \in Listeners, Pop(l) PROVE ListIsLocked'
    <3>1. UNCHANGED <<subs, todo, owner, made, caster, shut>>
        BY <2>12 DEF Pop
    <3>2. QED
        BY <2>1, <2>4, <2>12, <3>1, PopSendsNothing
  <2>13. QED
    BY <2>1, <2>3, <2>5, <2>6, <2>7, <2>8, <2>9, <2>10, <2>11, <2>12
    DEF Next, BroadcastStep, ListenStep
<1>3. QED
  BY <1>1, <1>2, TypeInvariant, PTL DEF Spec

-----------------------------------------------------------------------------
\* A wire that was never started has no queue, and a wire that broadcasts and
\* one that is inside Listen or its cleanup are ticked by different threads.
ApartInv ==
    /\ \A l \in Listeners : listener[l] = "new" => sub[l] = NoSub
    /\ \A b \in Casters, l \in Listeners :
          caster[b] \in {"lock", "visit"} /\ listener[l] \in {"pop", "look", "recycle"} =>
              ThreadOf[b] # ThreadOf[l]

LEMMA ApartInvariant == Spec => []ApartInv
<1>1. Init => ApartInv
  BY DEF Init, ApartInv
<1>2. TInv /\ ApartInv /\ [Next]_vars => ApartInv'
  <2> SUFFICES ASSUME TInv, ApartInv, [Next]_vars PROVE ApartInv'
    OBVIOUS
  <2>1. TypeOK
    BY DEF TInv
  <2>2. CASE UNCHANGED vars
    BY <2>2 DEF vars, ApartInv
  <2>3. ASSUME NEW b \in Casters, Cast(b) \/ StopCast(b) \/ Complete(b) \/ BroadcastStep(b)
        PROVE  ApartInv'
    <3>1. UNCHANGED <<listener, sub>> /\ \A c \in Casters \ {b} : caster'[c] = caster[c]
      BY <2>1, <2>3 DEF Cast, StopCast, Complete, BroadcastStep, TryLock, TryLockFails, ResumeCast,
                        Unlock, Erase, Send, BGo, TypeOK
    <3>2. ASSUME caster'[b] \in {"lock", "visit"}, caster[b] \notin {"lock", "visit"}
          PROVE  Turn(b)
      BY <2>1, <2>3, <3>2 DEF Cast, StopCast, Complete, BroadcastStep, TryLock, TryLockFails,
                              ResumeCast, Unlock, Erase, Send, BGo, TypeOK
    <3>3. ASSUME Turn(b), NEW l \in Listeners, listener[l] \in {"pop", "look", "recycle"}
          PROVE  ThreadOf[b] # ThreadOf[l]
      BY <3>3 DEF Turn
    <3> QED
      BY <3>1, <3>2, <3>3 DEF ApartInv
  <2>4. ASSUME NEW l \in Listeners, Compose(l) PROVE ApartInv'
    <3>1. caster' = caster /\ listener'[l] = "idle"
      BY <2>1, <2>4 DEF Compose, TypeOK
    <3>2. \A k \in Listeners \ {l} : listener'[k] = listener[k] /\ sub'[k] = sub[k]
      BY <2>1, <2>4 DEF Compose, Subscribe, TypeOK
    <3> QED
      BY <3>1, <3>2 DEF ApartInv
  <2>5. ASSUME NEW l \in Listeners, Restart(l) \/ StopListener(l) \/ ListenStep(l)
        PROVE  ApartInv'
    <3>1. /\ UNCHANGED <<caster, sub>> /\ listener'[l] # "new"
          /\ \A k \in Listeners \ {l} : listener'[k] = listener[k]
      BY <2>1, <2>5 DEF Restart, StopListener, ListenStep, Listen, Pop, PopFails, LooksOpen,
                        LooksClosed, Resume, Recycle, LGo, TypeOK
    <3>2. ASSUME listener'[l] \in {"pop", "look", "recycle"},
                 listener[l] \notin {"pop", "look", "recycle"}
          PROVE  Turn(l)
      BY <2>1, <2>5, <3>2 DEF Restart, StopListener, ListenStep, Listen, Pop, PopFails, LooksOpen,
                              LooksClosed, Resume, Recycle, LGo, TypeOK
    <3>3. ASSUME Turn(l), NEW b \in Casters, caster[b] \in {"lock", "visit"}
          PROVE  ThreadOf[b] # ThreadOf[l]
      BY <3>3 DEF Turn
    <3> QED
      BY <3>1, <3>2, <3>3 DEF ApartInv
  <2> QED
    BY <2>2, <2>3, <2>4, <2>5 DEF Next
<1>3. QED
  BY <1>1, <1>2, TypeInvariant, PTL DEF Spec

\* Whatever the threads, a queue is erased only when its listener is through
\* with it, or while that is being cleaned up on another thread; a listener that
\* keeps its queue from one run to the next is the one exception.
THEOREM ErasesCorrect == Spec => ErasesWhatIsDone
<1>1. ASSUME TInv, SInv, ListIsLocked, ApartInv, [Next]_vars,
             NEW l \in Listeners \ reused, sub[l] \in subs \ subs'
      PROVE  listener[l] = "off" \/ (listener[l] = "recycle" /\ ThreadOf[owner] # ThreadOf[l])
  <2>1. TypeOK /\ ListenersAreSubscribed
    BY <1>1 DEF TInv, SInv
  <2>2. PICK b \in Casters, s \in Subs : Erase(b, s) /\ s = sub[l]
    <3>1. ASSUME UNCHANGED subs PROVE FALSE
      BY <1>1, <3>1
    <3>2. CASE UNCHANGED vars
      BY <3>1, <3>2 DEF vars
    <3>3. ASSUME NEW k \in Listeners, Compose(k) PROVE FALSE
      BY <1>1, <3>3 DEF Compose, Subscribe
    <3>4. ASSUME NEW k \in Listeners, Restart(k) \/ StopListener(k) \/ ListenStep(k) PROVE FALSE
      BY <3>1, <3>4 DEF Restart, StopListener, ListenStep, Listen, Pop, PopFails, LooksOpen,
                        LooksClosed, Resume, Recycle
    <3>5. ASSUME NEW c \in Casters, Cast(c) \/ StopCast(c) \/ Complete(c) PROVE FALSE
      BY <3>1, <3>5 DEF Cast, StopCast, Complete
    <3>6. ASSUME NEW c \in Casters, TryLock(c) \/ TryLockFails(c) \/ ResumeCast(c) \/ Unlock(c)
          PROVE  FALSE
      BY <3>1, <3>6 DEF TryLock, TryLockFails, ResumeCast, Unlock
    <3>7. PICK c \in Casters, t \in Subs : Erase(c, t) \/ Send(c, t)
      BY <1>1, <3>2, <3>3, <3>4, <3>5, <3>6 DEF Next, BroadcastStep
    <3>8. ~Send(c, t)
      BY <3>1 DEF Send
    <3> QED
      BY <1>1, <3>7, <3>8 DEF Erase
  <2>3. caster[b] = "visit" /\ owner = b /\ sub[l] \in shut /\ sub[l] \in Subs
    BY <1>1, <2>2 DEF Erase, ListIsLocked
  <2>4. listener[l] \in {"off", "recycle"}
    BY <1>1, <2>1, <2>3, BroadcastAssumption
    DEF ListenersAreSubscribed, TypeOK, ListenerSteps, ApartInv
  <2> QED
    BY <1>1, <2>3, <2>4 DEF ApartInv
<1>2. TInv /\ SInv /\ ListIsLocked /\ ApartInv /\ [Next]_vars =>
        [\A l \in Listeners \ reused :
            sub[l] \in subs \ subs' =>
                \/ listener[l] = "off"
                \/ listener[l] = "recycle" /\ ThreadOf[owner] # ThreadOf[l]]_vars
  BY <1>1
<1>3. QED
  BY <1>2, TypeInvariant, SubscriptionInvariant, ListCorrect, ApartInvariant, PTL
  DEF Spec, ErasesWhatIsDone

-----------------------------------------------------------------------------
(***************************************************************************)
(* The order the listeners hear.  Each value is sent under the lock, once  *)
(* to each subscription: while the lock is held the value of its broadcast *)
(* is the last of every queue it has reached.                              *)
(***************************************************************************)
\* The values whose broadcast has begun.
Begun == {v \in Values : v[2] <= made[v[1]]}

OnlyBegun == \A s \in Subs : \A i \in DOMAIN Sent(s) : Sent(s)[i] \in Begun

CurrentIsLast ==
    \A b \in Casters, s \in Subs : \A i \in DOMAIN Sent(s) :
        caster[b] = "visit" /\ Sent(s)[i] = <<b, made[b]>> =>
            s \notin todo /\ i = Len(Sent(s))

\* No two values come in one order here and in the other there.
Agree == \A r, t \in Subs : \A u, w : ~(Before(r, u, w) /\ Before(t, w, u))

LEMMA AgreeIsSameOrder == Agree <=> SameOrder
<1>1. ASSUME SameOrder, NEW r \in Subs, NEW t \in Subs, NEW u, NEW w, Before(r, u, w)
      PROVE  ~Before(t, w, u)
  <2>1. PICK i, j \in DOMAIN Sent(r) : i < j /\ Sent(r)[i] = u /\ Sent(r)[j] = w
    BY <1>1 DEF Before
  <2>2. ~Before(t, Sent(r)[j], Sent(r)[i])
    BY <1>1, <2>1 DEF SameOrder
  <2> QED
    BY <2>1, <2>2
<1>2. ASSUME Agree, NEW r \in Subs, NEW t \in Subs, NEW i \in DOMAIN Sent(r),
             NEW j \in DOMAIN Sent(r), i < j
      PROVE  ~Before(t, Sent(r)[j], Sent(r)[i])
  <2>1. Before(r, Sent(r)[i], Sent(r)[j])
    BY <1>2 DEF Before
  <2> QED
    BY <1>2, <2>1 DEF Agree
<1> QED
  BY <1>1, <1>2 DEF Agree, SameOrder

OrderInv == Agree /\ OnlyBegun /\ CurrentIsLast

\* One sequence after another.
LEMMA CatFacts ==
    ASSUME NEW S, NEW p \in Seq(S), NEW q \in Seq(S)
    PROVE  /\ p \o q \in Seq(S) /\ Len(p \o q) = Len(p) + Len(q)
           /\ DOMAIN (p \o q) = 1 .. Len(p \o q)
           /\ Len(p) \in Nat /\ Len(q) \in Nat /\ Len(p \o q) \in Nat
           /\ \A i \in 1 .. Len(p) : (p \o q)[i] = p[i]
OBVIOUS

\* What a subscription was sent is a sequence of values.
LEMMA SentType ==
    ASSUME TypeOK, NEW s \in Subs
    PROVE  /\ Sent(s) \in Seq(Values) /\ DOMAIN Sent(s) = 1 .. Len(Sent(s))
           /\ Len(Sent(s)) \in Nat /\ Len(got[s]) \in Nat /\ Len(got[s]) <= Len(Sent(s))
           /\ Len(Sent(s)) = Len(got[s]) + Len(data[s])
           /\ \A i \in 1 .. Len(got[s]) : Sent(s)[i] = got[s][i]
<1>1. got[s] \in Seq(Values) /\ data[s] \in Seq(Values)
  BY DEF TypeOK
<1>2. PICK p \in Seq(Values), q \in Seq(Values) : p = got[s] /\ q = data[s]
  BY <1>1
<1>3. Sent(s) = p \o q
  BY <1>2 DEF Sent
<1>4. /\ p \o q \in Seq(Values) /\ Len(p \o q) = Len(p) + Len(q)
      /\ DOMAIN (p \o q) = 1 .. Len(p \o q)
      /\ Len(p) \in Nat /\ Len(q) \in Nat /\ Len(p \o q) \in Nat
      /\ \A i \in 1 .. Len(p) : (p \o q)[i] = p[i]
  BY CatFacts
<1>5. Len(p) <= Len(p \o q)
  BY <1>4
<1> QED
  BY <1>2, <1>3, <1>4, <1>5, Zenon

\* A step that sends nothing keeps the order.
LEMMA QuietKeepsOrder ==
    ASSUME OrderInv, \A s \in Subs : Sent(s)' = Sent(s),
           made' = made, todo' \subseteq todo,
           \A b \in Casters : caster'[b] = "visit" => caster[b] = "visit"
    PROVE  OrderInv'
<1>1. Agree'
  BY DEF OrderInv, Agree, Before
<1>2. OnlyBegun'
  BY DEF OrderInv, OnlyBegun, Begun
<1>3. CurrentIsLast'
  BY DEF OrderInv, CurrentIsLast
<1> QED
  BY <1>1, <1>2, <1>3 DEF OrderInv

\* A broadcast that begins has a value nobody was sent.
LEMMA LockKeepsOrder ==
    ASSUME TypeOK, HasValue, ListIsLocked, OrderInv, NEW b \in Casters, TryLock(b)
    PROVE  OrderInv'
<1>1. \A s \in Subs : Sent(s)' = Sent(s)
  BY DEF TryLock, Sent
<1>2. Agree'
  BY <1>1 DEF OrderInv, Agree, Before
<1>3. made' = [made EXCEPT ![b] = @ + 1] /\ made[b] \in Nat
  BY DEF TryLock, TypeOK
<1>4. \A c \in Casters : made[c] \in Nat /\ made[c] <= made'[c]
  BY <1>3 DEF TypeOK
<1>5. Begun \subseteq Begun'
  <2> SUFFICES ASSUME NEW v \in Begun PROVE v \in Begun'
    OBVIOUS
  <2>1. v \in Values /\ v[1] \in Casters /\ v[2] \in Nat /\ v[2] <= made[v[1]]
    BY BroadcastAssumption DEF Begun, Values
  <2>2. v[2] <= made'[v[1]]
    BY <1>3, <1>4, <2>1
  <2> QED
    BY <2>1, <2>2 DEF Begun
<1>6. OnlyBegun'
  BY <1>1, <1>5 DEF OrderInv, OnlyBegun
<1>7. <<b, made'[b]>> \notin Begun
  BY <1>3 DEF Begun, TypeOK
<1>8. \A c \in Casters : caster'[c] = "visit" => c = b
  BY BroadcastAssumption DEF TryLock, BGo, ListIsLocked, TypeOK
<1>9. CurrentIsLast'
  BY <1>1, <1>7, <1>8 DEF CurrentIsLast, OrderInv, OnlyBegun
<1> QED
  BY <1>2, <1>6, <1>9 DEF OrderInv

\* An erased queue leaves a beginning of what was sent.
LEMMA EraseKeepsOrder ==
    ASSUME TypeOK, OrderInv, NEW b \in Casters, NEW s \in Subs, Erase(b, s)
    PROVE  OrderInv'
<1>1. \A t \in Subs : t # s => Sent(t)' = Sent(t)
  BY DEF Erase, Sent, TypeOK
<1>2. Sent(s)' = got[s]
  BY DEF Erase, Sent, TypeOK
<1>3. got[s] \in Seq(Values) /\ DOMAIN got[s] = 1 .. Len(got[s])
  BY DEF TypeOK
<1>4. \A t \in Subs : DOMAIN Sent(t)' \subseteq DOMAIN Sent(t)
                      /\ \A i \in DOMAIN Sent(t)' : Sent(t)'[i] = Sent(t)[i]
  <2> SUFFICES ASSUME NEW t \in Subs
               PROVE  DOMAIN Sent(t)' \subseteq DOMAIN Sent(t)
                      /\ \A i \in DOMAIN Sent(t)' : Sent(t)'[i] = Sent(t)[i]
    OBVIOUS
  <2>1. CASE t = s
    <3>1. /\ DOMAIN Sent(s) = 1 .. Len(Sent(s)) /\ Len(Sent(s)) \in Nat
          /\ Len(got[s]) \in Nat /\ Len(got[s]) <= Len(Sent(s))
          /\ \A i \in 1 .. Len(got[s]) : Sent(s)[i] = got[s][i]
      BY SentType
    <3> QED
      BY <1>2, <1>3, <2>1, <3>1
  <2>2. CASE t # s
    BY <1>1, <2>2
  <2> QED
    BY <2>1, <2>2
<1>5. Agree'
  <2>1. \A t \in Subs : \A u, v : Before(t, u, v)' => Before(t, u, v)
    BY <1>4, Zenon DEF Before
  <2> QED
    BY <1>4, <2>1 DEF OrderInv, Agree
<1>6. OnlyBegun'
  BY <1>4 DEF OrderInv, OnlyBegun, Begun, Erase
<1>7. CurrentIsLast'
  BY <1>1, <1>4 DEF OrderInv, CurrentIsLast, Erase
<1> QED
  BY <1>5, <1>6, <1>7 DEF OrderInv

\* A value that is sent comes after all that was.
LEMMA SendAppends ==
    ASSUME TypeOK, HasValue, NEW b \in Casters, NEW s \in Subs, Send(b, s)
    PROVE  /\ \A t \in Subs : t # s => Sent(t)' = Sent(t)
           /\ Len(Sent(s)') = Len(Sent(s)) + 1
           /\ DOMAIN Sent(s)' = 1 .. Len(Sent(s)) + 1
           /\ \A i \in DOMAIN Sent(s) : Sent(s)'[i] = Sent(s)[i]
           /\ Sent(s)'[Len(Sent(s)) + 1] = <<b, made[b]>>
           /\ <<b, made[b]>> \in Begun
<1>1. \A t \in Subs : t # s => Sent(t)' = Sent(t)
  BY DEF Send, Sent, TypeOK
<1>2. <<b, made[b]>> \in Begun
  BY BroadcastAssumption DEF Begun, Send, TypeOK, HasValue, Values
<1>3. PICK p \in Seq(Values), q \in Seq(Values), v \in Values :
        p = got[s] /\ q = data[s] /\ v = <<b, made[b]>>
  BY <1>2 DEF TypeOK, Begun
<1>4. Sent(s) = p \o q /\ Sent(s)' = p \o Append(q, v)
  BY <1>3 DEF Send, Sent, TypeOK
<1>5. /\ Len(p \o Append(q, v)) = Len(p \o q) + 1
      /\ DOMAIN (p \o Append(q, v)) = 1 .. Len(p \o q) + 1
      /\ \A i \in DOMAIN (p \o q) : (p \o Append(q, v))[i] = (p \o q)[i]
      /\ (p \o Append(q, v))[Len(p \o q) + 1] = v
  OBVIOUS
<1> QED
  BY <1>1, <1>2, <1>3, <1>4, <1>5, Zenon

\* A value that is sent under the lock keeps the order.
LEMMA SendKeepsOrder ==
    ASSUME TypeOK, HasValue, ListIsLocked, OrderInv, NEW b \in Casters, NEW s \in Subs, Send(b, s)
    PROVE  OrderInv'
<1> DEFINE v == <<b, made[b]>>
           n == Len(Sent(s)) + 1
<1>1. /\ \A t \in Subs : t # s => Sent(t)' = Sent(t)
      /\ Len(Sent(s)') = n /\ DOMAIN Sent(s)' = 1 .. n
      /\ \A i \in DOMAIN Sent(s) : Sent(s)'[i] = Sent(s)[i]
      /\ Sent(s)'[n] = v /\ v \in Begun
  BY SendAppends
<1>2. caster[b] = "visit" /\ s \in todo /\ made' = made /\ caster' = caster /\ todo' = todo \ {s}
  BY DEF Send
<1>3. DOMAIN Sent(s) = 1 .. Len(Sent(s)) /\ Len(Sent(s)) \in Nat /\ n \in Nat
  BY SentType
<1>4. \A t \in Subs : DOMAIN Sent(t) = 1 .. Len(Sent(t)) /\ Len(Sent(t)) \in Nat
  BY SentType
<1>5. \A i \in DOMAIN Sent(s) : Sent(s)[i] # v
  BY <1>2 DEF OrderInv, CurrentIsLast
<1>6. \A t \in Subs : \A i \in DOMAIN Sent(t) : Sent(t)[i] = v => i = Len(Sent(t))
  BY <1>2 DEF OrderInv, CurrentIsLast
<1>7. \A i \in DOMAIN Sent(s)' : i \in DOMAIN Sent(s) \/ i = n
  BY <1>1, <1>3
<1>8. n \notin DOMAIN Sent(s)
  BY <1>3
<1> HIDE DEF v, n
<1>9. ASSUME NEW t \in Subs, NEW u, NEW w, Before(t, u, w)' PROVE Before(t, u, w) \/ (t = s /\ w = v)
  <2>1. PICK i, j \in DOMAIN Sent(t)' : i < j /\ Sent(t)'[i] = u /\ Sent(t)'[j] = w
    BY <1>9 DEF Before
  <2>2. CASE t # s
    BY <1>1, <2>1, <2>2 DEF Before
  <2>3. CASE t = s /\ j \in DOMAIN Sent(s)
    <3>1. i \in DOMAIN Sent(s)
      BY <1>1, <1>3, <2>1, <2>3
    <3> QED
      BY <1>1, <2>1, <2>3, <3>1 DEF Before
  <2>4. CASE t = s /\ j = n
    BY <1>1, <2>1, <2>4
  <2> QED
    BY <1>7, <2>1, <2>2, <2>3, <2>4
<1>10. \A t \in Subs : \A u : ~Before(t, v, u)
  <2> SUFFICES ASSUME NEW t \in Subs, NEW u, Before(t, v, u) PROVE FALSE
    OBVIOUS
  <2>1. PICK i, j \in DOMAIN Sent(t) : i < j /\ Sent(t)[i] = v
    BY DEF Before
  <2> QED
    BY <1>4, <1>6, <2>1
<1>11. Agree'
  <2> SUFFICES ASSUME NEW r \in Subs, NEW t \in Subs, NEW u, NEW w,
                      Before(r, u, w)', Before(t, w, u)'
               PROVE  FALSE
    BY DEF Agree
  <2>1. Before(r, u, w)' /\ Before(t, w, u)'
    BY DEF Before
  <2>2. Before(r, u, w) \/ (r = s /\ w = v)
    BY <1>9, <2>1
  <2>3. Before(t, w, u) \/ (t = s /\ u = v)
    BY <1>9, <2>1
  <2>4. ~(Before(r, u, w) /\ Before(t, w, u))
    BY DEF OrderInv, Agree, Before
  <2>5. CASE Before(r, u, w) /\ t = s /\ u = v
    BY <1>10, <2>5
  <2>6. CASE Before(t, w, u) /\ r = s /\ w = v
    BY <1>10, <2>6
  <2>7. CASE r = s /\ w = v /\ t = s /\ u = v
    <3>1. PICK i, j \in DOMAIN Sent(s)' : i < j /\ Sent(s)'[i] = v /\ Sent(s)'[j] = v
      BY <2>7 DEF Before
    <3>2. i = n /\ j = n
      BY <1>1, <1>5, <1>7, <3>1
    <3> QED
      BY <1>3, <3>1, <3>2
  <2> QED
    BY <2>2, <2>3, <2>4, <2>5, <2>6, <2>7
<1>12. OnlyBegun'
  <2>1. Begun' = Begun
    BY <1>2 DEF Begun
  <2>2. ASSUME NEW t \in Subs, NEW i \in DOMAIN Sent(t)' PROVE Sent(t)'[i] \in Begun
    <3>1. CASE t # s
      BY <1>1, <2>2, <3>1 DEF OrderInv, OnlyBegun
    <3>2. CASE t = s /\ i = n
      BY <1>1, <3>2
    <3>3. CASE t = s /\ i \in DOMAIN Sent(s)
      BY <1>1, <3>3 DEF OrderInv, OnlyBegun
    <3> QED
      BY <1>7, <2>2, <3>1, <3>2, <3>3
  <2> QED
    BY <2>1, <2>2 DEF OnlyBegun
<1>13. CurrentIsLast'
  <2> SUFFICES ASSUME NEW c \in Casters, NEW t \in Subs, NEW i \in DOMAIN Sent(t)',
                      caster[c] = "visit", Sent(t)'[i] = <<c, made[c]>>
               PROVE  t \notin todo' /\ i = Len(Sent(t)')
    BY <1>2 DEF CurrentIsLast
  <2>1. c = b
    BY <1>2 DEF ListIsLocked
  <2>2. CASE t # s
    BY <1>1, <1>2, <2>2 DEF OrderInv, CurrentIsLast
  <2>3. CASE t = s
    <3>1. i = n
      BY <1>1, <1>5, <1>7, <2>1, <2>3 DEF v
    <3> QED
      BY <1>1, <1>2, <2>3, <3>1
  <2> QED
    BY <2>2, <2>3
<1> QED
  BY <1>11, <1>12, <1>13 DEF OrderInv

\* The order the listeners hear is one, for any wires on any threads.
THEOREM SameOrderCorrect == Spec => []SameOrder
<1>1. Init => OrderInv
  <2> SUFFICES ASSUME Init PROVE OrderInv
    OBVIOUS
  <2>1. \A s \in Subs : Sent(s) = <<>>
    BY DEF Init, Sent
  <2>2. \A s \in Subs : DOMAIN Sent(s) = {}
    BY <2>1
  <2> QED
    BY <2>2 DEF OrderInv, Agree, Before, OnlyBegun, CurrentIsLast
<1>2. TInv /\ ListIsLocked /\ OrderInv /\ [Next]_vars => OrderInv'
  <2> SUFFICES ASSUME TInv, ListIsLocked, OrderInv, [Next]_vars PROVE OrderInv'
    OBVIOUS
  <2>1. TypeOK /\ HasValue
    BY DEF TInv
  <2>2. CASE UNCHANGED vars
    BY <2>2, QuietKeepsOrder DEF vars, Sent
  <2>3. ASSUME NEW b \in Casters,
               \/ Cast(b) \/ TryLockFails(b) \/ ResumeCast(b)
               \/ StopCast(b) \/ Complete(b) \/ Unlock(b)
        PROVE  OrderInv'
    <3>1. /\ UNCHANGED <<got, data, made, todo>>
          /\ \A c \in Casters : caster'[c] = "visit" => caster[c] = "visit"
      BY <2>1, <2>3
      DEF Cast, TryLockFails, ResumeCast, StopCast, Complete, Unlock, BGo, TypeOK
    <3> QED
      BY <3>1, QuietKeepsOrder DEF Sent
  <2>4. ASSUME NEW b \in Casters, TryLock(b) PROVE OrderInv'
    BY <2>1, <2>4, LockKeepsOrder
  <2>5. ASSUME NEW b \in Casters, NEW s \in Subs, Erase(b, s) PROVE OrderInv'
    BY <2>1, <2>5, EraseKeepsOrder
  <2>6. ASSUME NEW b \in Casters, NEW s \in Subs, Send(b, s) PROVE OrderInv'
    BY <2>1, <2>6, SendKeepsOrder
  <2>7. ASSUME NEW l \in Listeners, Pop(l) PROVE OrderInv'
    BY <2>7, PopSendsNothing, QuietKeepsOrder DEF Pop
  <2>8. ASSUME NEW l \in Listeners,
               \/ Compose(l) \/ Restart(l) \/ StopListener(l) \/ Listen(l) \/ PopFails(l)
               \/ LooksOpen(l) \/ LooksClosed(l) \/ Resume(l) \/ Recycle(l)
        PROVE  OrderInv'
    <3>1. UNCHANGED <<got, data, made, todo, caster>>
      BY <2>8
      DEF Compose, Restart, StopListener, Listen, PopFails, LooksOpen, LooksClosed, Resume, Recycle
    <3> QED
      BY <3>1, QuietKeepsOrder DEF Sent
  <2> QED
    BY <2>2, <2>3, <2>4, <2>5, <2>6, <2>7, <2>8 DEF Next, BroadcastStep, ListenStep
<1>3. OrderInv => SameOrder
  BY AgreeIsSameOrder DEF OrderInv
<1> QED
  BY <1>1, <1>2, <1>3, TypeInvariant, ListCorrect, PTL DEF Spec
=============================================================================
