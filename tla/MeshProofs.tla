----------------------------- MODULE MeshProofs -----------------------------
(***************************************************************************)
(* Proofs about Mesh, for any set of wires and any assignment of WhenDone  *)
(* copies.                                                                 *)
(***************************************************************************)
EXTENDS Mesh, TLAPS

\* A pool as the code keeps it: the iterator is in it or at its end, and no
\* wire has two flows.
Sound(p) ==
    /\ p \in PoolType(Wires)
    /\ p.it \in 1 .. End(p)
    /\ Distinct(p)

\* Appending a flow adds its wire and leaves the iterator in the pool or at
\* its end; the pool stays distinct when the wire had no flow.
LEMMA EmplaceSound ==
    ASSUME NEW p, NEW w \in Wires, Sound(p), w \notin Holds(p)
    PROVE  /\ Sound(EmplaceBack(p, w))
           /\ Holds(EmplaceBack(p, w)) = Holds(p) \cup {w}
<1> DEFINE q == EmplaceBack(p, w)
<1>1. p.flows \in Seq(Wires) /\ p.it \in Nat \ {0} /\ p.it <= Len(p.flows) + 1
  BY DEF Sound, PoolType, End
<1>2. /\ q.flows = Append(p.flows, w)
      /\ q.it = IF p.it = Len(p.flows) + 1 THEN p.it + 1 ELSE p.it
      /\ q = [flows |-> q.flows, it |-> q.it]
  BY DEF EmplaceBack, End
<1>3. /\ q.flows \in Seq(Wires) /\ Len(q.flows) = Len(p.flows) + 1
      /\ DOMAIN q.flows = 1 .. (Len(p.flows) + 1)
      /\ DOMAIN p.flows = 1 .. Len(p.flows)
      /\ \A i \in DOMAIN p.flows : q.flows[i] = p.flows[i]
      /\ q.flows[Len(p.flows) + 1] = w
  BY <1>1, <1>2
<1> HIDE DEF q
<1>4. q \in PoolType(Wires) /\ q.it \in 1 .. End(q)
  <2>1. q.it \in Nat \ {0} /\ q.it <= Len(q.flows) + 1
    BY <1>1, <1>2, <1>3
  <2>2. q \in PoolType(Wires)
    BY <1>2, <1>3, <2>1 DEF PoolType
  <2> QED
    BY <1>1, <1>3, <2>1, <2>2 DEF End
<1>5. Holds(q) = Holds(p) \cup {w}
  BY <1>1, <1>3 DEF Holds
<1>6. Distinct(q)
  BY <1>1, <1>3 DEF Sound, Distinct, Holds
<1> QED
  BY <1>4, <1>5, <1>6 DEF Sound, q

\* What is left of a sequence without repetition when one element is erased.
LEMMA EraseAtFacts ==
    ASSUME NEW s \in Seq(Wires), NEW k \in DOMAIN s,
           \A i, j \in DOMAIN s : s[i] = s[j] => i = j
    PROVE  LET e == EraseAt(s, k)
           IN  /\ e \in Seq(Wires)
               /\ Len(e) = Len(s) - 1
               /\ \A i, j \in DOMAIN e : e[i] = e[j] => i = j
               /\ {e[i] : i \in DOMAIN e} = {s[i] : i \in DOMAIN s} \ {s[k]}
<1> DEFINE e == EraseAt(s, k)
           n == Len(s)
<1>1. n \in Nat /\ DOMAIN s = 1 .. n /\ k \in 1 .. n /\ n >= 1
  OBVIOUS
<1>2. /\ DOMAIN e = 1 .. (n - 1)
      /\ \A i \in 1 .. (n - 1) : e[i] = IF i < k THEN s[i] ELSE s[i + 1]
  BY DEF EraseAt
<1>3. \A i \in 1 .. (n - 1) : e[i] \in Wires
  BY <1>1, <1>2
<1>4. e = [i \in 1 .. (n - 1) |-> e[i]]
  BY <1>2 DEF EraseAt
<1>5. e \in Seq(Wires) /\ Len(e) = n - 1
  <2>1. n - 1 \in Nat
    BY <1>1
  <2>2. e \in [1 .. (n - 1) -> Wires]
    BY <1>3, <1>4
  <2> QED
    BY <1>2, <2>1, <2>2
<1> HIDE DEF e
<1>6. ASSUME NEW i \in DOMAIN e, NEW j \in DOMAIN e, e[i] = e[j]
      PROVE  i = j
  <2>1. PICK i2 \in DOMAIN s : e[i] = s[i2] /\ i2 = IF i < k THEN i ELSE i + 1
    BY <1>1, <1>2
  <2>2. PICK j2 \in DOMAIN s : e[j] = s[j2] /\ j2 = IF j < k THEN j ELSE j + 1
    BY <1>1, <1>2
  <2>3. i2 = j2
    BY <1>6, <2>1, <2>2
  <2> QED
    BY <1>1, <1>2, <2>1, <2>2, <2>3
<1>7. {e[i] : i \in DOMAIN e} = {s[i] : i \in DOMAIN s} \ {s[k]}
  <2>1. ASSUME NEW i \in DOMAIN e
        PROVE  e[i] \in {s[j] : j \in DOMAIN s} \ {s[k]}
    BY <1>1, <1>2
  <2>2. ASSUME NEW j \in DOMAIN s, s[j] # s[k]
        PROVE  s[j] \in {e[i] : i \in DOMAIN e}
    <3>1. CASE j < k
      BY <1>1, <1>2, <3>1
    <3>2. CASE j > k
      <4>1. j - 1 \in DOMAIN e /\ e[j - 1] = s[j]
        BY <1>1, <1>2, <3>2
      <4> QED
        BY <4>1
    <3> QED
      BY <1>1, <2>2, <3>1, <3>2
  <2> QED
    BY <2>1, <2>2
<1> QED
  BY <1>5, <1>6, <1>7 DEF e

\* wireCleanedUp takes the flow of w out, and only that one, and leaves the
\* iterator in the pool or at its end.
LEMMA CleanedUpSound ==
    ASSUME NEW p, NEW w \in Wires, Sound(p)
    PROVE  /\ Sound(WireCleanedUp(p, w))
           /\ Holds(WireCleanedUp(p, w)) = Holds(p) \ {w}
<1>1. CASE w \notin Holds(p)
  BY <1>1 DEF WireCleanedUp
<1>2. CASE w \in Holds(p)
  <2> DEFINE k == IndexOf(p, w)
             rest == EraseAt(p.flows, k)
             q == WireCleanedUp(p, w)
  <2>1. k \in DOMAIN p.flows /\ p.flows[k] = w
    BY <1>2 DEF IndexOf, Holds
  <2>2. /\ p.flows \in Seq(Wires) /\ p.it \in Nat \ {0} /\ p.it <= Len(p.flows) + 1
        /\ \A i, j \in DOMAIN p.flows : p.flows[i] = p.flows[j] => i = j
    BY DEF Sound, PoolType, End, Distinct
  <2>3. q = [flows |-> rest,
             it |-> IF k <= p.it /\ p.it > Len(rest) THEN Len(rest) + 1 ELSE p.it]
    BY <1>2 DEF WireCleanedUp
  <2>4. /\ rest \in Seq(Wires) /\ Len(rest) = Len(p.flows) - 1
        /\ \A i, j \in DOMAIN rest : rest[i] = rest[j] => i = j
        /\ {rest[i] : i \in DOMAIN rest} = {p.flows[i] : i \in DOMAIN p.flows} \ {p.flows[k]}
    BY <2>1, <2>2, EraseAtFacts
  <2> HIDE DEF k, rest, q
  <2>5. /\ q.flows = rest
        /\ q.it = IF k <= p.it /\ p.it > Len(rest) THEN Len(rest) + 1 ELSE p.it
    BY <2>3
  <2>6. k \in 1 .. Len(p.flows) /\ Len(p.flows) \in Nat
    BY <2>1, <2>2
  <2>7. q \in PoolType(Wires) /\ q.it \in 1 .. (Len(rest) + 1)
    <3>1. q.it \in Nat \ {0} /\ q.it <= Len(rest) + 1
      BY <2>2, <2>4, <2>5, <2>6
    <3> QED
      BY <2>3, <2>4, <2>5, <3>1 DEF PoolType
  <2>8. Distinct(q) /\ Holds(q) = Holds(p) \ {w}
    <3>1. Distinct(q)
      BY <2>4, <2>5 DEF Distinct
    <3>2. Holds(q) = {rest[i] : i \in DOMAIN rest}
      BY <2>5 DEF Holds
    <3>3. Holds(p) = {p.flows[i] : i \in DOMAIN p.flows}
      BY DEF Holds
    <3> QED
      BY <2>1, <2>4, <3>1, <3>2, <3>3
  <2> QED
    BY <2>5, <2>7, <2>8 DEF Sound, End, q
<1> QED
  BY <1>1, <1>2
\* The flow a schedule leaves behind: one more when prepare succeeds, the same
\* pool when the failed warmup is cleaned up.
LEMMA ScheduledSound ==
    ASSUME NEW p, NEW w \in Wires, NEW ok \in BOOLEAN, Sound(p), w \notin Holds(p)
    PROVE  /\ Sound(Scheduled(p, w, ok))
           /\ Holds(Scheduled(p, w, ok)) = IF ok THEN Holds(p) \cup {w} ELSE Holds(p)
<1>1. CASE ok
  BY <1>1, EmplaceSound DEF Scheduled
<1>2. CASE ~ok
  <2>1. /\ Sound(EmplaceBack(p, w))
        /\ Holds(EmplaceBack(p, w)) = Holds(p) \cup {w}
    BY EmplaceSound
  <2>2. /\ Sound(WireCleanedUp(EmplaceBack(p, w), w))
        /\ Holds(WireCleanedUp(EmplaceBack(p, w), w)) = (Holds(p) \cup {w}) \ {w}
    BY <2>1, CleanedUpSound
  <2> QED
    BY <1>2, <2>2 DEF Scheduled
<1> QED
  BY <1>1, <1>2

-----------------------------------------------------------------------------
(***************************************************************************)
(* The inductive invariant: the conjuncts that schedule, cleanup and stop  *)
(* keep, whatever the mesh's thread is at (Lives), and those that relate   *)
(* the wires to where that thread is (Control).                            *)
(***************************************************************************)
Lives ==
    /\ state \in [Wires -> WireStates]
    /\ coro \in [Wires -> CoroStates]
    /\ warmedUp \subseteq Wires /\ hasMesh \subseteq Wires
    /\ asleep \subseteq Wires /\ armed \subseteq Wires
    /\ scheduled \subseteq Wires /\ paused \subseteq Wires
    /\ Sound(pool)
    /\ turn \in [Wires -> {"none", "owed", "had"}]
    /\ gone \in 0 .. 2
    /\ \A w \in Wires : Valid(w) <=> w \in warmedUp
    /\ \A w \in Wires : IsRunning(w) <=> w \in warmedUp
    /\ warmedUp \subseteq hasMesh
    /\ scheduled \subseteq warmedUp
    /\ Holds(pool) \subseteq warmedUp

Control ==
    /\ phase \in Phases
    /\ cur \in Wires \cup {NoWire} /\ (cur \in Wires <=> InVisit)
    /\ target \in Wires \cup {NoWire} /\ (target \in Wires <=> phase = "detach")
    /\ toStop \subseteq Wires
    /\ sigInt \in BOOLEAN /\ noErrors \in BOOLEAN /\ broke \in BOOLEAN
    /\ Holds(pool) \cup toStop = warmedUp
    /\ toStop # {} => phase = "clear"
    /\ OneRuns
    /\ EndedIsOut

IInv == Lives /\ Control

\* What the invariant is for: it implies the properties that TLC checks.
LEMMA IInvImplies ==
    IInv => TypeOK /\ LifeIsConsistent /\ OneRuns /\ PoolIsDistinct /\ EndedIsOut
BY DEF IInv, Lives, Control, TypeOK, LifeIsConsistent, RecordsAgree, PoolIsDistinct, Sound

\* The mesh starts empty.
LEMMA FreshIInv == Fresh /\ phase \in {"idle", "exit"} => IInv
<1> SUFFICES ASSUME Fresh, phase \in {"idle", "exit"} PROVE IInv
  OBVIOUS
<1>1. Sound(pool) /\ Holds(pool) = {}
  BY DEF Fresh, Sound, PoolType, End, Distinct, Holds
<1>2. Lives
  BY <1>1 DEF Fresh, Lives, WireStates, CoroStates, Valid, IsRunning
<1>3. Control
  BY <1>1, MeshAssumption
     DEF Fresh, Control, Phases, InVisit, OneRuns, EndedIsOut, IsRunning
<1> QED
  BY <1>2, <1>3 DEF IInv

LEMMA InitIInv == Init => IInv
BY FreshIInv DEF Init

\* It is as empty when the process is over.
LEMMA RaisedIInv == Raised => IInv'
<1>1. Raised => (Fresh /\ phase \in {"idle", "exit"})'
  BY DEF Raised, Fresh
<1> QED
  BY <1>1, FreshIInv, PTL

-----------------------------------------------------------------------------
(***************************************************************************)
(* The three operations on a wire.                                         *)
(***************************************************************************)
\* A schedule keeps Lives; it adds its wire to the pool and to the warmed up
\* wires, or nothing when the warmup fails, and resumes no coroutine for good.
LEMMA ScheduleKeeps ==
    ASSUME NEW w \in Wires, Lives, Schedule(w) \/ ScheduleFails(w)
    PROVE  /\ Lives'
           /\ Holds(pool') \ Holds(pool) = warmedUp' \ warmedUp
           /\ Holds(pool) \subseteq Holds(pool') /\ warmedUp \subseteq warmedUp'
           /\ \A v \in Wires : coro'[v] = "running" <=> coro[v] = "running"
<1>1. w \notin warmedUp /\ w \notin Holds(pool)
  BY DEF Lives, Schedule, ScheduleFails, CanSchedule
<1>2. ~Valid(w)
  BY <1>1 DEF Lives
<1>3. CASE Schedule(w)
  <2>1. Sound(pool') /\ Holds(pool') = Holds(pool) \cup {w}
    BY <1>1, <1>3, ScheduledSound DEF Schedule, Lives
  <2>2. /\ state' \in [Wires -> WireStates] /\ coro' \in [Wires -> CoroStates]
        /\ warmedUp' \subseteq Wires /\ hasMesh' \subseteq Wires
        /\ asleep' \subseteq Wires /\ armed' \subseteq Wires
        /\ scheduled' \subseteq Wires /\ paused' \subseteq Wires
        /\ turn' \in [Wires -> {"none", "owed", "had"}] /\ gone' \in 0 .. 2
    BY <1>3 DEF Schedule, Lives, WireStates, CoroStates
  <2>3. \A v \in Wires : (Valid(v)' <=> v \in warmedUp') /\ (IsRunning(v)' <=> v \in warmedUp')
    BY <1>3 DEF Schedule, Lives, Valid, IsRunning
  <2>4. /\ warmedUp' \subseteq hasMesh' /\ scheduled' \subseteq warmedUp'
        /\ Holds(pool') \subseteq warmedUp'
    BY <1>3, <2>1 DEF Schedule, Lives
  <2>5. Lives'
    BY <2>1, <2>2, <2>3, <2>4 DEF Lives
  <2>6. \A v \in Wires : coro'[v] = "running" <=> coro[v] = "running"
    BY <1>2, <1>3 DEF Schedule, Lives, Valid
  <2> QED
    BY <1>1, <1>3, <2>1, <2>5, <2>6 DEF Schedule
<1>4. CASE ScheduleFails(w)
  <2>1. Sound(pool') /\ Holds(pool') = Holds(pool)
    BY <1>1, <1>4, ScheduledSound DEF ScheduleFails, Lives
  <2>2. /\ state' \in [Wires -> WireStates] /\ coro' \in [Wires -> CoroStates]
        /\ warmedUp' \subseteq Wires /\ hasMesh' \subseteq Wires
        /\ asleep' \subseteq Wires /\ armed' \subseteq Wires
        /\ scheduled' \subseteq Wires /\ paused' \subseteq Wires
        /\ turn' \in [Wires -> {"none", "owed", "had"}] /\ gone' \in 0 .. 2
    BY <1>4 DEF ScheduleFails, Lives, WireStates, CoroStates
  <2>3. \A v \in Wires : (Valid(v)' <=> v \in warmedUp') /\ (IsRunning(v)' <=> v \in warmedUp')
    BY <1>1, <1>4 DEF ScheduleFails, Lives, Valid, IsRunning
  <2>4. /\ warmedUp' \subseteq hasMesh' /\ scheduled' \subseteq warmedUp'
        /\ Holds(pool') \subseteq warmedUp'
    BY <1>1, <1>4, <2>1 DEF ScheduleFails, Lives
  <2>5. Lives'
    BY <2>1, <2>2, <2>3, <2>4 DEF Lives
  <2>6. \A v \in Wires : coro'[v] = "running" <=> coro[v] = "running"
    BY <1>2, <1>4 DEF ScheduleFails, Lives, Valid
  <2> QED
    BY <1>1, <1>4, <2>1, <2>5, <2>6 DEF ScheduleFails
<1> QED
  BY <1>3, <1>4

\* A cleanup takes its wire out of everything but its own state and coroutine,
\* and may bring the copy of a WhenDone to life.
LEMMA LeaveKeeps ==
    ASSUME NEW t \in warmedUp, NEW s \in {"Stopped", "Ended", "Failed"},
           NEW c \in {"none", "finished"},
           Lives, Leave(t, s, c)
    PROVE  /\ Lives'
           /\ t \notin warmedUp' \cup hasMesh' \cup Holds(pool')
           /\ Holds(pool') \ Holds(pool) = warmedUp' \ warmedUp
           /\ warmedUp \ {t} \subseteq warmedUp' /\ Holds(pool) \ {t} \subseteq Holds(pool')
           /\ \A v \in Wires : coro'[v] = "running" <=> coro[v] = "running" /\ v # t
           /\ state'[t] = s
<1> DEFINE H == Heir(t)
<1>1. t \in Wires
  BY DEF Lives
<1>2. /\ H \subseteq Wires /\ t \notin H
      /\ \A d \in H : d = WhenDone[t] /\ d \notin warmedUp /\ d \notin scheduled
  BY <1>1 DEF Heir, CanSchedule
<1> HIDE DEF H
<1>3. PICK born \in SUBSET H :
        LET spoilt == H \ born
            tried  == IF H = {} THEN pool ELSE Scheduled(pool, WhenDone[t], born # {})
        IN  /\ state' = [w \in Wires |-> IF w = t THEN s
                                         ELSE IF w \in born THEN "Starting"
                                         ELSE IF w \in spoilt THEN "Failed"
                                         ELSE state[w]]
            /\ coro' = [w \in Wires |-> IF w = t THEN c
                                        ELSE IF w \in born THEN "suspended"
                                        ELSE IF w \in spoilt THEN "finished"
                                        ELSE coro[w]]
            /\ warmedUp' = (warmedUp \ {t}) \cup born
            /\ hasMesh' = (hasMesh \ ({t} \cup spoilt)) \cup born
            /\ scheduled' = (scheduled \ {t}) \cup born
            /\ pool' = WireCleanedUp(tried, t)
            /\ paused' = paused \ ({t} \cup H)
            /\ asleep' = asleep \ ({t} \cup H)
            /\ armed' = armed \ ({t} \cup H)
            /\ turn' = [w \in Wires |-> IF w \in {t} \cup born THEN "none" ELSE turn[w]]
            /\ gone' = IF t \in Holds(pool) /\ gone < 2 THEN gone + 1 ELSE gone
  BY DEF Leave, H
<1> DEFINE tried == IF H = {} THEN pool ELSE Scheduled(pool, WhenDone[t], born # {})
           spoilt == H \ born
<1>4. Sound(tried) /\ Holds(tried) = Holds(pool) \cup born
  <2>1. CASE H = {}
    BY <2>1 DEF Lives
  <2>2. CASE H # {}
    <3>1. PICK d \in H : d = WhenDone[t]
      BY <1>2, <2>2
    <3>2. H = {d} /\ d \in Wires /\ d \notin Holds(pool) /\ Sound(pool)
      BY <1>2, <3>1 DEF Lives
    <3>3. tried = Scheduled(pool, d, born # {})
      BY <2>2, <3>1
    <3>4. born = IF born # {} THEN {d} ELSE {}
      BY <3>2
    <3> DEFINE ok == born # {}
    <3>5. ok \in BOOLEAN
      OBVIOUS
    <3> HIDE DEF tried, ok
    <3>6. /\ Sound(Scheduled(pool, d, ok))
          /\ Holds(Scheduled(pool, d, ok)) = IF ok THEN Holds(pool) \cup {d} ELSE Holds(pool)
      BY <3>2, <3>5, ScheduledSound
    <3>7. tried = Scheduled(pool, d, ok)
      BY <3>3 DEF ok
    <3>8. (ok => born = {d}) /\ (~ok => born = {})
      BY <3>4 DEF ok
    <3>9. Sound(tried) /\ Holds(tried) = IF ok THEN Holds(pool) \cup {d} ELSE Holds(pool)
      BY <3>6, <3>7
    <3> QED
      BY <3>8, <3>9
  <2> QED
    BY <2>1, <2>2
<1>5. pool' = WireCleanedUp(tried, t)
  BY <1>3
<1> HIDE DEF tried
<1>6. Sound(pool') /\ Holds(pool') = (Holds(pool) \cup born) \ {t}
  BY <1>1, <1>4, <1>5, CleanedUpSound
<1>7. /\ state' \in [Wires -> WireStates] /\ coro' \in [Wires -> CoroStates]
      /\ warmedUp' \subseteq Wires /\ hasMesh' \subseteq Wires
      /\ asleep' \subseteq Wires /\ armed' \subseteq Wires
      /\ scheduled' \subseteq Wires /\ paused' \subseteq Wires
      /\ turn' \in [Wires -> {"none", "owed", "had"}] /\ gone' \in 0 .. 2
  <2>1. state' \in [Wires -> WireStates]
    BY <1>3 DEF Lives, WireStates
  <2>2. coro' \in [Wires -> CoroStates]
    BY <1>3 DEF Lives, CoroStates
  <2>3. turn' \in [Wires -> {"none", "owed", "had"}]
    BY <1>3 DEF Lives
  <2>4. gone' \in 0 .. 2
    BY <1>3 DEF Lives
  <2> QED
    BY <1>2, <1>3, <2>1, <2>2, <2>3, <2>4 DEF Lives
<1>8. \A v \in Wires : (Valid(v)' <=> v \in warmedUp') /\ (IsRunning(v)' <=> v \in warmedUp')
  BY <1>2, <1>3 DEF Lives, Valid, IsRunning
<1>9. /\ warmedUp' \subseteq hasMesh' /\ scheduled' \subseteq warmedUp'
      /\ Holds(pool') \subseteq warmedUp'
  <2>1. warmedUp' \subseteq hasMesh'
    BY <1>2, <1>3 DEF Lives
  <2>2. scheduled' \subseteq warmedUp'
    BY <1>2, <1>3 DEF Lives
  <2> QED
    BY <1>3, <1>6, <2>1, <2>2 DEF Lives
<1>10. Lives'
  BY <1>6, <1>7, <1>8, <1>9 DEF Lives
<1>11. \A v \in Wires : coro'[v] = "running" <=> coro[v] = "running" /\ v # t
  <2>1. \A d \in H : coro[d] # "running"
    BY <1>2 DEF Lives, Valid
  <2> QED
    BY <1>2, <1>3, <2>1
<1>12. born \cap warmedUp = {} /\ born \cap Holds(pool) = {} /\ t \notin born
  BY <1>2 DEF Lives
<1>13. t \notin warmedUp' \cup hasMesh' \cup Holds(pool') /\ state'[t] = s
  BY <1>1, <1>3, <1>6, <1>12
<1>14. warmedUp' = (warmedUp \ {t}) \cup born
  BY <1>3
<1> QED
  BY <1>6, <1>10, <1>11, <1>12, <1>13, <1>14

\* stop() keeps Lives and leaves its wire Stopped and out of the mesh; it ends
\* the coroutine of no other wire.
LEMMA StopKeeps ==
    ASSUME NEW t \in Wires, Lives, Stop(t)
    PROVE  /\ Lives'
           /\ state'[t] = "Stopped"
           /\ t \notin warmedUp' \cup Holds(pool')
           /\ Holds(pool') \ Holds(pool) = warmedUp' \ warmedUp
           /\ warmedUp \ {t} \subseteq warmedUp' /\ Holds(pool) \ {t} \subseteq Holds(pool')
           /\ t \notin hasMesh => t \notin hasMesh'
           /\ \A v \in Wires : coro'[v] = "running" <=> coro[v] = "running" /\ v # t
<1>1. CASE state[t] = "Stopped" /\ UNCHANGED <<wireVars, meshVars, turn, gone>>
  <2>1. t \notin warmedUp /\ coro[t] # "running"
    BY <1>1 DEF Lives, IsRunning, Valid
  <2>2. Lives'
    BY <1>1 DEF Lives, wireVars, meshVars, Valid, IsRunning
  <2> QED
    BY <1>1, <2>1, <2>2 DEF Lives, wireVars, meshVars
<1>2. CASE /\ state[t] # "Stopped" /\ (Valid(t) \/ t \in warmedUp)
           /\ Leave(t, "Stopped", IF Valid(t) THEN "none" ELSE coro[t])
  <2>1. t \in warmedUp /\ Valid(t)
    BY <1>2 DEF Lives
  <2>2. Leave(t, "Stopped", "none")
    BY <1>2, <2>1
  <2> QED
    BY <2>1, <2>2, LeaveKeeps
<1>3. CASE /\ state[t] # "Stopped" /\ ~Valid(t) /\ t \notin warmedUp
           /\ state' = [state EXCEPT ![t] = "Stopped"]
           /\ UNCHANGED <<coro, warmedUp, hasMesh, asleep, armed, meshVars, turn, gone>>
  <2>1. t \notin Holds(pool) /\ coro[t] # "running"
    BY <1>3 DEF Lives, Valid
  <2>2. state' \in [Wires -> WireStates] /\ state'[t] = "Stopped"
    BY <1>3 DEF Lives, WireStates
  <2>3. \A v \in Wires : (Valid(v)' <=> v \in warmedUp') /\ (IsRunning(v)' <=> v \in warmedUp')
    BY <1>3 DEF Lives, Valid, IsRunning
  <2>4. Lives'
    BY <1>3, <2>2, <2>3 DEF Lives, meshVars
  <2> QED
    BY <1>3, <2>1, <2>2, <2>4 DEF meshVars
<1> QED
  BY <1>1, <1>2, <1>3 DEF Stop

-----------------------------------------------------------------------------
(***************************************************************************)
(* Every step keeps the invariant.                                         *)
(***************************************************************************)
LEMMA NextIInv == IInv /\ [Next]_vars => IInv'
<1> SUFFICES ASSUME IInv, [Next]_vars
             PROVE  IInv'
  OBVIOUS
<1> USE DEF IInv
<1>0. Lives /\ Control
  OBVIOUS
<1>1. ASSUME NEW w \in Wires, HostSchedule(w)
      PROVE  IInv'
  <2>1. /\ Lives'
        /\ Holds(pool') \ Holds(pool) = warmedUp' \ warmedUp
        /\ Holds(pool) \subseteq Holds(pool') /\ warmedUp \subseteq warmedUp'
        /\ \A v \in Wires : coro'[v] = "running" <=> coro[v] = "running"
    BY <1>1, ScheduleKeeps DEF HostSchedule
  <2>2. Control'
    BY <1>1, <2>1 DEF HostSchedule, ctlVars, Control, OneRuns, EndedIsOut, InVisit
  <2> QED
    BY <2>1, <2>2
<1>2. ASSUME NEW w \in Wires, HostComposeFails(w)
      PROVE  IInv'
  <2>1. Lives'
    BY <1>2 DEF HostComposeFails, Lives, meshVars, Valid, IsRunning
  <2>2. Control'
    BY <1>2 DEF HostComposeFails, ctlVars, meshVars, Control, OneRuns, EndedIsOut, InVisit
  <2> QED
    BY <2>1, <2>2
<1>3. ASSUME NEW w \in Wires, HostRemove(w)
      PROVE  IInv'
  <2>1. Stop(w) /\ phase = "idle" /\ toStop = {} /\ Holds(pool) = warmedUp
    BY <1>3 DEF HostRemove, Control
  <2>2. /\ Lives'
        /\ w \notin warmedUp' \cup Holds(pool')
        /\ Holds(pool') \ Holds(pool) = warmedUp' \ warmedUp
        /\ warmedUp \ {w} \subseteq warmedUp' /\ Holds(pool) \ {w} \subseteq Holds(pool')
        /\ \A v \in Wires : coro'[v] = "running" <=> coro[v] = "running" /\ v # w
    BY <2>1, StopKeeps
  <2>3. \A v \in Wires : coro[v] # "running"
    BY <2>1 DEF Control, OneRuns
  <2>4. Control'
    BY <1>3, <2>1, <2>2, <2>3
       DEF HostRemove, ctlVars, Control, OneRuns, EndedIsOut, InVisit
  <2> QED
    BY <2>2, <2>4
<1>4. ASSUME StartClear, phase = "idle", UNCHANGED <<cur, target, sigInt>>,
             noErrors' \in BOOLEAN, broke' \in BOOLEAN
      PROVE  IInv'
  <2>1. Sound(pool') /\ Holds(pool') = {}
    BY <1>4 DEF StartClear, Sound, PoolType, End, Distinct, Holds
  <2>2. Lives'
    BY <1>4, <2>1 DEF StartClear, Lives, wireVars, Valid, IsRunning
  <2>3. toStop' = warmedUp
    BY <1>4 DEF StartClear, Lives, Control
  <2>4. Control'
    BY <1>4, <2>1, <2>3
       DEF StartClear, wireVars, Control, Lives, OneRuns, EndedIsOut, InVisit, Phases
  <2> QED
    BY <2>2, <2>4
<1>5. CASE HostTerminate
  BY <1>4, <1>5 DEF HostTerminate, StartClear, Control
<1>6. CASE TickInterrupted
  BY <1>4, <1>6 DEF TickInterrupted, StartClear, Control
<1>7. ASSUME NEW t \in Wires, ClearStop(t)
      PROVE  IInv'
  <2>1. Stop(t) /\ phase = "clear" /\ t \in toStop
    BY <1>7 DEF ClearStop
  <2>2. /\ Lives'
        /\ t \notin warmedUp' \cup Holds(pool')
        /\ Holds(pool') \ Holds(pool) = warmedUp' \ warmedUp
        /\ warmedUp \ {t} \subseteq warmedUp' /\ Holds(pool) \ {t} \subseteq Holds(pool')
        /\ \A v \in Wires : coro'[v] = "running" <=> coro[v] = "running" /\ v # t
    BY <2>1, StopKeeps
  <2>3. \A v \in Wires : coro[v] # "running"
    BY <2>1 DEF Control, OneRuns
  <2>4. Control'
    BY <1>7, <2>1, <2>2, <2>3 DEF ClearStop, Control, OneRuns, EndedIsOut, InVisit
  <2> QED
    BY <2>2, <2>4
<1>8. CASE ClearEnd
  <2>1. Lives'
    BY <1>8 DEF ClearEnd, Lives, wireVars, Valid, IsRunning
  <2>2. Control'
    BY <1>8 DEF ClearEnd, wireVars, Control, OneRuns, EndedIsOut, InVisit, Phases
  <2> QED
    BY <2>1, <2>2
<1>9. CASE Interrupt \/ Exited
  <2>1. Lives'
    BY <1>9 DEF Interrupt, Exited, vars, Lives, wireVars, meshVars, Valid, IsRunning
  <2>2. Control'
    BY <1>9 DEF Interrupt, Exited, vars, wireVars, meshVars, ctlVars, Control, OneRuns,
                EndedIsOut, InVisit, IsRunning
  <2> QED
    BY <2>1, <2>2
<1>10. ASSUME NEW due \in SUBSET asleep, TickBegin(due)
       PROVE  IInv'
  <2>1. /\ pool'.flows = pool.flows /\ pool'.it = 1
        /\ pool' \in PoolType(Wires) /\ Len(pool.flows) \in Nat
    BY <1>10 DEF TickBegin, Lives, Sound, PoolType
  <2>2. Sound(pool') /\ Holds(pool') = Holds(pool)
    BY <2>1 DEF Lives, Sound, End, Distinct, Holds
  <2>3. Lives'
    BY <1>10, <2>2 DEF TickBegin, Lives, Valid, IsRunning
  <2>4. Control'
    BY <1>10, <2>2 DEF TickBegin, Control, OneRuns, EndedIsOut, InVisit, Phases
  <2> QED
    BY <2>3, <2>4
<1>11. CASE Skip
  <2>1. pool.it \in 1 .. Len(pool.flows) /\ pool.flows[pool.it] \in Holds(pool)
    BY <1>11 DEF Skip, Lives, Sound, PoolType, End, Holds
  <2>2. /\ pool'.flows = pool.flows /\ pool'.it = pool.it + 1
        /\ pool' \in PoolType(Wires) /\ Len(pool.flows) \in Nat
    BY <1>11, <2>1 DEF Skip, Lives, Sound, PoolType
  <2>3. Sound(pool') /\ Holds(pool') = Holds(pool)
    BY <2>1, <2>2 DEF Lives, Sound, End, Distinct, Holds
  <2>4. turn' \in [Wires -> {"none", "owed", "had"}]
    BY <1>11 DEF Skip, Lives
  <2>5. Lives'
    BY <1>11, <2>3, <2>4 DEF Skip, Lives, wireVars, Valid, IsRunning
  <2>6. Control'
    BY <1>11, <2>3 DEF Skip, wireVars, ctlVars, Control, OneRuns, EndedIsOut, InVisit, IsRunning
  <2> QED
    BY <2>5, <2>6
<1>12. CASE Visit
  <2> DEFINE w == pool.flows[pool.it]
  <2>1. w \in Holds(pool) /\ w \in Wires /\ w \in warmedUp
    <3>1. pool.it \in 1 .. Len(pool.flows)
      BY <1>12 DEF Visit, Lives, Sound, PoolType, End
    <3> QED
      BY <3>1 DEF Lives, Holds
  <2>2. IsRunning(w) /\ Valid(w)
    BY <2>1 DEF Lives
  <2>3. /\ cur' = w
        /\ \/ /\ phase' = "wire" /\ state' = [state EXCEPT ![w] = "Iterating"]
              /\ coro' = [coro EXCEPT ![w] = "running"]
           \/ phase' = "ticked" /\ state' = state /\ coro' = coro
        /\ turn' = [turn EXCEPT ![w] = "had"]
        /\ gone' = IF gone = 2 THEN 2 ELSE 0
        /\ UNCHANGED <<warmedUp, hasMesh, asleep, armed, meshVars, target, toStop,
                       sigInt, noErrors, broke>>
    BY <1>12 DEF Visit
  <2>4. phase = "loop"
    BY <1>12 DEF Visit
  <2> HIDE DEF w
  <2>5. /\ state' \in [Wires -> WireStates] /\ coro' \in [Wires -> CoroStates]
        /\ turn' \in [Wires -> {"none", "owed", "had"}] /\ gone' \in 0 .. 2
    BY <2>1, <2>3 DEF Lives, WireStates, CoroStates
  <2>6. \A v \in Wires : (Valid(v)' <=> v \in warmedUp') /\ (IsRunning(v)' <=> v \in warmedUp')
    BY <2>1, <2>3 DEF Lives, Valid, IsRunning
  <2>7. Lives'
    BY <2>3, <2>5, <2>6 DEF Lives, meshVars
  <2>8. OneRuns'
    BY <2>1, <2>3, <2>4 DEF Control, OneRuns, Lives
  <2>9. EndedIsOut'
    BY <2>1, <2>2, <2>3 DEF EndedIsOut, IsRunning
  <2>10. Control'
    BY <2>1, <2>3, <2>4, <2>8, <2>9, MeshAssumption DEF Control, InVisit, Phases, meshVars
  <2> QED
    BY <2>7, <2>10
<1>13. CASE StopEnded
  <2>1. /\ Stop(cur) /\ phase = "ticked" /\ cur \in Wires /\ ~IsRunning(cur)
        /\ toStop = {} /\ Holds(pool) = warmedUp
    BY <1>13 DEF StopEnded, Control, InVisit
  <2>2. cur \notin scheduled \cup hasMesh \cup Holds(pool)
    BY <2>1 DEF Control, EndedIsOut
  <2>3. /\ Lives'
        /\ cur \notin warmedUp' \cup Holds(pool')
        /\ Holds(pool') \ Holds(pool) = warmedUp' \ warmedUp
        /\ warmedUp \ {cur} \subseteq warmedUp' /\ Holds(pool) \ {cur} \subseteq Holds(pool')
        /\ cur \notin hasMesh => cur \notin hasMesh'
        /\ \A v \in Wires : coro'[v] = "running" <=> coro[v] = "running" /\ v # cur
    BY <2>1, StopKeeps
  <2>4. \A v \in Wires : coro[v] # "running"
    BY <2>1 DEF Control, OneRuns
  <2>5. cur' = cur /\ phase' = phase /\ target' = target /\ toStop' = toStop
        /\ sigInt' = sigInt /\ broke' = broke /\ noErrors' \in BOOLEAN
    BY <1>13 DEF StopEnded, Control
  <2>6. EndedIsOut'
    BY <2>2, <2>3, <2>5 DEF EndedIsOut, Lives
  <2>7. OneRuns'
    BY <2>1, <2>3, <2>4, <2>5 DEF OneRuns
  <2>8. Control'
    BY <2>1, <2>3, <2>5, <2>6, <2>7 DEF Control, InVisit
  <2> QED
    BY <2>3, <2>8
<1>14. CASE Advance
  <2>1. Sound(pool') /\ Holds(pool') = Holds(pool)
    <3>1. CASE At(pool, cur)
      <4>1. pool.it \in 1 .. Len(pool.flows) /\ Len(pool.flows) \in Nat
        BY <3>1 DEF At, Lives, Sound, PoolType
      <4>2. /\ pool'.flows = pool.flows /\ pool'.it = pool.it + 1
            /\ pool' \in PoolType(Wires)
        BY <1>14, <3>1, <4>1 DEF Advance, Lives, Sound, PoolType
      <4> QED
        BY <4>1, <4>2 DEF Lives, Sound, End, Distinct, Holds
    <3>2. CASE ~At(pool, cur)
      BY <1>14, <3>2 DEF Advance, Lives
    <3> QED
      BY <3>1, <3>2
  <2>2. Lives'
    BY <1>14, <2>1 DEF Advance, wireVars, Lives, Valid, IsRunning
  <2>3. Control'
    BY <1>14, <2>1, MeshAssumption
       DEF Advance, wireVars, Control, OneRuns, EndedIsOut, InVisit, Phases
  <2> QED
    BY <2>2, <2>3
<1>15. CASE TickEnd
  <2>1. Lives'
    BY <1>15 DEF TickEnd, wireVars, meshVars, Lives, Valid, IsRunning
  <2>2. Control'
    BY <1>15 DEF TickEnd, wireVars, meshVars, Control, OneRuns, EndedIsOut, InVisit, Phases
  <2> QED
    BY <2>1, <2>2
<1>16. ASSUME NEW w \in Wires, NEW s \in {"Iterating", "IterationEnded"}, NEW z \in BOOLEAN,
              Yield(w, s, z)
       PROVE  IInv'
  <2>1. /\ cur = w /\ phase = "wire" /\ coro[w] = "running" /\ w \in warmedUp
        /\ IsRunning(w)
    BY <1>16 DEF Yield, Control, OneRuns, Lives, Valid
  <2>2. /\ state' \in [Wires -> WireStates] /\ coro' \in [Wires -> CoroStates]
        /\ asleep' \subseteq Wires
    BY <1>16 DEF Yield, Lives, WireStates, CoroStates
  <2>3. \A v \in Wires : (Valid(v)' <=> v \in warmedUp') /\ (IsRunning(v)' <=> v \in warmedUp')
    BY <1>16, <2>1 DEF Yield, Lives, Valid, IsRunning
  <2>4. Lives'
    BY <1>16, <2>2, <2>3 DEF Yield, Lives, meshVars
  <2>5. OneRuns'
    BY <1>16, <2>1 DEF Yield, Control, OneRuns, Lives
  <2>6. EndedIsOut'
    BY <1>16, <2>1 DEF Yield, EndedIsOut, Lives, IsRunning
  <2>7. Control'
    BY <1>16, <2>1, <2>5, <2>6 DEF Yield, Control, InVisit, Phases, meshVars
  <2> QED
    BY <2>4, <2>7
<1>17. ASSUME NEW w \in Wires, NEW s \in {"Ended", "Failed"}, cur = w,
              phase \in {"wire", "throw"}, Leave(w, s, "finished"), phase' = "ticked",
              broke' \in BOOLEAN, UNCHANGED <<cur, target, toStop, sigInt, noErrors>>
       PROVE  IInv'
  <2>1. coro[w] = "running" /\ w \in warmedUp /\ toStop = {} /\ Holds(pool) = warmedUp
    BY <1>17 DEF Control, OneRuns, Lives, Valid
  <2>2. /\ Lives'
        /\ w \notin warmedUp' \cup hasMesh' \cup Holds(pool')
        /\ Holds(pool') \ Holds(pool) = warmedUp' \ warmedUp
        /\ warmedUp \ {w} \subseteq warmedUp' /\ Holds(pool) \ {w} \subseteq Holds(pool')
        /\ \A v \in Wires : coro'[v] = "running" <=> coro[v] = "running" /\ v # w
    BY <1>17, <2>1, LeaveKeeps
  <2>3. OneRuns'
    BY <1>17, <2>2 DEF Control, OneRuns
  <2>4. EndedIsOut'
    BY <1>17, <2>2 DEF EndedIsOut, Lives
  <2>5. Control'
    BY <1>17, <2>1, <2>2, <2>3, <2>4 DEF Control, InVisit, Phases
  <2> QED
    BY <2>2, <2>5
<1>18. ASSUME NEW w \in Wires, Finish(w)
       PROVE  IInv'
  BY <1>17, <1>18 DEF Finish, Control
<1>19. ASSUME NEW w \in Wires, Fail(w)
       PROVE  IInv'
  BY <1>17, <1>19 DEF Fail, Control
\* Stopping another wire, from StopWire or from a Detach.
<1>20. ASSUME NEW t \in Wires, t # cur, phase = "wire", Stop(t),
              phase' \in {"wire", "detach"}, UNCHANGED <<cur, toStop, sigInt, noErrors, broke>>,
              target' \in Wires \cup {NoWire}, target' \in Wires <=> phase' = "detach"
       PROVE  IInv'
  <2>1. toStop = {} /\ Holds(pool) = warmedUp /\ cur \in Wires
    BY <1>20 DEF Control, InVisit
  <2>2. /\ Lives'
        /\ t \notin warmedUp' \cup Holds(pool')
        /\ Holds(pool') \ Holds(pool) = warmedUp' \ warmedUp
        /\ warmedUp \ {t} \subseteq warmedUp' /\ Holds(pool) \ {t} \subseteq Holds(pool')
        /\ \A v \in Wires : coro'[v] = "running" <=> coro[v] = "running" /\ v # t
    BY <1>20, StopKeeps
  <2>3. OneRuns'
    BY <1>20, <2>2 DEF Control, OneRuns
  <2>4. EndedIsOut'
    BY <1>20 DEF EndedIsOut
  <2>5. Control'
    BY <1>20, <2>1, <2>2, <2>3, <2>4 DEF Control, InVisit, Phases
  <2> QED
    BY <2>2, <2>5
<1>21. ASSUME NEW t \in Wires, StopWire(t)
       PROVE  IInv'
  BY <1>20, <1>21 DEF StopWire, ctlVars, Control
<1>22. ASSUME NEW t \in Wires, Detach(t)
       PROVE  IInv'
  BY <1>20, <1>22 DEF Detach
<1>23. CASE Detached
  <2>1. phase = "detach" /\ target \in Wires /\ toStop = {} /\ Holds(pool) = warmedUp
    BY <1>23 DEF Detached, Control
  <2>2. /\ Lives'
        /\ Holds(pool') \ Holds(pool) = warmedUp' \ warmedUp
        /\ Holds(pool) \subseteq Holds(pool') /\ warmedUp \subseteq warmedUp'
        /\ \A v \in Wires : coro'[v] = "running" <=> coro[v] = "running"
    BY <1>23, <2>1, ScheduleKeeps DEF Detached
  <2>3. phase' \in {"wire", "throw"} /\ target' = NoWire
        /\ UNCHANGED <<cur, toStop, sigInt, noErrors, broke>>
    BY <1>23 DEF Detached
  <2>4. OneRuns'
    BY <2>1, <2>2, <2>3 DEF Control, OneRuns
  <2>5. EndedIsOut'
    BY <2>3 DEF EndedIsOut
  <2>6. Control'
    BY <2>1, <2>2, <2>3, <2>4, <2>5, MeshAssumption DEF Control, InVisit, Phases
  <2> QED
    BY <2>2, <2>6
<1>24. ASSUME NEW t \in Wires, SuspendWire(t) \/ ResumeWire(t)
       PROVE  IInv'
  <2>1. paused' \subseteq Wires /\ UNCHANGED <<wireVars, scheduled, pool, ctlVars, turn, gone>>
    BY <1>24 DEF SuspendWire, ResumeWire, Lives
  <2>2. Lives'
    BY <2>1 DEF Lives, wireVars, Valid, IsRunning
  <2>3. Control'
    BY <2>1 DEF Control, wireVars, ctlVars, OneRuns, EndedIsOut, InVisit, IsRunning
  <2> QED
    BY <2>2, <2>3
<1>25. CASE ArmWhenDone
  <2>1. armed' \subseteq Wires
    BY <1>25 DEF ArmWhenDone, Lives, Control, InVisit
  <2>2. Lives'
    BY <1>25, <2>1 DEF ArmWhenDone, meshVars, Lives, Valid, IsRunning
  <2>3. Control'
    BY <1>25 DEF ArmWhenDone, meshVars, Control, ctlVars, OneRuns, EndedIsOut, InVisit, IsRunning
  <2> QED
    BY <2>2, <2>3
<1>26. CASE UNCHANGED vars
  <2>1. Lives'
    BY <1>26 DEF vars, wireVars, meshVars, Lives, Valid, IsRunning
  <2>2. Control'
    BY <1>26 DEF vars, wireVars, meshVars, ctlVars, Control, OneRuns, EndedIsOut, InVisit, IsRunning
  <2> QED
    BY <2>1, <2>2
<1>27. Host => IInv'
  BY <1>1, <1>2, <1>3, <1>5 DEF Host
<1>28. Tick => IInv'
  BY <1>6, <1>10 DEF Tick
<1>29. Loop => IInv'
  BY <1>11, <1>12, <1>13, <1>14, <1>15, <1>23 DEF Loop
<1>30. Clear => IInv'
  BY <1>7, <1>8 DEF Clear
<1>31. Acts => IInv'
  BY <1>21, <1>22, <1>24, <1>25 DEF Acts
<1>32. Leaves => IInv'
  BY <1>16, <1>18, <1>19 DEF Leaves
<1> QED
  BY <1>9, <1>26, <1>27, <1>28, <1>29, <1>30, <1>31, <1>32, RaisedIInv DEF Next

-----------------------------------------------------------------------------
(***************************************************************************)
(* The theorems.                                                           *)
(***************************************************************************)
\* Every reachable state satisfies the inductive invariant.
LEMMA Inductive == Spec => []IInv
BY InitIInv, NextIInv, PTL DEF Spec

\* Every variable keeps its type, the iterator of the flow pool included.
THEOREM TypeCorrect == Spec => []TypeOK
BY Inductive, IInvImplies, PTL

\* The records of a wire's life agree, one coroutine runs, no wire has two flows
\* and a wire that ended is gone, after any sequence of schedules, ticks, stops,
\* detaches, failures and clears.
THEOREM LifeCorrect == Spec => []LifeIsConsistent
BY Inductive, IInvImplies, PTL

\* At most one coroutine runs, and it is the one the mesh tick resumed.
THEOREM OneRunsCorrect == Spec => []OneRuns
BY Inductive, IInvImplies, PTL

\* No wire ever gets a second flow.
THEOREM PoolCorrect == Spec => []PoolIsDistinct
BY Inductive, IInvImplies, PTL

\* The assertions of SHMesh::tick on a wire that ended never fail.
THEOREM EndedIsOutCorrect == Spec => []EndedIsOut
BY Inductive, IInvImplies, PTL

-----------------------------------------------------------------------------
(***************************************************************************)
(* What a mesh tick owes to each flow: where the iterator is, what has had *)
(* its turn and the wire that is ticked, while flows are appended and      *)
(* erased under the iterator.                                              *)
(***************************************************************************)
\* The flows ahead of the iterator have not had their turn, the one that is
\* ticked has, at the iterator or before it; unless two flows were taken away
\* in one visit nothing behind it is owed, and unless one was it is where the
\* visit began.
Walk(p, T, x, g) ==
    /\ \A i \in DOMAIN p.flows : i >= p.it /\ p.flows[i] # x => T[p.flows[i]] # "had"
    /\ \A i \in DOMAIN p.flows : p.flows[i] = x => i <= p.it /\ T[x] = "had"
    /\ g < 2 => \A i \in DOMAIN p.flows : i < p.it => T[p.flows[i]] # "owed"
    /\ g = 0 /\ x \in Wires => At(p, x)

Walks == phase = "loop" \/ InVisit => Walk(pool, turn, cur, gone)

\* A sound pool, in the terms of its sequence.
LEMMA SoundFacts ==
    ASSUME NEW p, Sound(p)
    PROVE  /\ p.flows \in Seq(Wires) /\ Len(p.flows) \in Nat
           /\ DOMAIN p.flows = 1 .. Len(p.flows)
           /\ p.it \in Nat /\ 1 <= p.it /\ p.it <= Len(p.flows) + 1
           /\ \A i, j \in DOMAIN p.flows : p.flows[i] = p.flows[j] => i = j
           /\ \A i \in DOMAIN p.flows : p.flows[i] \in Wires /\ p.flows[i] \in Holds(p)
BY DEF Sound, PoolType, End, Distinct, Holds

\* An appended flow is owed nothing, and the iterator stays with its flow or
\* behind the end.
LEMMA AppendWalks ==
    ASSUME NEW p, NEW w \in Wires, NEW T, NEW U, NEW x, NEW g,
           Sound(p), w \notin Holds(p), w # x, Walk(p, T, x, g),
           U[w] = "none", \A v \in Wires : v # w => U[v] = T[v], x \in Wires \cup {NoWire}
    PROVE  Walk(EmplaceBack(p, w), U, x, g)
<1> DEFINE q == EmplaceBack(p, w)
           n == Len(p.flows)
<1>1. /\ n \in Nat /\ DOMAIN p.flows = 1 .. n
      /\ p.it \in Nat /\ 1 <= p.it /\ p.it <= n + 1
      /\ \A i \in 1 .. n : p.flows[i] \in Wires /\ p.flows[i] # w
  BY SoundFacts
<1>2. /\ q.it = IF p.it = n + 1 THEN p.it + 1 ELSE p.it
      /\ DOMAIN q.flows = 1 .. (n + 1)
      /\ \A i \in 1 .. n : q.flows[i] = p.flows[i]
      /\ q.flows[n + 1] = w
  BY SoundFacts DEF EmplaceBack, End
<1> HIDE DEF q, n
<1>3. \A i \in 1 .. (n + 1) : i \in 1 .. n \/ i = n + 1
  BY <1>1
<1>4. \A i \in DOMAIN q.flows : i >= q.it /\ q.flows[i] # x => U[q.flows[i]] # "had"
  BY <1>1, <1>2, <1>3 DEF Walk
<1>5. \A i \in DOMAIN q.flows : q.flows[i] = x => i <= q.it /\ U[x] = "had"
  BY <1>1, <1>2, <1>3 DEF Walk
<1>6. g < 2 => \A i \in DOMAIN q.flows : i < q.it => U[q.flows[i]] # "owed"
  BY <1>1, <1>2, <1>3 DEF Walk
<1>7. g = 0 /\ x \in Wires => At(q, x)
  BY <1>1, <1>2 DEF Walk, At
<1> QED
  BY <1>4, <1>5, <1>6, <1>7 DEF Walk, q

\* Where the flows that are left were before one was erased.
LEMMA CleanedUpMoves ==
    ASSUME NEW p, NEW w \in Wires, Sound(p), w \in Holds(p)
    PROVE  LET q == WireCleanedUp(p, w)
           IN  /\ q.it \in Nat /\ DOMAIN q.flows \subseteq Nat
               /\ \A i \in DOMAIN q.flows : \E j \in DOMAIN p.flows :
                    /\ q.flows[i] = p.flows[j] /\ p.flows[j] # w
                    /\ i >= q.it => j >= p.it
                    /\ i > q.it => j > p.it
                    /\ i < q.it => j <= p.it
<1> DEFINE k == IndexOf(p, w)
           rest == EraseAt(p.flows, k)
           n == Len(p.flows)
           q == WireCleanedUp(p, w)
<1>1. /\ n \in Nat /\ DOMAIN p.flows = 1 .. n /\ p.it \in Nat /\ p.it <= n + 1 /\ 1 <= p.it
      /\ \A i, j \in 1 .. n : p.flows[i] = p.flows[j] => i = j
  BY SoundFacts
<1>2. k \in 1 .. n /\ p.flows[k] = w
  BY <1>1 DEF IndexOf, Holds
<1>3. /\ DOMAIN rest = 1 .. (n - 1) /\ Len(rest) = n - 1
      /\ \A i \in 1 .. (n - 1) : rest[i] = IF i < k THEN p.flows[i] ELSE p.flows[i + 1]
  BY <1>1, <1>2 DEF EraseAt
<1>4. q.flows = rest /\ q.it = IF k <= p.it /\ p.it > n - 1 THEN n ELSE p.it
  BY <1>1, <1>3 DEF WireCleanedUp
<1> HIDE DEF q, rest, k, n
<1>5. ASSUME NEW i \in DOMAIN q.flows
      PROVE  \E j \in DOMAIN p.flows :
                /\ q.flows[i] = p.flows[j] /\ p.flows[j] # w
                /\ i >= q.it => j >= p.it
                /\ i > q.it => j > p.it
                /\ i < q.it => j <= p.it
  <2> DEFINE j == IF i < k THEN i ELSE i + 1
  <2>1. i \in 1 .. (n - 1) /\ j \in 1 .. n /\ j # k
    BY <1>1, <1>2, <1>3, <1>4, <1>5
  <2>2. q.flows[i] = p.flows[j] /\ p.flows[j] # w
    BY <1>1, <1>2, <1>3, <1>4, <2>1
  <2>3. /\ i >= q.it => j >= p.it
        /\ i > q.it => j > p.it
        /\ i < q.it => j <= p.it
    BY <1>1, <1>2, <1>4, <2>1
  <2> QED
    BY <1>1, <2>1, <2>2, <2>3
<1> QED
  BY <1>1, <1>3, <1>4, <1>5 DEF q

\* A flow that is erased in a visit moves nothing that had its turn to the
\* iterator or past it; what is owed slips behind it only if another flow was
\* erased in this visit before.
LEMMA EraseWalks ==
    ASSUME NEW p, NEW w \in Wires, NEW T, NEW U, NEW x \in Wires, NEW g \in 0 .. 2, NEW h,
           Sound(p), Walk(p, T, x, g),
           \A v \in Wires : v # w => U[v] = T[v],
           h = IF w \in Holds(p) /\ g < 2 THEN g + 1 ELSE g
    PROVE  Walk(WireCleanedUp(p, w), U, x, h)
<1> DEFINE q == WireCleanedUp(p, w)
<1>1. CASE w \notin Holds(p)
  <2>1. q = p /\ h = g
    BY <1>1 DEF WireCleanedUp
  <2>2. /\ \A i \in DOMAIN p.flows : p.flows[i] \in Wires /\ p.flows[i] # w
        /\ \A i \in DOMAIN p.flows : U[p.flows[i]] = T[p.flows[i]]
    BY <1>1, SoundFacts
  <2> HIDE DEF q
  <2>3. Walk(q, U, x, h)
    BY <2>1, <2>2 DEF Walk
  <2> QED
    BY <2>3 DEF q
<1>2. CASE w \in Holds(p)
  <2>1. /\ q.it \in Nat /\ DOMAIN q.flows \subseteq Nat
        /\ \A i \in DOMAIN q.flows : \E j \in DOMAIN p.flows :
             /\ q.flows[i] = p.flows[j] /\ p.flows[j] # w
             /\ i >= q.it => j >= p.it
             /\ i > q.it => j > p.it
             /\ i < q.it => j <= p.it
    BY <1>2, CleanedUpMoves
  <2>2. /\ p.it \in Nat /\ DOMAIN p.flows \subseteq Nat
        /\ \A i \in DOMAIN p.flows : p.flows[i] \in Wires
    BY SoundFacts
  <2> HIDE DEF q
  <2>3. ASSUME NEW i \in DOMAIN q.flows, i >= q.it, q.flows[i] # x
        PROVE  U[q.flows[i]] # "had"
    BY <2>1, <2>2, <2>3 DEF Walk
  <2>4. ASSUME NEW i \in DOMAIN q.flows, q.flows[i] = x
        PROVE  i <= q.it /\ U[x] = "had"
    <3>1. PICK j \in DOMAIN p.flows :
             /\ p.flows[j] = x /\ x # w
             /\ i > q.it => j > p.it
      BY <2>1, <2>4
    <3>2. j <= p.it /\ T[x] = "had"
      BY <3>1 DEF Walk
    <3> QED
      BY <2>1, <2>2, <3>1, <3>2
  <2>5. ASSUME h < 2, NEW i \in DOMAIN q.flows, i < q.it
        PROVE  U[q.flows[i]] # "owed"
    <3>1. PICK j \in DOMAIN p.flows : q.flows[i] = p.flows[j] /\ p.flows[j] # w /\ j <= p.it
      BY <2>1, <2>5
    <3>2. g = 0 /\ At(p, x)
      BY <1>2, <2>5 DEF Walk
    <3>3. T[p.flows[j]] # "owed"
      BY <2>2, <3>1, <3>2 DEF Walk, At
    <3> QED
      BY <2>2, <3>1, <3>3
  <2>6. h # 0
    BY <1>2
  <2>7. Walk(q, U, x, h)
    BY <2>3, <2>4, <2>5, <2>6 DEF Walk
  <2> QED
    BY <2>7 DEF q
<1> QED
  BY <1>1, <1>2

\* A schedule that fails leaves the pool as it was, the iterator included.
LEMMA FailedScheduleIsNothing ==
    ASSUME NEW p, NEW w \in Wires, Sound(p), w \notin Holds(p)
    PROVE  Scheduled(p, w, FALSE) = p
<1> DEFINE q == EmplaceBack(p, w)
           n == Len(p.flows)
           k == IndexOf(q, w)
<1>1. /\ n \in Nat /\ DOMAIN p.flows = 1 .. n
      /\ p.it \in Nat /\ 1 <= p.it /\ p.it <= n + 1
      /\ \A i \in 1 .. n : p.flows[i] # w
      /\ p = [flows |-> p.flows, it |-> p.it]
      /\ p.flows = [i \in 1 .. n |-> p.flows[i]]
  BY SoundFacts DEF Sound, PoolType
<1>2. /\ q.it = IF p.it = n + 1 THEN p.it + 1 ELSE p.it
      /\ DOMAIN q.flows = 1 .. (n + 1) /\ Len(q.flows) = n + 1
      /\ \A i \in 1 .. n : q.flows[i] = p.flows[i]
      /\ q.flows[n + 1] = w
  BY SoundFacts DEF EmplaceBack, End
<1> HIDE DEF q, n
<1>3. k = n + 1 /\ w \in Holds(q)
  BY <1>1, <1>2 DEF IndexOf, Holds
<1>4. EraseAt(q.flows, k) = p.flows
  <2>1. EraseAt(q.flows, k) = [i \in 1 .. n |-> IF i < n + 1 THEN q.flows[i] ELSE q.flows[i + 1]]
    BY <1>1, <1>2, <1>3 DEF EraseAt
  <2> QED
    BY <1>1, <1>2, <2>1
<1>5. WireCleanedUp(q, w) = [flows |-> p.flows, it |-> IF n + 1 <= q.it /\ q.it > n THEN n + 1 ELSE q.it]
  BY <1>3, <1>4 DEF WireCleanedUp, n
<1>6. (IF n + 1 <= q.it /\ q.it > n THEN n + 1 ELSE q.it) = p.it
  BY <1>1, <1>2
<1> QED
  BY <1>1, <1>5, <1>6 DEF Scheduled, q

\* A schedule during a visit keeps the accounts of the tick.
LEMMA ScheduleWalks ==
    ASSUME NEW w \in Wires, Lives, Schedule(w) \/ ScheduleFails(w),
           NEW x \in warmedUp, Walk(pool, turn, x, gone)
    PROVE  Walk(pool', turn', x, gone')
<1>1. w \notin Holds(pool) /\ w # x /\ Sound(pool) /\ x \in Wires
  BY DEF Schedule, ScheduleFails, CanSchedule, Lives
<1>2. CASE Schedule(w)
  <2>1. /\ pool' = EmplaceBack(pool, w) /\ gone' = gone
        /\ turn'[w] = "none" /\ \A v \in Wires : v # w => turn'[v] = turn[v]
    BY <1>2 DEF Schedule, Scheduled, Lives
  <2> QED
    BY <1>1, <2>1, AppendWalks
<1>3. CASE ScheduleFails(w)
  <2>1. pool' = pool /\ gone' = gone /\ turn' = turn
    BY <1>1, <1>3, FailedScheduleIsNothing DEF ScheduleFails
  <2> QED
    BY <2>1
<1> QED
  BY <1>2, <1>3

\* A cleanup during a visit does, with the copy of a WhenDone it may schedule.
LEMMA LeaveWalks ==
    ASSUME NEW t \in Wires, NEW s, NEW c, Lives, Leave(t, s, c),
           NEW x \in warmedUp, Walk(pool, turn, x, gone)
    PROVE  /\ Walk(pool', turn', x, gone')
           /\ warmedUp' \subseteq warmedUp \cup {WhenDone[t]}
<1> DEFINE H == Heir(t)
<1>1. /\ H \subseteq Wires /\ t \notin H
      /\ \A d \in H : d = WhenDone[t] /\ d \notin warmedUp
  BY DEF Heir, CanSchedule
<1> HIDE DEF H
<1>2. PICK born \in SUBSET H :
        LET tried == IF H = {} THEN pool ELSE Scheduled(pool, WhenDone[t], born # {})
        IN  /\ warmedUp' = (warmedUp \ {t}) \cup born
            /\ pool' = WireCleanedUp(tried, t)
            /\ turn' = [w \in Wires |-> IF w \in {t} \cup born THEN "none" ELSE turn[w]]
            /\ gone' = IF t \in Holds(pool) /\ gone < 2 THEN gone + 1 ELSE gone
  BY DEF Leave, H
<1> DEFINE tried == IF H = {} THEN pool ELSE Scheduled(pool, WhenDone[t], born # {})
           U == [w \in Wires |-> IF w \in born THEN "none" ELSE turn[w]]
<1>3. /\ x \in Wires /\ x \notin H /\ Sound(pool) /\ Holds(pool) \subseteq warmedUp
      /\ gone \in 0 .. 2
  BY <1>1 DEF Lives
<1>4. /\ Sound(tried) /\ Walk(tried, U, x, gone)
      /\ t \in Holds(tried) <=> t \in Holds(pool)
  <2>1. CASE born = {}
    <3>1. tried = pool
      <4>1. CASE H = {}
        BY <4>1
      <4>2. CASE H # {}
        <5>1. WhenDone[t] \in H
          BY <1>1, <4>2
        <5>2. WhenDone[t] \in Wires /\ WhenDone[t] \notin Holds(pool)
          BY <1>1, <1>3, <5>1
        <5> QED
          BY <1>3, <2>1, <4>2, <5>2, FailedScheduleIsNothing
      <4> QED
        BY <4>1, <4>2
    <3>2. \A v \in Wires : U[v] = turn[v]
      BY <2>1
    <3>3. \A i \in DOMAIN pool.flows : pool.flows[i] \in Wires
      BY <1>3, SoundFacts
    <3> HIDE DEF U, tried
    <3> QED
      BY <1>3, <3>1, <3>2, <3>3 DEF Walk
  <2>2. CASE born # {}
    <3>1. PICK d \in born : TRUE
      BY <2>2
    <3>2. /\ d \in H /\ born = {d} /\ d = WhenDone[t] /\ d \in Wires
          /\ d \notin Holds(pool) /\ d # x /\ d # t
      BY <1>1, <1>3, <3>1
    <3>3. tried = EmplaceBack(pool, d)
      BY <2>2, <3>2 DEF Scheduled
    <3>4. U[d] = "none" /\ \A v \in Wires : v # d => U[v] = turn[v]
      BY <3>2
    <3> HIDE DEF U, tried
    <3>5. Walk(EmplaceBack(pool, d), U, x, gone)
      BY <1>3, <3>2, <3>4, AppendWalks
    <3>6. Sound(EmplaceBack(pool, d)) /\ Holds(EmplaceBack(pool, d)) = Holds(pool) \cup {d}
      BY <1>3, <3>2, EmplaceSound
    <3> QED
      BY <3>2, <3>3, <3>5, <3>6
  <2> QED
    BY <2>1, <2>2
<1>5. pool' = WireCleanedUp(tried, t)
  BY <1>2
<1>6. \A v \in Wires : v # t => turn'[v] = U[v]
  BY <1>2
<1>7. gone' = IF t \in Holds(tried) /\ gone < 2 THEN gone + 1 ELSE gone
  BY <1>2, <1>4
<1> HIDE DEF tried, U
<1>8. Walk(pool', turn', x, gone')
  BY <1>3, <1>4, <1>5, <1>6, <1>7, EraseWalks
<1>9. warmedUp' \subseteq warmedUp \cup {WhenDone[t]}
  BY <1>1, <1>2
<1> QED
  BY <1>8, <1>9

\* And a stop does.
LEMMA StopWalks ==
    ASSUME NEW t \in Wires, Lives, Stop(t)
    PROVE  /\ \A x \in warmedUp : Walk(pool, turn, x, gone) => Walk(pool', turn', x, gone')
           /\ warmedUp' \subseteq warmedUp \cup {WhenDone[t]}
<1>1. CASE UNCHANGED <<warmedUp, pool, turn, gone>>
  BY <1>1
<1>2. CASE \E s, c : Leave(t, s, c)
  <2>1. PICK s, c : Leave(t, s, c)
    BY <1>2
  <2>2. warmedUp' \subseteq warmedUp \cup {WhenDone[t]}
    BY <2>1 DEF Leave, Heir
  <2> QED
    BY <2>1, <2>2, LeaveWalks
<1> QED
  BY <1>1, <1>2 DEF Stop, wireVars, meshVars

\* The heirs of the wires stopped by a clear are all that it leaves in the pool.
LEMMA NextHeirs ==
    ASSUME IInv, IInv', OnlyHeirsSurviveClear, [Next]_vars
    PROVE  OnlyHeirsSurviveClear'
<1> SUFFICES ASSUME phase' = "clear"
             PROVE  \A w \in Holds(pool') : \E t \in Wires : WhenDone[t] = w
  BY DEF OnlyHeirsSurviveClear
<1>1. CASE StartClear
  BY <1>1 DEF StartClear, Holds
<1>2. ASSUME NEW t \in Wires, ClearStop(t)
      PROVE  \A w \in Holds(pool') : \E u \in Wires : WhenDone[u] = w
  <2>1. Stop(t) /\ phase = "clear"
    BY <1>2 DEF ClearStop
  <2>2. Holds(pool') \ Holds(pool) \subseteq {WhenDone[t]}
    BY <2>1, StopWalks, StopKeeps DEF IInv
  <2> QED
    BY <2>1, <2>2 DEF OnlyHeirsSurviveClear
<1>3. CASE phase = "clear" /\ pool' = pool
  BY <1>3 DEF OnlyHeirsSurviveClear
<1>4. \/ StartClear \/ (phase = "clear" /\ pool' = pool)
      \/ \E t \in Wires : ClearStop(t)
  <2>0. ~Raised
    BY DEF Raised
  <2>1. CASE Host
    BY <2>1 DEF Host, HostSchedule, HostComposeFails, HostRemove, HostTerminate, ctlVars
  <2>2. CASE Tick
    BY <2>2 DEF Tick, TickInterrupted, TickBegin
  <2>3. CASE Loop
    BY <2>3 DEF Loop, Skip, Visit, StopEnded, Advance, TickEnd, Detached, ctlVars
  <2>4. CASE Clear
    BY <2>4 DEF Clear, ClearEnd
  <2>5. CASE Acts
    BY <2>5 DEF Acts, StopWire, SuspendWire, ResumeWire, Detach, ArmWhenDone, ctlVars
  <2>6. CASE Leaves
    BY <2>6 DEF Leaves, Yield, Finish, Fail
  <2>7. CASE Interrupt \/ Exited \/ UNCHANGED vars
    BY <2>7 DEF Interrupt, Exited, vars, meshVars, ctlVars
  <2> QED
    BY <2>0, <2>1, <2>2, <2>3, <2>4, <2>5, <2>6, <2>7 DEF Next
<1> QED
  BY <1>1, <1>2, <1>3, <1>4

-----------------------------------------------------------------------------
(***************************************************************************)
(* Every step keeps the accounts of the tick.                              *)
(***************************************************************************)
LEMMA NextWalks ==
    ASSUME IInv, IInv', Walks, [Next]_vars
    PROVE  Walks'
<1> USE DEF IInv
<1>0. /\ Sound(pool) /\ gone \in 0 .. 2 /\ turn \in [Wires -> {"none", "owed", "had"}]
      /\ Holds(pool) \subseteq warmedUp /\ warmedUp \subseteq Wires
      /\ cur \in Wires \cup {NoWire} /\ (cur \in Wires <=> InVisit)
      /\ phase \in {"wire", "detach", "throw"} => cur \in warmedUp
  BY DEF Lives, Control, OneRuns, Valid, InVisit
<1>1. /\ pool.it \in Nat /\ DOMAIN pool.flows \subseteq Nat \ {0}
      /\ \A i, j \in DOMAIN pool.flows : pool.flows[i] = pool.flows[j] => i = j
      /\ \A i \in DOMAIN pool.flows : pool.flows[i] \in Wires /\ pool.flows[i] \in Holds(pool)
  BY <1>0, SoundFacts
<1>2. CASE /\ UNCHANGED <<pool, turn, gone, cur>>
           /\ phase' = "loop" \/ InVisit' => phase = "loop" \/ InVisit
  BY <1>2 DEF Walks
<1>3. ASSUME NEW due \in SUBSET asleep, TickBegin(due)
      PROVE  Walks'
  <2>1. /\ pool'.flows = pool.flows /\ pool'.it = 1 /\ gone' = 0 /\ cur' = cur /\ cur \notin Wires
        /\ \A w \in Wires : turn'[w] # "had"
    BY <1>0, <1>3 DEF TickBegin, Sound, PoolType, InVisit
  <2> QED
    BY <1>1, <2>1 DEF Walks, Walk
<1>4. CASE Skip
  <2>1. /\ phase = "loop" /\ cur' = cur /\ cur \notin Wires /\ gone' = gone
        /\ pool'.flows = pool.flows /\ pool'.it = pool.it + 1
        /\ turn' = [turn EXCEPT ![pool.flows[pool.it]] = "had"]
        /\ pool.it \in DOMAIN pool.flows
    BY <1>0, <1>4 DEF Skip, ctlVars, InVisit, Sound, PoolType, End
  <2>2. Walk(pool, turn, cur, gone)
    BY <2>1 DEF Walks
  <2>3. \A i \in DOMAIN pool.flows : i # pool.it => turn'[pool.flows[i]] = turn[pool.flows[i]]
    BY <1>0, <1>1, <2>1
  <2>4. turn'[pool.flows[pool.it]] = "had"
    BY <1>0, <1>1, <2>1
  <2>5. /\ \A i \in Nat : i >= pool.it + 1 => i >= pool.it /\ i # pool.it
        /\ \A i \in Nat : i < pool.it + 1 => i < pool.it \/ i = pool.it
    BY <1>1
  <2> QED
    BY <1>1, <2>1, <2>2, <2>3, <2>4, <2>5 DEF Walks, Walk
<1>5. CASE Visit
  <2> DEFINE w == pool.flows[pool.it]
  <2>1. /\ phase = "loop" /\ cur \notin Wires /\ cur' = w /\ pool' = pool
        /\ turn' = [turn EXCEPT ![w] = "had"]
        /\ gone' = IF gone = 2 THEN 2 ELSE 0
        /\ pool.it \in DOMAIN pool.flows /\ w \in Wires
    BY <1>0, <1>1, <1>5 DEF Visit, meshVars, InVisit, Sound, PoolType, End
  <2>2. Walk(pool, turn, cur, gone)
    BY <2>1 DEF Walks
  <2>3. turn'[w] = "had" /\ \A v \in Wires : v # w => turn'[v] = turn[v]
    BY <1>0, <2>1
  <2>4. At(pool, w)
    BY <2>1 DEF At
  <2>5. \A i \in DOMAIN pool.flows : pool.flows[i] = w => i = pool.it
    BY <1>1, <2>1
  <2>6. gone' < 2 => gone < 2
    BY <1>0, <2>1
  <2> HIDE DEF w
  <2>7. Walk(pool, turn', w, gone')
    BY <1>1, <2>1, <2>2, <2>3, <2>4, <2>5, <2>6 DEF Walk
  <2> QED
    BY <2>1, <2>7 DEF Walks
<1>6. CASE StopEnded
  <2>1. cur \notin warmedUp /\ cur \in Wires /\ phase' = phase /\ cur' = cur
    BY <1>6 DEF StopEnded, Lives, Control, InVisit
  <2>2. UNCHANGED <<pool, turn, gone>>
    BY <1>6, <2>1 DEF StopEnded, Stop, Lives, wireVars, meshVars
  <2> QED
    BY <2>1, <2>2, <1>2 DEF InVisit
<1>7. CASE Advance
  <2>1. /\ InVisit /\ cur \in Wires /\ cur' = NoWire /\ NoWire \notin Wires
        /\ gone' = gone /\ turn' = turn
    BY <1>0, <1>7, MeshAssumption DEF Advance, InVisit
  <2>2. Walk(pool, turn, cur, gone)
    BY <2>1 DEF Walks
  <2>3. CASE At(pool, cur)
    <3>1. pool'.flows = pool.flows /\ pool'.it = pool.it + 1
      BY <1>0, <1>7, <2>3 DEF Advance, Sound, PoolType
    <3>2. turn[cur] = "had" /\ pool.it \in DOMAIN pool.flows /\ pool.flows[pool.it] = cur
      BY <2>2, <2>3 DEF Walk, At
    <3>3. /\ \A i \in Nat : i >= pool.it + 1 => i >= pool.it /\ i # pool.it
          /\ \A i \in Nat : i < pool.it + 1 => i < pool.it \/ i = pool.it
      BY <1>1
    <3> QED
      BY <1>1, <2>1, <2>2, <3>1, <3>2, <3>3 DEF Walks, Walk
  <2>4. CASE ~At(pool, cur)
    <3>1. pool' = pool
      BY <1>7, <2>4 DEF Advance
    <3>2. \A i \in DOMAIN pool.flows : i >= pool.it => pool.flows[i] # cur
      <4>1. ASSUME NEW i \in DOMAIN pool.flows, i >= pool.it, pool.flows[i] = cur PROVE FALSE
        <5>1. i <= pool.it
          BY <2>2, <4>1 DEF Walk
        <5>2. i = pool.it
          BY <1>1, <4>1, <5>1
        <5> QED
          BY <2>4, <4>1, <5>2 DEF At
      <4> QED
        BY <4>1
    <3> QED
      BY <1>1, <2>1, <2>2, <3>1, <3>2 DEF Walks, Walk
  <2> QED
    BY <2>3, <2>4
\* A cleanup or a schedule by the wire that is ticked.
<1>8. ASSUME phase \in {"wire", "detach", "throw"}, cur' = cur,
             \/ \E t \in Wires : Stop(t) \/ Schedule(t) \/ ScheduleFails(t)
             \/ \E t \in Wires : \E s, c : Leave(t, s, c)
      PROVE  Walks'
  <2>1. cur \in warmedUp /\ Walk(pool, turn, cur, gone) /\ Lives
    BY <1>0, <1>8 DEF Walks, InVisit
  <2> QED
    BY <1>8, <2>1, StopWalks, LeaveWalks, ScheduleWalks DEF Walks
<1>9. CASE Loop
  <2>1. CASE TickEnd
    BY <2>1 DEF TickEnd, Walks, InVisit
  <2>2. CASE Detached
    <3>1. phase = "detach" /\ cur' = cur /\ target \in Wires
      BY <2>2 DEF Detached, Control
    <3>2. Schedule(target) \/ ScheduleFails(target)
      BY <2>2 DEF Detached
    <3> QED
      BY <1>8, <3>1, <3>2
  <2> QED
    BY <1>4, <1>5, <1>6, <1>7, <1>9, <2>1, <2>2 DEF Loop
<1>10. CASE Acts
  <2>1. ASSUME NEW t \in Wires, StopWire(t) \/ Detach(t)
        PROVE  Walks'
    BY <1>8, <2>1 DEF StopWire, Detach, ctlVars
  <2>2. ASSUME NEW t \in Wires, SuspendWire(t) \/ ResumeWire(t)
        PROVE  Walks'
    BY <1>2, <2>2 DEF SuspendWire, ResumeWire, ctlVars, InVisit
  <2>3. CASE ArmWhenDone
    BY <1>2, <2>3 DEF ArmWhenDone, ctlVars, meshVars, InVisit
  <2> QED
    BY <1>10, <2>1, <2>2, <2>3 DEF Acts
<1>11. CASE Leaves
  <2>1. ASSUME NEW w \in Wires, NEW s, NEW z, Yield(w, s, z)
        PROVE  Walks'
    BY <1>2, <2>1 DEF Yield, meshVars, InVisit
  <2>2. ASSUME NEW w \in Wires, Finish(w) \/ Fail(w)
        PROVE  Walks'
    BY <1>8, <2>2 DEF Finish, Fail
  <2> QED
    BY <1>11, <2>1, <2>2 DEF Leaves
<1>12. CASE Host \/ Clear \/ TickInterrupted \/ Raised
  <2>1. phase' \in {"idle", "clear", "exit"}
    BY <1>12 DEF Host, HostSchedule, HostComposeFails, HostRemove, HostTerminate, StartClear,
                 Clear, ClearStop, ClearEnd, TickInterrupted, Raised, ctlVars
  <2> QED
    BY <2>1 DEF Walks, InVisit
<1>13. CASE Interrupt \/ Exited \/ UNCHANGED vars
  BY <1>2, <1>13 DEF Interrupt, Exited, vars, meshVars, ctlVars, InVisit
<1> QED
  BY <1>3, <1>9, <1>10, <1>11, <1>12, <1>13 DEF Next, Tick

\* What the result of a tick stands for, before it is taken.
Reports ==
    /\ phase = "loop" => (noErrors <=> ~broke)
    /\ InVisit => IF phase = "ticked" /\ state[cur] = "Failed" THEN broke
                  ELSE noErrors <=> ~broke
    /\ phase = "ticked" => state[cur] # "Prepared"

LEMMA NextReports ==
    ASSUME IInv, IInv', Reports, [Next]_vars
    PROVE  Reports'
<1> USE DEF IInv
<1>0. /\ state \in [Wires -> WireStates] /\ Holds(pool) \subseteq warmedUp
      /\ noErrors \in BOOLEAN /\ broke \in BOOLEAN
      /\ \A w \in Wires : IsRunning(w) <=> w \in warmedUp
      /\ phase \in {"wire", "detach", "throw"} => cur \in warmedUp
      /\ InVisit => cur \in Wires
  BY DEF Lives, Control, OneRuns, Valid, InVisit
<1>1. CASE /\ UNCHANGED <<noErrors, broke>>
           /\ phase' = "loop" => phase = "loop"
           /\ InVisit' => InVisit /\ phase # "ticked" /\ phase' # "ticked"
  BY <1>1 DEF Reports, InVisit
<1>2. CASE UNCHANGED <<noErrors, broke, phase, cur, state>>
  BY <1>2 DEF Reports, InVisit
<1>3. CASE Loop
  <2>1. CASE Visit
    <3> DEFINE w == pool.flows[pool.it]
    <3>1. /\ phase = "loop" /\ noErrors' = noErrors /\ broke' = broke /\ cur' = w
          /\ phase' \in {"wire", "ticked"}
          /\ state' \in {state, [state EXCEPT ![w] = "Iterating"]}
          /\ pool.it # End(pool)
      BY <2>1 DEF Visit
    <3>2. pool.it \in DOMAIN pool.flows
      BY <3>1, SoundFacts DEF End, Lives
    <3>3. w \in Wires /\ w \in Holds(pool)
      BY <3>2, SoundFacts DEF Lives
    <3>4. IsRunning(w)
      BY <1>0, <3>3
    <3>5. state'[w] \in {"Starting", "Iterating", "IterationEnded"}
      BY <1>0, <3>1, <3>3, <3>4 DEF IsRunning
    <3> QED
      BY <3>1, <3>5 DEF Reports, InVisit
  <2>2. CASE StopEnded
    <3>1. /\ phase = "ticked" /\ phase' = "ticked" /\ cur' = cur /\ broke' = broke
          /\ state[cur] \in {"Failed", "Ended", "Prepared"}
          /\ noErrors' = (noErrors /\ state[cur] = "Ended") /\ cur \in Wires
      BY <1>0, <2>2 DEF StopEnded, IsRunning, WireStates, InVisit
    <3>2. state'[cur] = "Stopped"
      BY <2>2, <3>1, StopKeeps DEF StopEnded
    <3> QED
      BY <1>0, <3>1, <3>2 DEF Reports, InVisit
  <2>3. CASE Advance
    <3>1. /\ phase = "ticked" /\ phase' = "loop" /\ UNCHANGED <<noErrors, broke>>
          /\ state[cur] # "Failed"
      BY <2>3 DEF Advance, IsRunning
    <3> QED
      BY <3>1 DEF Reports, InVisit
  <2>4. CASE Skip \/ TickEnd
    BY <1>1, <2>4 DEF Skip, TickEnd, ctlVars, InVisit, Reports
  <2>5. CASE Detached
    BY <1>1, <2>5 DEF Detached, InVisit
  <2> QED
    BY <1>3, <2>1, <2>2, <2>3, <2>4, <2>5 DEF Loop
<1>4. CASE Acts
  BY <1>1, <1>4 DEF Acts, StopWire, SuspendWire, ResumeWire, Detach, ArmWhenDone, ctlVars, InVisit
<1>5. CASE Leaves
  <2>1. ASSUME NEW w \in Wires, NEW s \in {"Iterating", "IterationEnded"}, NEW z \in BOOLEAN, Yield(w, s, z)
        PROVE  Reports'
    <3>1. /\ phase = "wire" /\ phase' = "ticked" /\ cur' = cur /\ state'[cur] = s
          /\ UNCHANGED <<noErrors, broke>>
      BY <1>0, <2>1 DEF Yield
    <3> QED
      BY <3>1 DEF Reports, InVisit
  <2>2. ASSUME NEW w \in Wires, Finish(w) \/ Fail(w)
        PROVE  Reports'
    <3>1. phase \in {"wire", "throw"} /\ phase' = "ticked" /\ cur = w /\ cur' = cur /\ noErrors' = noErrors
      BY <2>2 DEF Finish, Fail
    <3>2. CASE Finish(w)
      <4>1. state'[cur] = "Ended" /\ broke' = broke
        BY <1>0, <3>1, <3>2, LeaveKeeps DEF Finish
      <4> QED
        BY <3>1, <4>1 DEF Reports, InVisit
    <3>3. CASE Fail(w)
      <4>1. state'[cur] = "Failed" /\ broke'
        BY <1>0, <3>1, <3>3, LeaveKeeps DEF Fail
      <4> QED
        BY <3>1, <4>1 DEF Reports, InVisit
    <3> QED
      BY <2>2, <3>2, <3>3
  <2> QED
    BY <1>5, <2>1, <2>2 DEF Leaves
<1>6. CASE Host \/ Clear \/ TickInterrupted \/ Raised
  <2>1. phase' \in {"idle", "clear", "exit"}
    BY <1>6 DEF Host, HostSchedule, HostComposeFails, HostRemove, HostTerminate, StartClear,
                 Clear, ClearStop, ClearEnd, TickInterrupted, Raised, ctlVars
  <2> QED
    BY <2>1 DEF Reports, InVisit
<1>7. ASSUME NEW due \in SUBSET asleep, TickBegin(due)
      PROVE  Reports'
  BY <1>7 DEF TickBegin, Reports, InVisit
<1>8. CASE Interrupt \/ Exited \/ UNCHANGED vars
  BY <1>2, <1>8 DEF Interrupt, Exited, vars, wireVars, ctlVars
<1> QED
  BY <1>3, <1>4, <1>5, <1>6, <1>7, <1>8 DEF Next, Tick

-----------------------------------------------------------------------------
\* The accounts of the tick are kept by every run of the mesh.
LEMMA TickInductive == Spec => []Walks /\ []Reports /\ []OnlyHeirsSurviveClear
<1>1. Init => Walks /\ Reports /\ OnlyHeirsSurviveClear
  BY DEF Init, Fresh, Walks, Reports, OnlyHeirsSurviveClear, InVisit
<1> QED
  BY <1>1, Inductive, NextWalks, NextReports, NextHeirs, PTL DEF Spec

\* One mesh tick never runs a flow twice, whatever wires are stopped, started
\* again and appended to the pool by the wires it ticks.
THEOREM NotTickedTwiceCorrect == Spec => []NotTickedTwice
<1>1. Walks => NotTickedTwice
  BY DEF Walks, Walk, NotTickedTwice
<1> QED
  BY <1>1, TickInductive, PTL

\* A flow is only jumped over in a tick if one visit of it takes two flows out.
THEOREM MissedCorrect == Spec => []MissedOnlyAfterTwoRemovals
<1>1. Walks => MissedOnlyAfterTwoRemovals
  BY DEF Walks, Walk, MissedOnlyAfterTwoRemovals
<1> QED
  BY <1>1, TickInductive, PTL

\* SHMesh::tick returns false exactly when a wire failed while it was ticked,
\* although the result is only taken when the wire is stopped afterwards.
THEOREM ReportsCorrect == Spec => []TickReportsFailures
<1>1. Reports => TickReportsFailures
  BY DEF Reports, TickReportsFailures
<1> QED
  BY <1>1, TickInductive, PTL

\* SHMesh::clear leaves nothing in the pool but what a WhenDone of a wire it
\* stopped scheduled meanwhile.
THEOREM OnlyHeirsCorrect == Spec => []OnlyHeirsSurviveClear
BY TickInductive, PTL
=============================================================================
