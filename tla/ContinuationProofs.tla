--------------------------- MODULE ContinuationProofs ---------------------------
(***************************************************************************)
(* What is proved of Continuation, for any wires, flows and owners: the    *)
(* types, that a resumer waits (ResumersWait), that the flows of the pool  *)
(* drive live wires (FlowsDriveLiveWires), and whom a wire may lose its    *)
(* parent to (ParentIsKept).                                               *)
(*                                                                         *)
(* The first three stand on one another, so the inductive invariant Inv    *)
(* has them all: a wire that ends gives its flow to its resumer, which has *)
(* to be alive and in that flow (Resumers); and the flow that leaves the   *)
(* pool when it is cleaned up is its own because a flow that drives a wire *)
(* of another one is mixed (Crosses).                                      *)
(***************************************************************************)
EXTENDS Continuation, FiniteSetTheorems, TLAPS

-----------------------------------------------------------------------------
(***************************************************************************)
(* The inductive invariant.                                                *)
(***************************************************************************)
Over(w) == at[w] \in {"off", "stop", "end"}

\* The wire the mesh has resumed runs, or is being cleaned up, and no other runs.
Running ==
    /\ \A w \in Wires : at[w] = "run" => cur = w
    /\ cur # NoWire => at[cur] \in {"run", "end"}

\* A wire that is alive has a flow.
InFlow == \A w \in Wires : Alive(w) => flow[w] \in Flows

\* A SwitchTo or Wait is about another wire.
About == \A w \in Wires : to[w] # w /\ (at[w] = "switch" => to[w] # NoWire)

\* Two wires are in one flow, or both flows have been mixed.
Shares(v, w) == flow[v] = flow[w] \/ {flow[v], flow[w]} \subseteq mixed

\* A resumer waits for a wire that is not over, in the flow it will be given.
Resumers ==
    \A v \in Wires : resumer[v] # NoWire =>
        /\ at[resumer[v]] = "switch" /\ to[resumer[v]] = v
        /\ ~Over(v) /\ Shares(resumer[v], v)

Driven == \A f \in ToSet(pool) : drives[f] \in Wires
Lives == \A f \in ToSet(pool) : f \notin mixed => Alive(drives[f]) /\ flow[drives[f]] = f

\* A flow that drives a wire of another one is mixed, and so is that one.
Crosses ==
    \A f \in ToSet(pool) :
        flow[drives[f]] \notin {f, NoFlow} => {f, flow[drives[f]]} \subseteq mixed

Inv == /\ TypeOK /\ Running /\ InFlow /\ About
       /\ Resumers /\ Driven /\ Lives /\ Crosses

-----------------------------------------------------------------------------
(***************************************************************************)
(* The pool as a sequence: what it has, and what is left without one flow. *)
(***************************************************************************)
\* The least index of a set of them is one of them.
LEMMA MinIsThere ==
    ASSUME NEW S \in SUBSET Nat, S # {}
    PROVE  Min(S) \in S
<1>1. IsWellFoundedOn(OpToRel(<, Nat), Nat)
  BY NatLessThanWellFounded
<1>2. PICK x \in S : \A y \in S : ~ (<<y, x>> \in OpToRel(<, Nat))
  BY <1>1, WFMin
<1>3. \A y \in S : ~(y < x)
  BY <1>2 DEF OpToRel
<1>4. \A y \in S : x <= y
  BY <1>3
<1> QED
  BY <1>4 DEF Min

\* A sequence without the element at i.
LEMMA RemoveAtFacts ==
    ASSUME NEW S, NEW p \in Seq(S), IsInjective(p), NEW i \in DOMAIN p
    PROVE  /\ RemoveAt(p, i) \in Seq(S) /\ IsInjective(RemoveAt(p, i))
           /\ ToSet(RemoveAt(p, i)) = ToSet(p) \ {p[i]}
<1> DEFINE n == Len(p)
           q == RemoveAt(p, i)
<1>1. n \in Nat /\ DOMAIN p = 1 .. n /\ i \in 1 .. n
  OBVIOUS
<1>2. /\ q \in Seq(S) /\ DOMAIN q = 1 .. (n - 1)
      /\ \A j \in 1 .. (n - 1) : q[j] = IF j < i THEN p[j] ELSE p[j + 1]
  <2> DEFINE a == SubSeq(p, 1, i - 1)
             b == SubSeq(p, i + 1, n)
  <2>1. a \in Seq(S) /\ Len(a) = i - 1 /\ \A j \in 1 .. (i - 1) : a[j] = p[j]
    BY <1>1
  <2>2. b \in Seq(S) /\ Len(b) = n - i /\ \A j \in 1 .. (n - i) : b[j] = p[i + j]
    BY <1>1
  <2> HIDE DEF a, b, n
  <2>3. a \o b \in Seq(S) /\ Len(a \o b) = n - 1
    <3>1. a \o b \in Seq(S) /\ Len(a \o b) = Len(a) + Len(b)
      <4>1. \A u, v \in Seq(S) : u \o v \in Seq(S) /\ Len(u \o v) = Len(u) + Len(v)
        OBVIOUS
      <4> QED
        BY <2>1, <2>2, <4>1, Zenon
    <3>2. Len(a) + Len(b) = n - 1
      BY <1>1, <2>1, <2>2
    <3> QED
      BY <3>1, <3>2
  <2>4. ASSUME NEW j \in 1 .. (n - 1) PROVE (a \o b)[j] = IF j < i THEN p[j] ELSE p[j + 1]
    <3>1. CASE j < i
      BY <1>1, <2>1, <2>2, <3>1
    <3>2. CASE ~(j < i)
      <4>1. (a \o b)[j] = b[j - (i - 1)]
        BY <1>1, <2>1, <2>2, <3>2
      <4>2. j - (i - 1) \in 1 .. (n - i) /\ i + (j - (i - 1)) = j + 1
        BY <1>1, <3>2
      <4> QED
        BY <2>2, <3>2, <4>1, <4>2
    <3> QED
      BY <3>1, <3>2
  <2>5. q = a \o b
    BY DEF RemoveAt, a, b, n
  <2> HIDE DEF q
  <2> QED
    BY <1>1, <2>3, <2>4, <2>5
<1> HIDE DEF q, n
<1>3. \A j, k \in 1 .. n : p[j] = p[k] => j = k
  BY <1>1 DEF IsInjective
<1>4. IsInjective(q)
  <2> SUFFICES ASSUME NEW j \in 1 .. (n - 1), NEW k \in 1 .. (n - 1), q[j] = q[k] PROVE j = k
    BY <1>2 DEF IsInjective
  <2>1. j \in 1 .. n /\ j + 1 \in 1 .. n /\ k \in 1 .. n /\ k + 1 \in 1 .. n
    BY <1>1
  <2>2. CASE j < i /\ k < i
    BY <1>2, <1>3, <2>1, <2>2
  <2>3. CASE j < i /\ ~(k < i)
    BY <1>1, <1>2, <1>3, <2>1, <2>3
  <2>4. CASE ~(j < i) /\ k < i
    BY <1>1, <1>2, <1>3, <2>1, <2>4
  <2>5. CASE ~(j < i) /\ ~(k < i)
    <3>1. j + 1 = k + 1
      BY <1>2, <1>3, <2>1, <2>5
    <3> QED
      BY <1>1, <3>1
  <2> QED
    BY <2>2, <2>3, <2>4, <2>5
<1>5. ToSet(q) \subseteq ToSet(p) \ {p[i]}
  <2> SUFFICES ASSUME NEW j \in 1 .. (n - 1) PROVE q[j] \in ToSet(p) \ {p[i]}
    BY <1>2 DEF ToSet
  <2>1. PICK k \in 1 .. n : q[j] = p[k] /\ k # i
    <3>1. CASE j < i
      BY <1>1, <1>2, <3>1
    <3>2. CASE ~(j < i)
      <4>1. j + 1 \in 1 .. n /\ j + 1 # i
        BY <1>1, <3>2
      <4> QED
        BY <1>2, <3>2, <4>1
    <3> QED
      BY <3>1, <3>2
  <2> QED
    BY <1>1, <1>3, <2>1 DEF ToSet
<1>6. ToSet(p) \ {p[i]} \subseteq ToSet(q)
  <2> SUFFICES ASSUME NEW k \in 1 .. n, k # i PROVE p[k] \in ToSet(q)
    BY <1>1 DEF ToSet
  <2>1. CASE k < i
    <3>1. k \in 1 .. (n - 1)
      BY <1>1, <2>1
    <3>2. q[k] = p[k]
      BY <1>2, <2>1, <3>1
    <3> QED
      BY <1>2, <3>1, <3>2 DEF ToSet
  <2>2. CASE k > i
    <3>1. k - 1 \in 1 .. (n - 1) /\ ~(k - 1 < i) /\ (k - 1) + 1 = k
      BY <1>1, <2>2
    <3>2. q[k - 1] = p[k]
      BY <1>2, <3>1
    <3> QED
      BY <1>2, <3>1, <3>2 DEF ToSet
  <2> QED
    BY <1>1, <2>1, <2>2
<1> QED
  BY <1>2, <1>4, <1>5, <1>6 DEF q

\* A sequence with one more element.
LEMMA AppendFacts ==
    ASSUME NEW S, NEW p \in Seq(S), IsInjective(p), NEW e \in S, e \notin ToSet(p)
    PROVE  /\ Append(p, e) \in Seq(S) /\ IsInjective(Append(p, e))
           /\ ToSet(Append(p, e)) = ToSet(p) \cup {e}
<1>1. /\ DOMAIN Append(p, e) = DOMAIN p \cup {Len(p) + 1} /\ Append(p, e) \in Seq(S)
      /\ \A i \in DOMAIN p : Append(p, e)[i] = p[i]
      /\ Append(p, e)[Len(p) + 1] = e /\ Len(p) + 1 \notin DOMAIN p
  OBVIOUS
<1>2. IsInjective(Append(p, e))
  BY <1>1 DEF IsInjective, ToSet
<1>3. ToSet(Append(p, e)) = ToSet(p) \cup {e}
  BY <1>1 DEF ToSet
<1> QED
  BY <1>1, <1>2, <1>3

\* The flow that leaves the pool when w is cleaned up.
Leaves(w) ==
    \/ /\ \A f \in ToSet(pool) : drives[f] # w
       /\ pool' = pool /\ drives' = drives
    \/ \E f \in ToSet(pool) :
          /\ drives[f] = w /\ ToSet(pool') = ToSet(pool) \ {f}
          /\ pool' \in Seq(Flows) /\ IsInjective(pool')
          /\ drives' = [drives EXCEPT ![f] = NoWire]

LEMMA WireCleanedUpFacts ==
    ASSUME TypeOK, NEW w \in Wires, WireCleanedUp(w)
    PROVE  Leaves(w)
<1> DEFINE I == {j \in 1 .. Len(pool) : drives[pool[j]] = w}
           i == Place(w)
<1>1. pool \in Seq(Flows) /\ IsInjective(pool) /\ drives \in [Flows -> Wires \cup {NoWire}]
  BY DEF TypeOK
<1>2. i = IF I # {} THEN Min(I) ELSE 0
  BY DEF Place, SelectInSeq
<1>3. I \in SUBSET Nat
  OBVIOUS
<1>4. /\ pool' = IF i = 0 THEN pool ELSE RemoveAt(pool, i)
      /\ drives' = IF i = 0 THEN drives ELSE [drives EXCEPT ![pool[i]] = NoWire]
  BY DEF WireCleanedUp
<1> HIDE DEF i
<1>5. CASE I = {}
  <2>1. \A f \in ToSet(pool) : drives[f] # w
    BY <1>1, <1>5 DEF ToSet
  <2> QED
    BY <1>2, <1>4, <1>5, <2>1 DEF Leaves
<1>6. CASE I # {}
  <2>1. Min(I) \in I
    BY <1>3, <1>6, MinIsThere
  <2>2. i \in I
    BY <1>2, <1>6, <2>1
  <2>3. i # 0 /\ i \in DOMAIN pool /\ drives[pool[i]] = w
    BY <1>1, <2>2
  <2>4. pool[i] \in ToSet(pool)
    BY <1>1, <2>3 DEF ToSet
  <2>5. /\ RemoveAt(pool, i) \in Seq(Flows) /\ IsInjective(RemoveAt(pool, i))
        /\ ToSet(RemoveAt(pool, i)) = ToSet(pool) \ {pool[i]}
    BY <1>1, <2>3, RemoveAtFacts
  <2>6. pool' = RemoveAt(pool, i) /\ drives' = [drives EXCEPT ![pool[i]] = NoWire]
    BY <1>4, <2>3
  <2>7. \E f \in ToSet(pool) :
          /\ drives[f] = w /\ ToSet(pool') = ToSet(pool) \ {f}
          /\ pool' \in Seq(Flows) /\ IsInjective(pool')
          /\ drives' = [drives EXCEPT ![f] = NoWire]
    BY <2>3, <2>4, <2>5, <2>6, Zenon
  <2> QED
    BY <2>7 DEF Leaves
<1> QED
  BY <1>5, <1>6

\* What is left of a stack without the last one.
LEMMA FrontFacts ==
    ASSUME NEW S, NEW s \in Seq(S), s # <<>>, IsInjective(s)
    PROVE  /\ Last(s) \in ToSet(s) /\ Last(s) \in S
           /\ Front(s) \in Seq(S) /\ IsInjective(Front(s))
           /\ ToSet(Front(s)) = ToSet(s) \ {Last(s)}
<1> DEFINE n == Len(s)
<1>1. n \in Nat \ {0} /\ DOMAIN s = 1 .. n /\ \A i \in 1 .. n : s[i] \in S
  OBVIOUS
<1>2. Last(s) = s[n]
  BY DEF Last
<1>3. /\ Front(s) \in Seq(S) /\ DOMAIN Front(s) = 1 .. (n - 1)
      /\ \A i \in 1 .. (n - 1) : Front(s)[i] = s[i]
  BY <1>1 DEF Front
<1>4. \A i, j \in 1 .. n : s[i] = s[j] => i = j
  BY <1>1 DEF IsInjective
<1> HIDE DEF n
<1>5. IsInjective(Front(s))
  BY <1>1, <1>3, <1>4 DEF IsInjective
<1>6. ToSet(s) = {s[i] : i \in 1 .. n} /\ ToSet(Front(s)) = {Front(s)[i] : i \in 1 .. (n - 1)}
  BY <1>1, <1>3 DEF ToSet
<1>7. ToSet(Front(s)) = ToSet(s) \ {s[n]}
  BY <1>1, <1>3, <1>4, <1>6
<1>8. s[n] \in ToSet(s) /\ s[n] \in S
  BY <1>1, <1>6
<1> QED
  BY <1>2, <1>3, <1>5, <1>7, <1>8

-----------------------------------------------------------------------------
(***************************************************************************)
(* What the history of mixed flows keeps.                                  *)
(***************************************************************************)
Kept ==
    /\ mixed' \subseteq Flows
    /\ \A f \in mixed : f \in ToSet(pool') \/ (\E w \in Wires : flow'[w] = f) => f \in mixed'
    /\ Crosses'

LEMMA Remembering ==
    ASSUME mixed \subseteq Flows, ToSet(pool') \subseteq Flows,
           flow' \in [Wires -> Flows \cup {NoFlow}],
           \A f \in ToSet(pool') : drives'[f] \in Wires,
           Remembers
    PROVE  Kept
<1> DEFINE B == {g \in ToSet(pool') : flow'[drives'[g]] \notin {g, NoFlow}}
           C == UNION {{f, flow'[drives'[f]]} : f \in B}
           A == mixed \cap (ToSet(pool') \cup {flow'[w] : w \in Wires})
<1>1. mixed' = A \cup C
  BY DEF Remembers, Crossed
<1>2. \A f \in B : f \in Flows /\ flow'[drives'[f]] \in Flows
  OBVIOUS
<1>3. \A f \in B : {f, flow'[drives'[f]]} \subseteq C
  OBVIOUS
<1>4. C \subseteq Flows
  BY <1>2
<1>5. \A f \in mixed : f \in ToSet(pool') \/ (\E w \in Wires : flow'[w] = f) => f \in A
  OBVIOUS
<1> HIDE DEF C, A
<1>6. Crosses'
  BY <1>1, <1>3 DEF Crosses
<1> QED
  BY <1>1, <1>4, <1>5, <1>6 DEF Kept, A
-----------------------------------------------------------------------------
(***************************************************************************)
(* Each action.                                                            *)
(***************************************************************************)
\* Where the wire that runs says what its SwitchTo is about.
Aims == \/ to' = to
        \/ /\ cur \in Wires /\ at[cur] = "run"
           /\ \E p \in Wires \cup {NoWire} : p # cur /\ to' = [to EXCEPT ![cur] = p]

LEMMA AimFacts ==
    ASSUME Inv, Aims
    PROVE  /\ to' \in [Wires -> Wires \cup {NoWire}]
           /\ \A w \in Wires : at[w] = "switch" => to'[w] = to[w]
           /\ \A w \in Wires : to'[w] # w
BY DEF Inv, TypeOK, Aims, About

LEMMA StillKeeps ==
    ASSUME Inv, UNCHANGED <<at, flow, linkVars, cur, ending>>, undefined' \in BOOLEAN,
           Aims, failed' \subseteq Wires, cancelled' \subseteq Wires, Remembers
    PROVE  Inv'
<1>1. /\ at' = at /\ flow' = flow /\ resumer' = resumer /\ pool' = pool /\ drives' = drives
      /\ cur' = cur /\ ending' = ending
  BY DEF linkVars
<1>2. TypeOK /\ Running /\ InFlow /\ About /\ Resumers /\ Driven /\ Lives /\ Crosses
  BY DEF Inv
<1>3. Kept
  BY <1>1, <1>2, Remembering DEF TypeOK, Driven, ToSet
<1>4. TypeOK'
  BY <1>1, <1>2, <1>3, AimFacts DEF TypeOK, Alive, Kept
<1>5. Running' /\ InFlow' /\ Driven'
  BY <1>1, <1>2 DEF Running, InFlow, Driven, Alive
<1>6. About'
  BY <1>1, <1>2, AimFacts DEF About
<1>7. Resumers'
  BY <1>1, <1>2, <1>3, AimFacts DEF Resumers, Over, Shares, TypeOK, Kept
<1>8. Lives'
  BY <1>1, <1>2, <1>3 DEF Lives, Alive, Kept
<1> QED
  BY <1>3, <1>4, <1>5, <1>6, <1>7, <1>8 DEF Inv, Kept

LEMMA WrongKeeps ==
    ASSUME Inv, GoesWrong, Aims, failed' \subseteq Wires, cancelled' \subseteq Wires, Remembers
    PROVE  Inv'
BY StillKeeps DEF GoesWrong

\* A wire that is resumed is the resumer of none any more.
LEMMA SwitchedFacts ==
    ASSUME Inv, NEW w \in Wires
    PROVE  /\ Switched(w) \in [Wires -> Wires \cup {NoWire}]
           /\ \A v \in Wires : Switched(w)[v] \in {resumer[v], NoWire} \ {w}
<1>1. resumer \in [Wires -> Wires \cup {NoWire}] /\ to \in [Wires -> Wires \cup {NoWire}]
  BY DEF Inv, TypeOK
<1>2. \A v \in Wires : resumer[v] = w => at[w] = "switch" /\ to[w] = v
  BY ContinuationAssumption DEF Inv, Resumers
<1>3. at[w] = "switch" => to[w] \in Wires
  BY <1>1 DEF Inv, About
<1>4. w # NoWire
  BY ContinuationAssumption
<1>5. CASE at[w] = "switch"
  <2>1. Switched(w) = [resumer EXCEPT ![to[w]] = NoWire]
    BY <1>5 DEF Switched
  <2> QED
    BY <1>1, <1>2, <1>3, <1>4, <1>5, <2>1
<1>6. CASE at[w] # "switch"
  BY <1>1, <1>2, <1>4, <1>6 DEF Switched
<1> QED
  BY <1>5, <1>6

LEMMA BeginEndKeeps ==
    ASSUME Inv, NEW w \in Wires, ~Over(w), NEW how \in {"stop", "end"},
           at[w] = "run" => how = "end" /\ to' = to,
           BeginEnd(w, how), Aims, failed' \subseteq Wires, cancelled' \subseteq Wires, Remembers
    PROVE  Inv'
<1> DEFINE r == Switched(w)
           heir == r[w]
<1>1. TypeOK /\ Running /\ InFlow /\ About /\ Resumers /\ Driven /\ Lives /\ Crosses
  BY DEF Inv
<1>2. r \in [Wires -> Wires \cup {NoWire}] /\ \A v \in Wires : r[v] \in {resumer[v], NoWire} \ {w}
  BY SwitchedFacts
<1>3. CASE heir # NoWire /\ ~Pooled(flow[w])
  <2>1. GoesWrong
    BY <1>3 DEF BeginEnd
  <2> QED
    BY <2>1, WrongKeeps
<1>4. CASE ~(heir # NoWire /\ ~Pooled(flow[w]))
  <2>1. /\ drives' = IF heir # NoWire THEN [drives EXCEPT ![flow[w]] = heir] ELSE drives
        /\ resumer' = [r EXCEPT ![w] = NoWire]
        /\ at' = [at EXCEPT ![w] = how]
        /\ ending' = Append(ending, w)
        /\ flow' = flow /\ pool' = pool /\ cur' = cur /\ undefined' = undefined
    BY <1>4 DEF BeginEnd
  <2> HIDE DEF r
  <2>2. /\ at \in [Wires -> Points] /\ flow \in [Wires -> Flows \cup {NoFlow}]
        /\ drives \in [Flows -> Wires \cup {NoWire}] /\ ToSet(pool) \subseteq Flows
        /\ resumer \in [Wires -> Wires \cup {NoWire}]
    BY <1>1 DEF TypeOK, ToSet
  <2>3. flow[w] \in Flows /\ Alive(w) /\ heir \in Wires \cup {NoWire}
    BY <1>1, <1>2 DEF InFlow, Over, Alive
  <2>4. /\ drives' \in [Flows -> Wires \cup {NoWire}]
        /\ \A f \in ToSet(pool) : drives'[f] = IF heir # NoWire /\ f = flow[w] THEN heir ELSE drives[f]
    BY <2>1, <2>2, <2>3
  <2>5. Driven'
    BY <1>1, <2>1, <2>3, <2>4 DEF Driven
  <2>6. Kept
    BY <1>1, <2>1, <2>2, <2>5, Remembering DEF TypeOK, Driven
  <2>7. /\ resumer' \in [Wires -> Wires \cup {NoWire}]
        /\ \A v \in Wires : resumer'[v] # NoWire => v # w /\ resumer'[v] = resumer[v] /\ resumer[v] # w
    BY <1>2, <2>1
  <2>8. /\ at' \in [Wires -> Points]
        /\ \A v \in Wires : at'[v] = IF v = w THEN how ELSE at[v]
    BY <2>1, <2>2 DEF Points
  <2>9. TypeOK'
    <3>1. w \notin ToSet(ending) /\ ending \in Seq(Wires) /\ IsInjective(ending)
      BY <1>1 DEF TypeOK, Over
    <3>2. /\ ending' \in Seq(Wires) /\ IsInjective(ending')
          /\ ToSet(ending') = ToSet(ending) \cup {w}
      BY <2>1, <3>1, AppendFacts
    <3>3. ToSet(ending') = {v \in Wires : at'[v] \in {"stop", "end"}}
      BY <1>1, <2>8, <3>2 DEF TypeOK
    <3>4. \A v \in Wires : at'[v] = "off" => flow'[v] = NoFlow /\ resumer'[v] = NoWire
      BY <1>1, <2>1, <2>7, <2>8 DEF TypeOK, Alive
    <3> QED
      BY <1>1, <2>1, <2>4, <2>6, <2>7, <2>8, <3>2, <3>3, <3>4, AimFacts DEF TypeOK, Alive, Kept
  <2>10. Running'
    <3>1. at[w] = "run" => how = "end"
      OBVIOUS
    <3>2. cur # NoWire => cur \in Wires /\ at[cur] \in {"run", "end"}
      BY <1>1 DEF Running, TypeOK
    <3>3. ~(at[w] \in {"stop", "end"}) /\ how \in {"stop", "end"}
      BY DEF Over
    <3>4. \A v \in Wires : at'[v] = "run" => cur = v
      BY <1>1, <2>8, <3>3 DEF Running
    <3>5. cur # NoWire => at'[cur] \in {"run", "end"}
      BY <2>8, <3>1, <3>2, <3>3
    <3> QED
      BY <2>1, <3>4, <3>5 DEF Running
  <2>11. InFlow'
    BY <1>1, <2>1, <2>3, <2>8 DEF InFlow, Alive
  <2>12. About'
    BY <1>1, <2>8, AimFacts DEF About
  <2>13. Resumers'
    <3>1. ASSUME NEW v \in Wires, resumer'[v] # NoWire
          PROVE  /\ at'[resumer'[v]] = "switch" /\ to'[resumer'[v]] = v
                 /\ at'[v] \notin {"off", "stop", "end"}
                 /\ \/ flow'[resumer'[v]] = flow'[v]
                    \/ {flow'[resumer'[v]], flow'[v]} \subseteq mixed'
      <4>1. v # w /\ resumer'[v] = resumer[v] /\ resumer[v] # w /\ resumer[v] \in Wires
        BY <2>2, <2>7, <3>1
      <4> DEFINE g == resumer[v]
      <4>2. at[g] = "switch" /\ to[g] = v /\ at[v] \notin {"off", "stop", "end"} /\ Shares(g, v)
        BY <1>1, <3>1, <4>1 DEF Resumers, Over
      <4>3. at'[g] = "switch" /\ to'[g] = v /\ at'[v] = at[v]
        BY <2>8, <4>1, <4>2, AimFacts
      <4>4. flow'[g] = flow'[v] \/ {flow'[g], flow'[v]} \subseteq mixed'
        BY <2>1, <2>6, <4>1, <4>2 DEF Shares, Kept
      <4> QED
        BY <4>1, <4>2, <4>3, <4>4
    <3> QED
      BY <3>1 DEF Resumers, Over, Shares
  <2>14. Lives'
    <3> SUFFICES ASSUME NEW f \in ToSet(pool), f \notin mixed'
                 PROVE  at'[drives'[f]] # "off" /\ flow[drives'[f]] = f
      BY <2>1 DEF Lives, Alive
    <3>1. f \notin mixed
      BY <2>1, <2>6 DEF Kept
    <3>2. CASE heir # NoWire /\ f = flow[w]
      <4>1. heir = resumer[w] /\ heir \in Wires /\ heir # w /\ drives'[f] = heir
        BY <1>2, <2>3, <2>4, <3>2
      <4>2. at[heir] = "switch" /\ Shares(heir, w)
        BY <1>1, <3>2, <4>1 DEF Resumers
      <4>3. flow[heir] = flow[w]
        BY <3>1, <3>2, <4>2 DEF Shares
      <4> QED
        BY <2>8, <3>2, <4>1, <4>2, <4>3
    <3>3. CASE ~(heir # NoWire /\ f = flow[w])
      <4>1. drives'[f] = drives[f] /\ drives[f] \in Wires /\ Alive(drives[f]) /\ flow[drives[f]] = f
        BY <1>1, <2>4, <3>1, <3>3 DEF Lives, Driven
      <4> QED
        BY <2>8, <4>1 DEF Alive
    <3> QED
      BY <3>2, <3>3
  <2> QED
    BY <2>5, <2>6, <2>9, <2>10, <2>11, <2>12, <2>13, <2>14 DEF Inv, Kept
<1> QED
  BY <1>3, <1>4

LEMMA StopKeeps ==
    ASSUME Inv, NEW p \in Wires, at[p] \notin {"off", "stop"}, Stop(p), Aims, Remembers
    PROVE  Inv'
<1>1. failed' \subseteq Wires /\ cancelled' \subseteq Wires
  BY DEF Inv, TypeOK, Stop
<1>2. CASE p = cur \/ at[p] = "end"
  BY <1>1, <1>2, WrongKeeps DEF Stop
<1>3. CASE ~(p = cur \/ at[p] = "end")
  <2>1. BeginEnd(p, "stop") /\ ~Over(p) /\ at[p] # "run"
    BY <1>3 DEF Stop, Over, Inv, Running
  <2> QED
    BY <1>1, <2>1, BeginEndKeeps
<1> QED
  BY <1>2, <1>3

\* What a step keeps of the resumers and flows of the wires it leaves alone.
LEMMA ResumersStay ==
    ASSUME Inv, Kept, NEW v \in Wires, resumer[v] # NoWire, resumer'[v] = resumer[v],
           at'[v] \notin {"off", "stop", "end"},
           at'[resumer[v]] = "switch", to'[resumer[v]] = to[resumer[v]],
           flow'[v] = flow[v], flow'[resumer[v]] = flow[resumer[v]]
    PROVE  /\ at'[resumer'[v]] = "switch" /\ to'[resumer'[v]] = v
           /\ at'[v] \notin {"off", "stop", "end"}
           /\ \/ flow'[resumer'[v]] = flow'[v]
              \/ {flow'[resumer'[v]], flow'[v]} \subseteq mixed'
<1> DEFINE g == resumer[v]
<1>1. g \in Wires
  BY DEF Inv, TypeOK
<1>2. to[g] = v /\ (flow[g] = flow[v] \/ {flow[g], flow[v]} \subseteq mixed)
  BY DEF Inv, Resumers, Shares
<1>3. flow'[g] = flow'[v] \/ {flow'[g], flow'[v]} \subseteq mixed'
  BY <1>1, <1>2 DEF Kept
<1> QED
  BY <1>2, <1>3

LEMMA CleanedUpKeeps ==
    ASSUME Inv, CleanedUp, Remembers
    PROVE  Inv'
<1> DEFINE w == Last(ending)
<1>1. TypeOK /\ Running /\ InFlow /\ About /\ Resumers /\ Driven /\ Lives /\ Crosses
  BY DEF Inv
<1>2. /\ ending # <<>> /\ WireCleanedUp(w)
      /\ at' = [at EXCEPT ![w] = "off"] /\ to' = [to EXCEPT ![w] = NoWire]
      /\ flow' = [flow EXCEPT ![w] = NoFlow] /\ cancelled' = cancelled \ {w}
      /\ cur' = IF cur = w THEN NoWire ELSE cur
      /\ ending' = Front(ending)
      /\ failed' = failed /\ resumer' = resumer /\ undefined' = undefined
  BY DEF CleanedUp
<1>3. /\ at \in [Wires -> Points] /\ flow \in [Wires -> Flows \cup {NoFlow}]
      /\ to \in [Wires -> Wires \cup {NoWire}]
      /\ resumer \in [Wires -> Wires \cup {NoWire}]
      /\ drives \in [Flows -> Wires \cup {NoWire}] /\ ToSet(pool) \subseteq Flows
      /\ ending \in Seq(Wires) /\ IsInjective(ending)
      /\ ToSet(ending) = {v \in Wires : at[v] \in {"stop", "end"}}
  BY <1>1 DEF TypeOK, ToSet
<1>4. /\ w \in ToSet(ending) /\ w \in Wires
      /\ ending' \in Seq(Wires) /\ IsInjective(ending') /\ ToSet(ending') = ToSet(ending) \ {w}
  BY <1>2, <1>3, FrontFacts
<1>5. at[w] \in {"stop", "end"} /\ NoWire \notin Wires
  BY <1>3, <1>4, ContinuationAssumption
<1> HIDE DEF w
<1>6. Leaves(w)
  BY <1>1, <1>2, <1>4, WireCleanedUpFacts
<1>7. resumer[w] = NoWire /\ \A v \in Wires : resumer[v] # w
  BY <1>1, <1>4, <1>5 DEF Resumers, Over
<1>8. /\ \A v \in Wires : at'[v] = IF v = w THEN "off" ELSE at[v]
      /\ \A v \in Wires : flow'[v] = IF v = w THEN NoFlow ELSE flow[v]
      /\ \A v \in Wires : v # w => to'[v] = to[v]
      /\ at' \in [Wires -> Points] /\ flow' \in [Wires -> Flows \cup {NoFlow}]
      /\ to' \in [Wires -> Wires \cup {NoWire}]
  BY <1>2, <1>3 DEF Points
<1>9. /\ ToSet(pool') \subseteq ToSet(pool) /\ pool' \in Seq(Flows) /\ IsInjective(pool')
      /\ drives' \in [Flows -> Wires \cup {NoWire}]
      /\ \A f \in ToSet(pool') : drives'[f] = drives[f]
  BY <1>1, <1>3, <1>6 DEF Leaves, TypeOK
<1>10. \A f \in ToSet(pool') : drives[f] = w => \E e \in ToSet(pool) : e # f /\ drives[e] = w
  BY <1>6 DEF Leaves
<1>11. Driven'
  BY <1>1, <1>9 DEF Driven
<1>12. Kept
  BY <1>1, <1>3, <1>8, <1>9, <1>11, Remembering DEF TypeOK, Driven
<1>13. TypeOK'
  <2>1. ToSet(ending') = {v \in Wires : at'[v] \in {"stop", "end"}}
    BY <1>3, <1>4, <1>8
  <2>2. \A v \in Wires : at'[v] = "off" => flow'[v] = NoFlow /\ resumer'[v] = NoWire
    BY <1>1, <1>2, <1>7, <1>8 DEF TypeOK, Alive
  <2> QED
    BY <1>1, <1>2, <1>4, <1>8, <1>9, <1>12, <2>1, <2>2 DEF TypeOK, Alive, Kept
<1>14. Running'
  BY <1>1, <1>2, <1>8 DEF Running, TypeOK
<1>15. InFlow' /\ About'
  BY <1>1, <1>2, <1>3, <1>4, <1>5, <1>8 DEF InFlow, About, Alive
<1>16. Resumers'
  <2>1. ASSUME NEW v \in Wires, resumer'[v] # NoWire
        PROVE  /\ at'[resumer'[v]] = "switch" /\ to'[resumer'[v]] = v
               /\ at'[v] \notin {"off", "stop", "end"}
               /\ \/ flow'[resumer'[v]] = flow'[v]
                  \/ {flow'[resumer'[v]], flow'[v]} \subseteq mixed'
    <3>1. resumer[v] # NoWire /\ v # w /\ resumer[v] # w /\ resumer[v] \in Wires
      BY <1>2, <1>3, <1>7, <2>1
    <3>2. at[resumer[v]] = "switch" /\ at[v] \notin {"off", "stop", "end"}
      BY <1>1, <3>1 DEF Resumers, Over
    <3> QED
      BY <1>2, <1>8, <1>12, <3>1, <3>2, ResumersStay
  <2> QED
    BY <2>1 DEF Resumers, Over, Shares
<1>17. Lives'
  <2> SUFFICES ASSUME NEW f \in ToSet(pool'), f \notin mixed'
               PROVE  at'[drives'[f]] # "off" /\ flow'[drives'[f]] = f
    BY DEF Lives, Alive
  <2>1. f \in ToSet(pool) /\ f \notin mixed /\ drives'[f] = drives[f]
    BY <1>9, <1>12 DEF Kept
  <2>2. drives[f] \in Wires /\ at[drives[f]] # "off" /\ flow[drives[f]] = f
    BY <1>1, <2>1 DEF Lives, Driven, Alive
  <2>3. drives[f] # w
    <3> SUFFICES ASSUME drives[f] = w PROVE FALSE
      OBVIOUS
    <3>1. PICK e \in ToSet(pool) : e # f /\ drives[e] = w
      BY <1>10
    <3>2. flow[drives[e]] = f /\ f # NoFlow
      BY <1>3, <2>1, <2>2, <3>1, ContinuationAssumption
    <3>3. f \in mixed
      BY <1>1, <3>1, <3>2 DEF Crosses
    <3> QED
      BY <2>1, <3>3
  <2> QED
    BY <1>8, <2>1, <2>2, <2>3
<1> QED
  BY <1>11, <1>12, <1>13, <1>14, <1>15, <1>16, <1>17 DEF Inv, Kept

LEMMA ScheduleKeeps ==
    ASSUME Inv, NEW w \in Wires, Schedule(w), Remembers
    PROVE  Inv'
<1>1. TypeOK /\ Running /\ InFlow /\ About /\ Resumers /\ Driven /\ Lives /\ Crosses
  BY DEF Inv
<1>2. PICK f \in Flows :
        /\ f \notin ToSet(pool) /\ f \notin {flow[v] : v \in Wires}
        /\ pool' = Append(pool, f)
        /\ drives' = [drives EXCEPT ![f] = w]
        /\ flow' = [flow EXCEPT ![w] = f]
  BY DEF Schedule, Pooled
<1>3. /\ at' = [at EXCEPT ![w] = "start"] /\ failed' = failed \ {w}
      /\ to' = to /\ cancelled' = cancelled /\ resumer' = resumer /\ cur' = cur
      /\ ending' = ending /\ undefined' = undefined
      /\ cur = NoWire /\ ending = <<>> /\ at[w] = "off"
  BY DEF Schedule, InMesh, Alive
<1>4. /\ at \in [Wires -> Points] /\ flow \in [Wires -> Flows \cup {NoFlow}]
      /\ resumer \in [Wires -> Wires \cup {NoWire}]
      /\ drives \in [Flows -> Wires \cup {NoWire}] /\ ToSet(pool) \subseteq Flows
      /\ pool \in Seq(Flows) /\ IsInjective(pool)
      /\ ToSet(ending) = {v \in Wires : at[v] \in {"stop", "end"}}
  BY <1>1 DEF TypeOK, ToSet
<1>5. pool' \in Seq(Flows) /\ IsInjective(pool') /\ ToSet(pool') = ToSet(pool) \cup {f}
  BY <1>2, <1>4, AppendFacts
<1>6. /\ \A v \in Wires : at'[v] = IF v = w THEN "start" ELSE at[v]
      /\ \A v \in Wires : flow'[v] = IF v = w THEN f ELSE flow[v]
      /\ \A e \in Flows : drives'[e] = IF e = f THEN w ELSE drives[e]
      /\ at' \in [Wires -> Points] /\ flow' \in [Wires -> Flows \cup {NoFlow}]
      /\ drives' \in [Flows -> Wires \cup {NoWire}]
  BY <1>2, <1>3, <1>4 DEF Points
<1>7. Driven'
  BY <1>1, <1>4, <1>5, <1>6 DEF Driven
<1>8. Kept
  BY <1>1, <1>4, <1>5, <1>6, <1>7, Remembering DEF TypeOK, Driven
<1>9. TypeOK'
  <2>1. ToSet(ending') = {v \in Wires : at'[v] \in {"stop", "end"}}
    BY <1>3, <1>4, <1>6
  <2>2. \A v \in Wires : at'[v] = "off" => flow'[v] = NoFlow /\ resumer'[v] = NoWire
    BY <1>1, <1>3, <1>6 DEF TypeOK, Alive
  <2> QED
    BY <1>1, <1>3, <1>5, <1>6, <1>8, <2>1, <2>2 DEF TypeOK, Alive, Kept
<1>10. Running' /\ InFlow' /\ About'
  BY <1>1, <1>3, <1>6 DEF Running, InFlow, About, Alive
<1>11. Resumers'
  <2>1. ASSUME NEW v \in Wires, resumer'[v] # NoWire
        PROVE  /\ at'[resumer'[v]] = "switch" /\ to'[resumer'[v]] = v
               /\ at'[v] \notin {"off", "stop", "end"}
               /\ \/ flow'[resumer'[v]] = flow'[v]
                  \/ {flow'[resumer'[v]], flow'[v]} \subseteq mixed'
    <3>1. resumer[v] # NoWire /\ resumer[v] \in Wires
      BY <1>3, <1>4, <2>1
    <3>2. at[resumer[v]] = "switch" /\ at[v] \notin {"off", "stop", "end"}
      BY <1>1, <3>1 DEF Resumers, Over
    <3>3. v # w /\ resumer[v] # w
      BY <1>3, <3>2
    <3> QED
      BY <1>3, <1>6, <1>8, <3>1, <3>2, <3>3, ResumersStay
  <2> QED
    BY <2>1 DEF Resumers, Over, Shares
<1>12. Lives'
  <2> SUFFICES ASSUME NEW e \in ToSet(pool'), e \notin mixed'
               PROVE  at'[drives'[e]] # "off" /\ flow'[drives'[e]] = e
    BY DEF Lives, Alive
  <2>1. CASE e = f
    BY <1>6, <2>1
  <2>2. CASE e # f
    <3>1. e \in ToSet(pool) /\ e \notin mixed /\ drives'[e] = drives[e]
      BY <1>4, <1>5, <1>6, <1>8, <2>2 DEF Kept
    <3>2. drives[e] \in Wires /\ at[drives[e]] # "off" /\ flow[drives[e]] = e
      BY <1>1, <3>1 DEF Lives, Driven, Alive
    <3> QED
      BY <1>3, <1>6, <3>1, <3>2
  <2> QED
    BY <2>1, <2>2
<1> QED
  BY <1>7, <1>8, <1>9, <1>10, <1>11, <1>12 DEF Inv, Kept

LEMMA ResumeKeeps ==
    ASSUME Inv, NEW f \in Flows, Resume(f), Remembers
    PROVE  Inv'
<1> DEFINE w == drives[f]
           r == Switched(w)
<1>1. TypeOK /\ Running /\ InFlow /\ About /\ Resumers /\ Driven /\ Lives /\ Crosses
  BY DEF Inv
<1>2. /\ cur = NoWire /\ ending = <<>> /\ f \in ToSet(pool) /\ at[w] # "off"
      /\ cur' = w /\ at' = [at EXCEPT ![w] = "run"] /\ to' = [to EXCEPT ![w] = NoWire]
      /\ resumer' = r /\ flow' = flow /\ failed' = failed /\ pool' = pool
      /\ drives' = drives /\ ending' = ending /\ undefined' = undefined
      /\ cancelled' \subseteq cancelled \cup {w}
  BY DEF Resume, InMesh, Pooled, Alive
<1>3. w \in Wires
  BY <1>1, <1>2 DEF Driven
<1>4. /\ at \in [Wires -> Points] /\ flow \in [Wires -> Flows \cup {NoFlow}]
      /\ to \in [Wires -> Wires \cup {NoWire}] /\ ToSet(pool) \subseteq Flows
      /\ resumer \in [Wires -> Wires \cup {NoWire}]
      /\ ToSet(ending) = {v \in Wires : at[v] \in {"stop", "end"}}
  BY <1>1 DEF TypeOK, ToSet
<1>5. at[w] \notin {"stop", "end"} /\ NoWire \notin Wires
  BY <1>2, <1>3, <1>4, ContinuationAssumption DEF ToSet
<1>6. r \in [Wires -> Wires \cup {NoWire}] /\ \A v \in Wires : r[v] \in {resumer[v], NoWire} \ {w}
  BY <1>3, SwitchedFacts
<1> HIDE DEF r, w
<1>7. /\ \A v \in Wires : at'[v] = IF v = w THEN "run" ELSE at[v]
      /\ \A v \in Wires : to'[v] = IF v = w THEN NoWire ELSE to[v]
      /\ at' \in [Wires -> Points] /\ to' \in [Wires -> Wires \cup {NoWire}]
  BY <1>2, <1>4 DEF Points
<1>8. Driven'
  BY <1>1, <1>2 DEF Driven
<1>9. Kept
  BY <1>1, <1>2, <1>4, <1>8, Remembering DEF TypeOK, Driven
<1>10. TypeOK'
  <2>1. ToSet(ending') = {v \in Wires : at'[v] \in {"stop", "end"}}
    BY <1>2, <1>4, <1>5, <1>7
  <2>2. \A v \in Wires : at'[v] = "off" => flow'[v] = NoFlow /\ resumer'[v] = NoWire
    BY <1>1, <1>2, <1>6, <1>7 DEF TypeOK, Alive
  <2> QED
    BY <1>1, <1>2, <1>3, <1>6, <1>7, <1>9, <2>1, <2>2 DEF TypeOK, Alive, Kept
<1>11. Running'
  BY <1>1, <1>2, <1>3, <1>5, <1>7 DEF Running
<1>12. InFlow' /\ About'
  BY <1>1, <1>2, <1>3, <1>5, <1>7 DEF InFlow, About, Alive
<1>13. Resumers'
  <2>1. ASSUME NEW v \in Wires, resumer'[v] # NoWire
        PROVE  /\ at'[resumer'[v]] = "switch" /\ to'[resumer'[v]] = v
               /\ at'[v] \notin {"off", "stop", "end"}
               /\ \/ flow'[resumer'[v]] = flow'[v]
                  \/ {flow'[resumer'[v]], flow'[v]} \subseteq mixed'
    <3>1. /\ resumer'[v] = resumer[v] /\ resumer[v] # NoWire /\ resumer[v] # w
          /\ resumer[v] \in Wires
      BY <1>2, <1>4, <1>6, <2>1
    <3>2. at[resumer[v]] = "switch" /\ at[v] \notin {"off", "stop", "end"}
      BY <1>1, <3>1 DEF Resumers, Over
    <3> QED
      BY <1>2, <1>7, <1>9, <3>1, <3>2, ResumersStay
  <2> QED
    BY <2>1 DEF Resumers, Over, Shares
<1>14. Lives'
  <2> SUFFICES ASSUME NEW e \in ToSet(pool), e \notin mixed'
               PROVE  at'[drives[e]] # "off" /\ flow[drives[e]] = e
    BY <1>2 DEF Lives, Alive
  <2>1. e \notin mixed
    BY <1>2, <1>9 DEF Kept
  <2>2. drives[e] \in Wires /\ at[drives[e]] # "off" /\ flow[drives[e]] = e
    BY <1>1, <2>1 DEF Lives, Driven, Alive
  <2> QED
    BY <1>7, <2>2
<1> QED
  BY <1>8, <1>9, <1>10, <1>11, <1>12, <1>13, <1>14 DEF Inv, Kept

LEMMA PauseKeeps ==
    ASSUME Inv, InShard, NEW x \in {"yield", "wait"},
           at' = [at EXCEPT ![cur] = x], cur' = NoWire, Aims,
           UNCHANGED <<flow, failed, cancelled, linkVars, ending, undefined>>, Remembers
    PROVE  Inv'
<1>1. TypeOK /\ Running /\ InFlow /\ About /\ Resumers /\ Driven /\ Lives /\ Crosses
  BY DEF Inv
<1>2. /\ cur \in Wires /\ at[cur] = "run"
      /\ resumer' = resumer /\ flow' = flow /\ failed' = failed /\ pool' = pool
      /\ cancelled' = cancelled
      /\ drives' = drives /\ ending' = ending /\ undefined' = undefined
  BY <1>1 DEF InShard, linkVars, TypeOK
<1>3. /\ at \in [Wires -> Points] /\ flow \in [Wires -> Flows \cup {NoFlow}]
      /\ ToSet(pool) \subseteq Flows /\ resumer \in [Wires -> Wires \cup {NoWire}]
      /\ ToSet(ending) = {v \in Wires : at[v] \in {"stop", "end"}}
  BY <1>1 DEF TypeOK, ToSet
<1>4. /\ \A v \in Wires : at'[v] = IF v = cur THEN x ELSE at[v]
      /\ at' \in [Wires -> Points]
  BY <1>2, <1>3 DEF Points
<1>5. Driven'
  BY <1>1, <1>2 DEF Driven
<1>6. Kept
  BY <1>1, <1>2, <1>3, <1>5, Remembering DEF TypeOK, Driven
<1>7. TypeOK'
  <2>1. ToSet(ending') = {v \in Wires : at'[v] \in {"stop", "end"}}
    BY <1>2, <1>3, <1>4
  <2>2. \A v \in Wires : at'[v] = "off" => flow'[v] = NoFlow /\ resumer'[v] = NoWire
    BY <1>1, <1>2, <1>4 DEF TypeOK, Alive
  <2> QED
    BY <1>1, <1>2, <1>4, <1>6, <2>1, <2>2, AimFacts DEF TypeOK, Alive, Kept
<1>8. Running'
  BY <1>1, <1>2, <1>4 DEF Running
<1>9. InFlow'
  BY <1>1, <1>2, <1>4 DEF InFlow, Alive
<1>10. About'
  BY <1>1, <1>4, AimFacts DEF About
<1>11. Resumers'
  <2>1. ASSUME NEW v \in Wires, resumer'[v] # NoWire
        PROVE  /\ at'[resumer'[v]] = "switch" /\ to'[resumer'[v]] = v
               /\ at'[v] \notin {"off", "stop", "end"}
               /\ \/ flow'[resumer'[v]] = flow'[v]
                  \/ {flow'[resumer'[v]], flow'[v]} \subseteq mixed'
    <3>1. resumer'[v] = resumer[v] /\ resumer[v] # NoWire /\ resumer[v] \in Wires
      BY <1>2, <1>3, <2>1
    <3>2. at[resumer[v]] = "switch" /\ at[v] \notin {"off", "stop", "end"}
      BY <1>1, <3>1 DEF Resumers, Over
    <3>3. at'[resumer[v]] = "switch" /\ to'[resumer[v]] = to[resumer[v]]
      BY <1>2, <1>4, <3>1, <3>2, AimFacts
    <3>4. at'[v] \notin {"off", "stop", "end"}
      BY <1>4, <3>2
    <3> QED
      BY <1>2, <1>6, <3>1, <3>3, <3>4, ResumersStay
  <2> QED
    BY <2>1 DEF Resumers, Over, Shares
<1>12. Lives'
  <2> SUFFICES ASSUME NEW e \in ToSet(pool), e \notin mixed'
               PROVE  at'[drives[e]] # "off" /\ flow[drives[e]] = e
    BY <1>2 DEF Lives, Alive
  <2>1. e \notin mixed
    BY <1>2, <1>6 DEF Kept
  <2>2. drives[e] \in Wires /\ at[drives[e]] # "off" /\ flow[drives[e]] = e
    BY <1>1, <2>1 DEF Lives, Driven, Alive
  <2> QED
    BY <1>4, <2>2
<1> QED
  BY <1>5, <1>6, <1>7, <1>8, <1>9, <1>10, <1>11, <1>12 DEF Inv, Kept

\* The flow of cur drives p, which is started in it or was alive.
LEMMA EnterKeeps ==
    ASSUME Inv, NEW p \in Wires, p # cur, cur # NoWire, at[cur] = "run", ending = <<>>,
           Enter(p), Remembers
    PROVE  Inv'
<1> DEFINE f == flow[cur]
<1>1. TypeOK /\ Running /\ InFlow /\ About /\ Resumers /\ Driven /\ Lives /\ Crosses
  BY DEF Inv
<1>2. /\ cur \in Wires /\ f \in Flows /\ NoWire \notin Wires /\ NoFlow \notin Flows
  BY <1>1, ContinuationAssumption DEF TypeOK, InFlow, Alive
<1>3. /\ to' = [to EXCEPT ![cur] = p] /\ cancelled' = cancelled
      /\ failed' \subseteq Wires /\ cancelled' \subseteq Wires
  BY <1>1 DEF Enter, TypeOK
<1>4. Aims
  BY <1>2, <1>3 DEF Aims
<1>5. CASE ~Pooled(f)
  <2>1. GoesWrong
    BY <1>5 DEF Enter
  <2> QED
    BY <1>3, <1>4, <2>1, WrongKeeps
<1>6. CASE Pooled(f)
  <2>1. /\ drives' = [drives EXCEPT ![f] = p]
        /\ resumer' = [resumer EXCEPT ![p] = IF @ = NoWire THEN cur ELSE @]
        /\ at' = [at EXCEPT ![cur] = "switch", ![p] = IF at[p] # "off" THEN @ ELSE "start"]
        /\ flow' = IF at[p] # "off" THEN flow ELSE [flow EXCEPT ![p] = f]
        /\ cur' = NoWire /\ pool' = pool /\ ending' = ending /\ undefined' = undefined
    BY <1>6 DEF Enter, Alive
  <2> HIDE DEF f
  <2>2. /\ at \in [Wires -> Points] /\ flow \in [Wires -> Flows \cup {NoFlow}]
        /\ resumer \in [Wires -> Wires \cup {NoWire}] /\ to \in [Wires -> Wires \cup {NoWire}]
        /\ drives \in [Flows -> Wires \cup {NoWire}] /\ ToSet(pool) \subseteq Flows
        /\ ToSet(ending) = {} /\ \A v \in Wires : at[v] \notin {"stop", "end"}
        /\ f \in ToSet(pool)
    BY <1>1, <1>6 DEF TypeOK, ToSet, Pooled
  <2>3. /\ \A v \in Wires : at'[v] = IF v = cur THEN "switch"
                                     ELSE IF v = p /\ at[p] = "off" THEN "start" ELSE at[v]
        /\ at' \in [Wires -> Points]
    BY <1>2, <2>1, <2>2 DEF Points
  <2>4. /\ \A v \in Wires : flow'[v] = IF v = p /\ at[p] = "off" THEN f ELSE flow[v]
        /\ flow' \in [Wires -> Flows \cup {NoFlow}]
    BY <1>2, <2>1, <2>2
  <2>5. /\ \A e \in Flows : drives'[e] = IF e = f THEN p ELSE drives[e]
        /\ drives' \in [Flows -> Wires \cup {NoWire}]
    BY <2>1, <2>2
  <2>6. /\ \A v \in Wires : resumer'[v] = IF v = p /\ resumer[p] = NoWire THEN cur ELSE resumer[v]
        /\ resumer' \in [Wires -> Wires \cup {NoWire}]
    BY <1>2, <2>1, <2>2
  <2>7. \A v \in Wires : v # cur => to'[v] = to[v]
    BY <1>3, <2>2
  <2>8. to'[cur] = p
    BY <1>2, <1>3, <2>2
  <2>9. Driven'
    BY <1>1, <2>1, <2>2, <2>5 DEF Driven
  <2>10. Kept
    BY <1>1, <2>1, <2>2, <2>4, <2>9, Remembering DEF TypeOK, Driven
  <2>11. TypeOK'
    <3>1. ToSet(ending') = {v \in Wires : at'[v] \in {"stop", "end"}}
      BY <2>1, <2>2, <2>3
    <3>2. \A v \in Wires : at'[v] = "off" => flow'[v] = NoFlow /\ resumer'[v] = NoWire
      BY <1>1, <2>3, <2>4, <2>6 DEF TypeOK, Alive
    <3> QED
      BY <1>1, <1>3, <1>4, <2>1, <2>3, <2>4, <2>5, <2>6, <2>10, <3>1, <3>2, AimFacts
         DEF TypeOK, Alive, Kept
  <2>12. Running'
    BY <1>1, <1>2, <2>1, <2>3 DEF Running
  <2>13. InFlow'
    BY <1>1, <1>2, <2>3, <2>4 DEF InFlow, Alive
  <2>14. About'
    BY <1>1, <1>2, <1>4, <2>3, <2>7, <2>8, AimFacts DEF About
  \* Whatever p is in, it is in f or the two are mixed from here on.
  <2>15. flow'[p] = f \/ {f, flow'[p]} \subseteq mixed'
    <3>1. flow'[p] \in Flows
      BY <1>1, <1>2, <2>4 DEF InFlow, Alive
    <3>2. f \in ToSet(pool') /\ drives'[f] = p /\ Crosses'
      BY <1>2, <2>1, <2>2, <2>5, <2>10 DEF Kept
    <3> QED
      BY <1>2, <3>1, <3>2 DEF Crosses
  <2>16. Resumers'
    <3>1. ASSUME NEW v \in Wires, resumer'[v] # NoWire
          PROVE  /\ at'[resumer'[v]] = "switch" /\ to'[resumer'[v]] = v
                 /\ at'[v] \notin {"off", "stop", "end"}
                 /\ \/ flow'[resumer'[v]] = flow'[v]
                    \/ {flow'[resumer'[v]], flow'[v]} \subseteq mixed'
      <4>1. CASE v = p /\ resumer[p] = NoWire
        <5>1. resumer'[v] = cur /\ flow'[cur] = f
          BY <1>2, <2>4, <2>6, <4>1 DEF f
        <5>2. at'[cur] = "switch" /\ at'[v] \notin {"off", "stop", "end"}
          BY <1>2, <2>2, <2>3, <4>1
        <5> QED
          BY <2>8, <2>15, <4>1, <5>1, <5>2
      <4>2. CASE ~(v = p /\ resumer[p] = NoWire)
        <5>1. resumer'[v] = resumer[v] /\ resumer[v] # NoWire /\ resumer[v] \in Wires
          BY <2>2, <2>6, <3>1, <4>2
        <5>2. at[resumer[v]] = "switch" /\ at[v] \notin {"off", "stop", "end"}
          BY <1>1, <5>1 DEF Resumers, Over
        <5>3. at'[resumer[v]] = "switch" /\ to'[resumer[v]] = to[resumer[v]]
          BY <2>3, <2>7, <5>1, <5>2
        <5>4. at'[v] \notin {"off", "stop", "end"} /\ flow'[v] = flow[v]
          BY <2>3, <2>4, <5>2
        <5>5. flow'[resumer[v]] = flow[resumer[v]]
          BY <2>4, <5>1, <5>2
        <5> QED
          BY <2>10, <5>1, <5>3, <5>4, <5>5, ResumersStay
      <4> QED
        BY <4>1, <4>2
    <3> QED
      BY <3>1 DEF Resumers, Over, Shares
  <2>17. Lives'
    <3> SUFFICES ASSUME NEW e \in ToSet(pool), e \notin mixed'
                 PROVE  at'[drives'[e]] # "off" /\ flow'[drives'[e]] = e
      BY <2>1 DEF Lives, Alive
    <3>1. CASE e = f
      <4>1. drives'[e] = p /\ at'[p] # "off"
        BY <1>2, <2>3, <2>5, <3>1
      <4> QED
        BY <2>15, <3>1, <4>1
    <3>2. CASE e # f
      <4>1. e \notin mixed
        BY <2>1, <2>10 DEF Kept
      <4>2. drives[e] \in Wires /\ at[drives[e]] # "off" /\ flow[drives[e]] = e
        BY <1>1, <4>1 DEF Lives, Driven, Alive
      <4> QED
        BY <2>2, <2>3, <2>4, <2>5, <3>2, <4>2
    <3> QED
      BY <3>1, <3>2
  <2> QED
    BY <2>9, <2>10, <2>11, <2>12, <2>13, <2>14, <2>16, <2>17 DEF Inv, Kept
<1> QED
  BY <1>5, <1>6

LEMMA FailsToStartKeeps ==
    ASSUME Inv, NEW p \in Wires, p # cur, cur # NoWire, at[cur] = "run", ending = <<>>,
           FailsToStart(p), Remembers
    PROVE  Inv'
<1> DEFINE f == flow[cur]
<1>1. TypeOK /\ Running /\ InFlow /\ About /\ Resumers /\ Driven /\ Lives /\ Crosses
  BY DEF Inv
<1>2. /\ cur \in Wires /\ f \in Flows /\ NoWire \notin Wires
  BY <1>1, ContinuationAssumption DEF TypeOK, InFlow, Alive
<1>3. /\ at[p] = "off" /\ f \in ToSet(pool)
      /\ drives' = [drives EXCEPT ![f] = p] /\ flow' = [flow EXCEPT ![p] = f]
      /\ at' = [at EXCEPT ![p] = "end"] /\ to' = [to EXCEPT ![cur] = NoWire]
      /\ failed' = failed \cup {p} /\ cancelled' = cancelled \cup {cur}
      /\ ending' = Append(ending, p)
      /\ resumer' = resumer /\ pool' = pool /\ cur' = cur /\ undefined' = undefined
  BY DEF FailsToStart, Alive, Pooled
<1> HIDE DEF f
<1>4. /\ at \in [Wires -> Points] /\ flow \in [Wires -> Flows \cup {NoFlow}]
      /\ to \in [Wires -> Wires \cup {NoWire}] /\ resumer \in [Wires -> Wires \cup {NoWire}]
      /\ drives \in [Flows -> Wires \cup {NoWire}] /\ ToSet(pool) \subseteq Flows
      /\ ending \in Seq(Wires) /\ IsInjective(ending) /\ p \notin ToSet(ending)
      /\ ToSet(ending) = {v \in Wires : at[v] \in {"stop", "end"}}
  BY <1>1, <1>3 DEF TypeOK, ToSet
<1>5. /\ ending' \in Seq(Wires) /\ IsInjective(ending')
      /\ ToSet(ending') = ToSet(ending) \cup {p}
  <2>1. ending \in Seq(Wires) /\ IsInjective(ending) /\ p \notin ToSet(ending)
    BY <1>4
  <2>2. ending' = Append(ending, p)
    BY <1>3
  <2>3. /\ Append(ending, p) \in Seq(Wires) /\ IsInjective(Append(ending, p))
        /\ ToSet(Append(ending, p)) = ToSet(ending) \cup {p}
    BY <2>1, AppendFacts
  <2> QED
    BY <2>2, <2>3
<1>6. /\ \A v \in Wires : at'[v] = IF v = p THEN "end" ELSE at[v]
      /\ \A v \in Wires : flow'[v] = IF v = p THEN f ELSE flow[v]
      /\ \A e \in Flows : drives'[e] = IF e = f THEN p ELSE drives[e]
      /\ \A v \in Wires : to'[v] = IF v = cur THEN NoWire ELSE to[v]
      /\ at' \in [Wires -> Points] /\ flow' \in [Wires -> Flows \cup {NoFlow}]
      /\ drives' \in [Flows -> Wires \cup {NoWire}] /\ to' \in [Wires -> Wires \cup {NoWire}]
  BY <1>2, <1>3, <1>4 DEF Points
<1>7. Driven'
  BY <1>1, <1>3, <1>4, <1>6 DEF Driven
<1>8. Kept
  BY <1>1, <1>3, <1>4, <1>6, <1>7, Remembering DEF TypeOK, Driven
<1>9. TypeOK'
  <2>1. ToSet(ending') = {v \in Wires : at'[v] \in {"stop", "end"}}
    BY <1>4, <1>5, <1>6
  <2>2. \A v \in Wires : at'[v] = "off" => flow'[v] = NoFlow /\ resumer'[v] = NoWire
    BY <1>1, <1>3, <1>6 DEF TypeOK, Alive
  <2> QED
    BY <1>1, <1>2, <1>3, <1>5, <1>6, <1>8, <2>1, <2>2 DEF TypeOK, Alive, Kept
<1>10. Running' /\ InFlow'
  BY <1>1, <1>2, <1>3, <1>6 DEF Running, InFlow, Alive
<1>11. About'
  BY <1>1, <1>2, <1>6 DEF About
<1>12. Resumers'
  <2>1. ASSUME NEW v \in Wires, resumer'[v] # NoWire
        PROVE  /\ at'[resumer'[v]] = "switch" /\ to'[resumer'[v]] = v
               /\ at'[v] \notin {"off", "stop", "end"}
               /\ \/ flow'[resumer'[v]] = flow'[v]
                  \/ {flow'[resumer'[v]], flow'[v]} \subseteq mixed'
    <3>1. resumer[v] # NoWire /\ resumer[v] \in Wires
      BY <1>3, <1>4, <2>1
    <3>2. at[resumer[v]] = "switch" /\ at[v] \notin {"off", "stop", "end"}
      BY <1>1, <3>1 DEF Resumers, Over
    <3>3. v # p /\ resumer[v] # p /\ resumer[v] # cur
      BY <1>3, <3>2
    <3> QED
      BY <1>3, <1>6, <1>8, <3>1, <3>2, <3>3, ResumersStay
  <2> QED
    BY <2>1 DEF Resumers, Over, Shares
<1>13. Lives'
  <2> SUFFICES ASSUME NEW e \in ToSet(pool), e \notin mixed'
               PROVE  at'[drives'[e]] # "off" /\ flow'[drives'[e]] = e
    BY <1>3 DEF Lives, Alive
  <2>1. CASE e = f
    BY <1>2, <1>6, <2>1
  <2>2. CASE e # f
    <3>1. e \notin mixed
      BY <1>3, <1>8 DEF Kept
    <3>2. drives[e] \in Wires /\ at[drives[e]] # "off" /\ flow[drives[e]] = e
      BY <1>1, <3>1 DEF Lives, Driven, Alive
    <3> QED
      BY <1>3, <1>4, <1>6, <2>2, <3>2
  <2> QED
    BY <2>1, <2>2
<1> QED
  BY <1>7, <1>8, <1>9, <1>10, <1>11, <1>12, <1>13 DEF Inv, Kept

-----------------------------------------------------------------------------
LEMMA InitInv == Init => Inv
<1> SUFFICES ASSUME Init PROVE Inv
  OBVIOUS
<1>1. ToSet(pool) = {} /\ ToSet(ending) = {}
  BY DEF Init, ToSet
<1>2. TypeOK
  <2>1. pool \in Seq(Flows) /\ IsInjective(pool) /\ ending \in Seq(Wires) /\ IsInjective(ending)
    BY DEF Init, IsInjective
  <2> QED
    BY <1>1, <2>1 DEF Init, TypeOK, Points, Alive
<1>3. Running /\ InFlow /\ About /\ Resumers
  BY ContinuationAssumption DEF Init, Running, InFlow, About, Resumers, Alive
<1> QED
  BY <1>1, <1>2, <1>3 DEF Inv, Driven, Lives, Crosses

\* Where the program is when a shard of the wire that runs acts.
LEMMA InShardFacts ==
    ASSUME Inv, cur # NoWire, at[cur] = "run", ending = <<>>
    PROVE  /\ cur \in Wires /\ ~Over(cur)
           /\ \A p \in Wires : Alive(p) => at[p] \notin {"off", "stop"}
           /\ failed \subseteq Wires /\ cancelled \subseteq Wires
           /\ undefined \in BOOLEAN
<1>1. ToSet(ending) = {}
  BY DEF ToSet
<1> QED
  BY <1>1 DEF Inv, TypeOK, Over, Alive

LEMMA NextInv == Inv /\ [Next]_vars => Inv'
<1> SUFFICES ASSUME Inv, [Next]_vars PROVE Inv'
  OBVIOUS
<1>1. CASE UNCHANGED vars
  BY <1>1 DEF Inv, vars, wireVars, linkVars, TypeOK, Running, InFlow, About, Resumers, Driven,
              Lives, Crosses, Alive, Over, Shares
<1>2. CASE Next
  <2>1. Step /\ Remembers
    BY <1>2 DEF Next
  <2>2. ASSUME NEW w \in Wires, Schedule(w) PROVE Inv'
    BY <2>1, <2>2, ScheduleKeeps
  <2>3. ASSUME NEW t \in Wires, StopOnCleanup(t) PROVE Inv'
    <3>1. Stop(t) /\ to' = to /\ at[t] \notin {"off", "stop"}
      BY <2>3 DEF StopOnCleanup, ToStop
    <3> QED
      BY <2>1, <3>1, StopKeeps DEF Aims
  <2>4. ASSUME NEW f \in Flows, Resume(f) PROVE Inv'
    BY <2>1, <2>4, ResumeKeeps
  <2>5. CASE CleanedUp
    BY <2>1, <2>5, CleanedUpKeeps
  <2>6. CASE Yield
    <3>1. /\ InShard /\ at' = [at EXCEPT ![cur] = "yield"] /\ cur' = NoWire /\ to' = to
          /\ UNCHANGED <<flow, failed, cancelled, linkVars, ending, undefined>>
      BY <2>6 DEF Yield, Runs
    <3>2. Aims
      BY <3>1 DEF Aims
    <3> QED
      BY <2>1, <3>1, <3>2, PauseKeeps
  <2>7. ASSUME NEW p \in Wires, Wait(p) PROVE Inv'
    <3>1. /\ InShard /\ at' = [at EXCEPT ![cur] = "wait"] /\ cur' = NoWire /\ p # cur
          /\ to' = [to EXCEPT ![cur] = p]
          /\ UNCHANGED <<flow, failed, cancelled, linkVars, ending, undefined>>
      BY <2>7 DEF Wait, Runs
    <3>2. Aims
      BY <3>1, InShardFacts DEF Aims, InShard
    <3> QED
      BY <2>1, <3>1, <3>2, PauseKeeps
  <2>8. ASSUME NEW p \in Wires, WaitThrows(p) PROVE Inv'
    <3>1. /\ InShard /\ cancelled' = cancelled \cup {cur} /\ to' = to /\ failed' = failed
          /\ UNCHANGED <<at, flow, linkVars, cur, ending>> /\ undefined' = undefined
      BY <2>8 DEF WaitThrows, Runs
    <3>2. failed' \subseteq Wires /\ cancelled' \subseteq Wires /\ undefined' \in BOOLEAN
      BY <3>1, InShardFacts DEF InShard
    <3> QED
      BY <2>1, <3>1, <3>2, StillKeeps DEF Aims
  <2>9. CASE Recover
    <3>1. /\ InShard /\ cancelled' \subseteq cancelled /\ to' = to /\ failed' = failed
          /\ UNCHANGED <<at, flow, linkVars, cur, ending>> /\ undefined' = undefined
      BY <2>9 DEF Recover
    <3>2. failed' \subseteq Wires /\ cancelled' \subseteq Wires /\ undefined' \in BOOLEAN
      BY <3>1, InShardFacts DEF InShard
    <3> QED
      BY <2>1, <3>1, <3>2, StillKeeps DEF Aims
  <2>10. CASE Finish
    <3>1. /\ InShard /\ BeginEnd(cur, "end") /\ to' = to /\ failed' = failed
          /\ cancelled' = cancelled
      BY <2>10 DEF Finish, Runs
    <3>2. cur \in Wires /\ ~Over(cur) /\ failed' \subseteq Wires /\ cancelled' \subseteq Wires
      BY <3>1, InShardFacts DEF InShard
    <3> QED
      BY <2>1, <3>1, <3>2, BeginEndKeeps DEF Aims
  <2>11. CASE Fail
    <3>1. /\ InShard /\ BeginEnd(cur, "end") /\ to' = to /\ failed' = failed \cup {cur}
          /\ cancelled' = (cancelled \cup {resumer[cur]}) \ {NoWire}
      BY <2>11 DEF Fail
    <3>2. resumer \in [Wires -> Wires \cup {NoWire}]
      BY DEF Inv, TypeOK
    <3>3. cur \in Wires /\ ~Over(cur) /\ failed' \subseteq Wires /\ cancelled' \subseteq Wires
      BY <3>1, <3>2, InShardFacts DEF InShard
    <3> QED
      BY <2>1, <3>1, <3>3, BeginEndKeeps DEF Aims
  <2>12. ASSUME NEW p \in Wires, StopWire(p) PROVE Inv'
    <3>1. InShard /\ Alive(p) /\ Stop(p) /\ to' = to
      BY <2>12 DEF StopWire, Runs
    <3>2. at[p] \notin {"off", "stop"}
      BY <3>1, InShardFacts DEF InShard
    <3> QED
      BY <2>1, <3>1, <3>2, StopKeeps DEF Aims
  <2>13. ASSUME NEW p \in Wires, NEW fromStart \in BOOLEAN, SwitchTo(p, fromStart) PROVE Inv'
    <3>1. InShard /\ p # cur
      BY <2>13 DEF SwitchTo, Runs
    <3>2. CASE Enter(p)
      BY <2>1, <3>1, <3>2, EnterKeeps DEF InShard
    <3>3. CASE FailsToStart(p)
      BY <2>1, <3>1, <3>3, FailsToStartKeeps DEF InShard
    <3>4. CASE Alive(p) /\ Stop(p) /\ to' = [to EXCEPT ![cur] = p]
      <4>1. at[p] \notin {"off", "stop"} /\ Aims
        BY <3>1, <3>4, InShardFacts DEF InShard, Aims
      <4> QED
        BY <2>1, <3>4, <4>1, StopKeeps
    <3> QED
      BY <2>13, <3>2, <3>3, <3>4 DEF SwitchTo
  <2>14. CASE SwitchGoesOn
    <3>1. /\ cur # NoWire /\ at[cur] = "run" /\ ending = <<>> /\ to[cur] # NoWire
      BY <2>14 DEF SwitchGoesOn
    <3>2. to[cur] \in Wires /\ to[cur] # cur
      BY <3>1, InShardFacts DEF Inv, TypeOK, About
    <3>3. CASE Enter(to[cur])
      BY <2>1, <3>1, <3>2, <3>3, EnterKeeps
    <3>4. CASE FailsToStart(to[cur])
      BY <2>1, <3>1, <3>2, <3>4, FailsToStartKeeps
    <3> QED
      BY <2>14, <3>3, <3>4 DEF SwitchGoesOn
  <2> QED
    BY <2>1, <2>2, <2>3, <2>4, <2>5, <2>6, <2>7, <2>8, <2>9, <2>10, <2>11, <2>12, <2>13, <2>14
       DEF Step
<1> QED
  BY <1>1, <1>2 DEF Next

LEMMA SpecInv == Spec => []Inv
<1> QED
  BY InitInv, NextInv, PTL DEF Spec

-----------------------------------------------------------------------------
(***************************************************************************)
(* Who a wire loses its parent to.                                         *)
(***************************************************************************)
\* A wire that had switched to p goes on.
GoesOn(p) == \E v \in Wires : at[v] = "switch" /\ to[v] = p /\ at'[v] # "switch"

\* What a step may do to the parents there are.
Keeps == \A p \in Wires : resumer[p] # NoWire =>
             resumer'[p] = resumer[p] \/ Over(p)' \/ GoesOn(p)

\* A SwitchTo that is left takes the resumer of the wire it is about, no other.
LEMMA SwitchedTakes ==
    ASSUME Inv, NEW w \in Wires, NEW p \in Wires, Switched(w)[p] # resumer[p]
    PROVE  at[w] = "switch" /\ to[w] = p
BY DEF Inv, TypeOK, Switched

LEMMA BeginEndTakes ==
    ASSUME Inv, NEW w \in Wires, NEW how \in {"stop", "end"}, BeginEnd(w, how)
    PROVE  Keeps
<1>1. CASE GoesWrong
  BY <1>1 DEF GoesWrong, linkVars, Keeps
<1>2. CASE /\ resumer' = [Switched(w) EXCEPT ![w] = NoWire]
           /\ at' = [at EXCEPT ![w] = how]
  <2>1. at'[w] = how
    BY <1>2 DEF Inv, TypeOK
  <2>2. ASSUME NEW p \in Wires, p # w, resumer'[p] # resumer[p] PROVE GoesOn(p)
    <3>1. Switched(w)[p] # resumer[p]
      BY <1>2, <2>2
    <3> QED
      BY <2>1, <3>1, SwitchedTakes DEF GoesOn
  <2>3. Over(w)'
    BY <2>1 DEF Over
  <2> QED
    BY <2>2, <2>3 DEF Keeps
<1> QED
  BY <1>1, <1>2 DEF BeginEnd

LEMMA StopTakes ==
    ASSUME Inv, NEW p \in Wires, Stop(p)
    PROVE  Keeps
<1>1. CASE GoesWrong
  BY <1>1 DEF GoesWrong, linkVars, Keeps
<1> QED
  BY <1>1, BeginEndTakes DEF Stop

LEMMA EnterTakes ==
    ASSUME Inv, NEW p \in Wires, Enter(p) \/ FailsToStart(p)
    PROVE  Keeps
<1>1. resumer \in [Wires -> Wires \cup {NoWire}]
  BY DEF Inv, TypeOK
<1>2. CASE Enter(p)
  BY <1>1, <1>2 DEF Enter, GoesWrong, linkVars, Keeps
<1>3. CASE FailsToStart(p)
  BY <1>3 DEF FailsToStart, Keeps
<1> QED
  BY <1>2, <1>3

LEMMA StepTakes == Inv /\ [Next]_vars => Keeps
<1> SUFFICES ASSUME Inv, [Next]_vars PROVE Keeps
  OBVIOUS
<1>1. CASE resumer' = resumer
  BY <1>1 DEF Keeps
<1>2. CASE Next
  <2>1. ASSUME NEW f \in Flows, Resume(f) PROVE Keeps
    <3>1. Pooled(f) /\ resumer' = Switched(drives[f]) /\ at' = [at EXCEPT ![drives[f]] = "run"]
      BY <2>1 DEF Resume
    <3>2. drives[f] \in Wires
      BY <3>1 DEF Inv, Driven, Pooled
    <3>3. at'[drives[f]] = "run"
      BY <3>1, <3>2 DEF Inv, TypeOK
    <3>4. ASSUME NEW p \in Wires, resumer'[p] # resumer[p] PROVE GoesOn(p)
      BY <3>1, <3>2, <3>3, <3>4, SwitchedTakes DEF GoesOn
    <3> QED
      BY <3>4 DEF Keeps
  <2>2. CASE Finish \/ Fail
    <3>1. cur \in Wires /\ BeginEnd(cur, "end")
      BY <2>2, InShardFacts DEF Finish, Fail, Runs, InShard
    <3> QED
      BY <3>1, BeginEndTakes
  <2>3. ASSUME NEW p \in Wires, StopWire(p) \/ StopOnCleanup(p) PROVE Keeps
    BY <2>3, StopTakes DEF StopWire, StopOnCleanup
  <2>4. ASSUME NEW p \in Wires, NEW fromStart \in BOOLEAN, SwitchTo(p, fromStart) PROVE Keeps
    BY <2>4, StopTakes, EnterTakes DEF SwitchTo
  <2>5. CASE SwitchGoesOn
    <3>1. to[cur] \in Wires
      BY <2>5, InShardFacts DEF SwitchGoesOn, Inv, TypeOK
    <3> QED
      BY <2>5, <3>1, EnterTakes DEF SwitchGoesOn
  <2>6. CASE \/ CleanedUp \/ Yield \/ Recover
             \/ \E w \in Wires : Schedule(w) \/ Wait(w) \/ WaitThrows(w)
    BY <1>1, <2>6 DEF CleanedUp, Yield, Recover, Schedule, Wait, WaitThrows, linkVars
  <2> QED
    BY <1>2, <2>1, <2>2, <2>3, <2>4, <2>5, <2>6 DEF Next, Step
<1> QED
  BY <1>1, <1>2 DEF vars, linkVars

-----------------------------------------------------------------------------
(***************************************************************************)
(* The theorems.                                                           *)
(***************************************************************************)
\* The types, through SwitchTo, stops, restarts and failures of any wires.
THEOREM TypeCorrect == Spec => []TypeOK
<1>1. Inv => TypeOK
  BY DEF Inv
<1> QED
  BY SpecInv, <1>1, PTL

\* SHWire::resumer never names a wire that has gone on, ended or was stopped:
\* whatever is switched to, stopped and started again, run() gives the flow of
\* a wire that ends to one that is suspended for it.
THEOREM ResumersCorrect == Spec => []ResumersWait
<1>1. Inv => ResumersWait
  BY DEF Inv, Resumers, ResumersWait
<1> QED
  BY SpecInv, <1>1, PTL

\* What SHMesh::tick resumes is alive and driven by one flow, in all chains of
\* wires that keep to the wires of their flow: a flow that is mixed with another
\* one is the only one that can lose its wire.
THEOREM FlowsCorrect == Spec => []FlowsDriveLiveWires
<1>1. ASSUME Inv PROVE FlowsDriveLiveWires
  <2>1. \A f \in ToSet(pool) \ mixed : Alive(drives[f]) /\ flow[drives[f]] = f
    BY <1>1 DEF Inv, Lives
  <2>2. ASSUME NEW f \in ToSet(pool) \ mixed, NEW g \in ToSet(pool), drives[f] = drives[g]
        PROVE  f = g
    <3>1. flow[drives[g]] = f
      BY <2>1, <2>2
    <3>2. f # NoFlow
      BY <1>1, ContinuationAssumption DEF Inv, TypeOK, ToSet
    <3>3. f # g => f \in mixed
      BY <1>1, <3>1, <3>2 DEF Inv, Crosses
    <3> QED
      BY <2>2, <3>3
  <2> QED
    BY <2>1, <2>2 DEF FlowsDriveLiveWires
<1> QED
  BY SpecInv, <1>1, PTL

\* In all chains, stops and ways back, a wire only loses the parent it is to go
\* back to when it is over or when a wire that had switched to it goes on.
THEOREM ParentCorrect == Spec => ParentIsKept
<1>1. ASSUME Inv, [Next]_vars, NEW g \in Wires, NEW p \in Wires, resumer[p] = g
      PROVE  \/ resumer'[p] = g
             \/ at'[p] \in {"off", "stop", "end"}
             \/ \E v \in Wires : at[v] = "switch" /\ to[v] = p /\ at'[v] # "switch"
  <2>1. resumer[p] # NoWire
    BY <1>1, ContinuationAssumption
  <2> QED
    BY <1>1, <2>1, StepTakes DEF Keeps, Over, GoesOn
<1>2. Inv /\ [Next]_vars =>
        [\A g, p \in Wires : resumer[p] = g =>
           \/ resumer'[p] = g
           \/ at'[p] \in {"off", "stop", "end"}
           \/ \E v \in Wires : at[v] = "switch" /\ to[v] = p /\ at'[v] # "switch"]_vars
  BY <1>1
<1> QED
  BY <1>2, SpecInv, PTL DEF Spec, ParentIsKept
=============================================================================
