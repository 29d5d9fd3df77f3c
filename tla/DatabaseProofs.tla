--------------------------- MODULE DatabaseProofs ---------------------------
(***************************************************************************)
(* Proofs about Database: type correctness, OpenIsLocked and Isolated, for *)
(* any wires and any number of workers.  The inductive invariant says who  *)
(* has the lock of transactions and how far the open transaction is.       *)
(***************************************************************************)
EXTENDS Database, TLAPS

\* A transaction holds the lock, and so does a query outside of any that has
\* begun to run.
HoldsLock(w) == InTransaction(w) \/ (at[w] = "query" /\ call[w] = "exec" /\ w \notin Strays)
LockIsHeld == \A w \in Wires : HoldsLock(w) => lock = w

\* Between the BEGIN and the COMMIT or the ROLLBACK that ends the transaction.
Opened(w) ==
    \/ at[w] = "begin" /\ call[w] = "done" /\ w \notin threw
    \/ at[w] \in {"body", "inner", "nested"}
    \/ at[w] \in {"commit", "rollback"} /\ call[w] # "done"
OpenIsOpened == open # NoWire /\ ~left => open \in Wires /\ Opened(open)

Inv == TypeOK /\ LockIsHeld /\ OpenIsOpened /\ Isolated

\* What Inv says of the open transaction is more than OpenIsLocked.
LEMMA InvLocked == Inv => OpenIsLocked
  BY DEF Inv, OpenIsLocked, LockIsHeld, HoldsLock, OpenIsOpened, Opened, InTransaction

\* Initially nothing is open and nothing is locked.
LEMMA InitInv == Init => Inv
  BY DatabaseAssumption DEF Init, Inv, TypeOK, LockIsHeld, HoldsLock, OpenIsOpened, Isolated,
     InTransaction, Points

\* The steps of the thread of the mesh that begin something preserve Inv.
LEMMA AsksInv ==
    ASSUME Inv, NEW w \in Wires,
           Query(w) \/ Transaction(w) \/ TryLock(w) \/ Inner(w) \/ Nest(w) \/ EndBody(w)
             \/ FailBody(w)
    PROVE  Inv'
<1> USE DatabaseAssumption DEF Moves, Points
<1>1. TypeOK'
  BY DEF Inv, TypeOK, Query, Transaction, TryLock, Inner, Nest, EndBody, FailBody
<1>2. LockIsHeld'
  BY DEF Inv, TypeOK, LockIsHeld, HoldsLock, InTransaction, Query, Transaction, TryLock, Inner,
     Nest, EndBody, FailBody
<1>3. OpenIsOpened'
  BY DEF Inv, TypeOK, OpenIsOpened, Opened, LockIsHeld, HoldsLock, InTransaction, Query,
     Transaction, TryLock, Inner, Nest, EndBody, FailBody
<1>4. Isolated'
  BY DEF Inv, Isolated, Query, Transaction, TryLock, Inner, Nest, EndBody, FailBody
<1> QED BY <1>1, <1>2, <1>3, <1>4 DEF Inv

\* The end of an activation preserves Inv, when its transaction is over.
LEMMA LeaveInv ==
    ASSUME Inv, NEW w \in Wires, Leave(w), ~Opened(w)
    PROVE  Inv'
<1> USE DatabaseAssumption DEF Moves, Points
<1>1. TypeOK'
  BY DEF Inv, TypeOK, Leave
<1>2. LockIsHeld'
  BY DEF Inv, TypeOK, LockIsHeld, HoldsLock, InTransaction, Leave
<1>3. OpenIsOpened'
  BY DEF Inv, TypeOK, OpenIsOpened, Opened, Leave
<1>4. Isolated'
  BY DEF Inv, Isolated, Leave
<1> QED BY <1>1, <1>2, <1>3, <1>4 DEF Inv

\* The end of an await preserves Inv.
LEMMA CollectInv ==
    ASSUME Inv, NEW w \in Wires, Collect(w)
    PROVE  Inv'
<1> USE DatabaseAssumption DEF Moves, Points
<1>1. CASE Leave(w)
  <2>1. ~Opened(w)
    BY <1>1 DEF Collect, Opened, Leave, Stays, Inv, TypeOK
  <2> QED BY <1>1, <2>1, LeaveInv
<1>2. CASE ~Leave(w)
  <2>1. TypeOK'
    BY <1>2 DEF Inv, TypeOK, Collect, Stays
  <2>2. LockIsHeld'
    BY <1>2 DEF Inv, TypeOK, LockIsHeld, HoldsLock, InTransaction, Collect, Stays
  <2>3. OpenIsOpened'
    BY <1>2 DEF Inv, TypeOK, OpenIsOpened, Opened, Collect, Stays
  <2>4. Isolated'
    BY <1>2 DEF Inv, Isolated, Collect, Stays
  <2> QED BY <2>1, <2>2, <2>3, <2>4 DEF Inv
<1> QED BY <1>1, <1>2

\* The stop of a wire preserves Inv.
LEMMA StopInv ==
    ASSUME Inv, NEW w \in Wires, Stop(w)
    PROVE  Inv'
<1> USE DatabaseAssumption DEF Moves, Points
<1>1. CASE at[w] = "locking" /\ Leave(w)
  BY <1>1, LeaveInv DEF Opened
<1>2. CASE ~(at[w] = "locking" /\ Leave(w))
  <2>1. TypeOK'
    BY <1>2 DEF Inv, TypeOK, Stop
  <2>2. LockIsHeld'
    BY <1>2 DEF Inv, TypeOK, LockIsHeld, HoldsLock, InTransaction, Stop
  <2>3. OpenIsOpened'
    BY <1>2 DEF Inv, TypeOK, OpenIsOpened, Opened, Stop
  <2>4. Isolated'
    BY <1>2 DEF Inv, Isolated, Stop
  <2> QED BY <2>1, <2>2, <2>3, <2>4 DEF Inv
<1> QED BY <1>1, <1>2

\* A worker that takes a call, or gets the lock for it, preserves Inv.
LEMMA TakeInv ==
    ASSUME Inv, NEW w \in Wires, Take(w) \/ Lock(w)
    PROVE  Inv'
<1> USE DatabaseAssumption DEF Points
<1>1. TypeOK'
  BY DEF Inv, TypeOK, Take, Lock
<1>2. LockIsHeld'
  BY DEF Inv, TypeOK, LockIsHeld, HoldsLock, InTransaction, Take, Lock
<1>3. OpenIsOpened'
  BY DEF Inv, TypeOK, OpenIsOpened, Opened, Take, Lock
<1>4. Isolated'
  BY DEF Inv, Isolated, Take, Lock
<1> QED BY <1>1, <1>2, <1>3, <1>4 DEF Inv

\* A worker that runs a statement preserves Inv.
LEMMA ExecutesInv ==
    ASSUME Inv, NEW w \in Wires, Executes(w)
    PROVE  Inv'
<1> USE DatabaseAssumption DEF Points, Done
<1>1. CASE Begin(w)
  BY <1>1 DEF Inv, TypeOK, LockIsHeld, HoldsLock, InTransaction, OpenIsOpened, Opened, Isolated, Begin
<1>2. CASE Rollback(w)
  BY <1>2 DEF Inv, TypeOK, LockIsHeld, HoldsLock, InTransaction, OpenIsOpened, Opened, Isolated, Rollback
<1>3. ASSUME NEW ok \in BOOLEAN, Commit(w, ok)
      PROVE  Inv'
  BY <1>3 DEF Inv, TypeOK, LockIsHeld, HoldsLock, InTransaction, OpenIsOpened, Opened, Isolated, Commit
<1>4. ASSUME NEW ok \in BOOLEAN, Statement(w, ok)
      PROVE  Inv'
  <2>1. TypeOK'
    BY <1>4 DEF Inv, TypeOK, Statement
  <2>2. LockIsHeld'
    BY <1>4 DEF Inv, TypeOK, LockIsHeld, HoldsLock, InTransaction, Statement
  <2>3. OpenIsOpened'
    BY <1>4 DEF Inv, TypeOK, OpenIsOpened, Opened, Statement
  <2>4. w \in Strays \/ lock = w
    BY <1>4 DEF Inv, LockIsHeld, HoldsLock, InTransaction, Statement
  <2>5. open \in {NoWire, w} \/ left \/ w \in Strays
    BY <2>4, InvLocked DEF OpenIsLocked
  <2>6. Isolated'
    BY <1>4, <2>5 DEF Inv, Isolated, Statement
  <2> QED BY <2>1, <2>2, <2>3, <2>6 DEF Inv
<1> QED BY <1>1, <1>2, <1>3, <1>4 DEF Executes

\* Inv is inductive.
LEMMA NextInv == Inv /\ [Next]_vars => Inv'
<1> SUFFICES ASSUME Inv, [Next]_vars PROVE Inv' OBVIOUS
<1>1. CASE UNCHANGED vars
  BY <1>1 DEF vars, Inv, TypeOK, LockIsHeld, HoldsLock, InTransaction, OpenIsOpened, Opened, Isolated
<1>2. CASE Next
  BY <1>2, AsksInv, CollectInv, StopInv, TakeInv, ExecutesInv DEF Next
<1> QED BY <1>1, <1>2

\* Inv holds in every state of every behaviour.
LEMMA Invariant == Spec => []Inv
  BY InitInv, NextInv, PTL DEF Spec

\* Type correctness of the shards, their calls and the two locks, with an
\* exception only where a call is complete (sqlite.cpp 627-800).
THEOREM TypeCorrect == Spec => []TypeOK
<1>1. Inv => TypeOK BY DEF Inv
<1> QED BY <1>1, Invariant, PTL

\* What SQLite has open belongs to the wire that holds transactionMutex and
\* is inside its transaction, unless a COMMIT failed (sqlite.cpp 745-797).
THEOREM OpenCorrect == Spec => []OpenIsLocked
  BY InvLocked, Invariant, PTL

\* A statement of another wire never runs inside of an open transaction, but
\* for wires composed within one (sqlite.cpp 376-388, 642-645).
THEOREM IsolatedCorrect == Spec => []Isolated
<1>1. Inv => Isolated BY DEF Inv
<1> QED BY <1>1, Invariant, PTL

\* Both: the wires that share a database do not get into each other's
\* transaction (sqlite.cpp 627-800).
THEOREM ApartCorrect == Spec => []TransactionsAreApart
  BY OpenCorrect, IsolatedCorrect, PTL DEF TransactionsAreApart
=============================================================================
