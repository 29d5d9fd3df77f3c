------------------------------- MODULE Database -------------------------------
(***************************************************************************)
(* The shards of one SQLite connection: DB.Query, DB.RawQuery and their    *)
(* like, and DB.Transaction with the queries inside it.  Every statement   *)
(* is run by a worker of the TidePool while its wire awaits it; wires of   *)
(* one mesh share the connection and the thread that ticks them.           *)
(*                                                                         *)
(* Connection::mutex is held for one statement, so that statements are     *)
(* atomic here; Connection::transactionMutex is held for a transaction by  *)
(* its wire, or by the worker that runs a statement outside of any.        *)
(***************************************************************************)
EXTENDS Naturals, FiniteSets

CONSTANTS Wires, NoWire, \* the wires of the mesh
          Strays,        \* those that were composed inside of a transaction
                         \* (_withinTransaction) and run on their own
          Workers        \* the number of workers of the TidePool

ASSUME DatabaseAssumption ==
    /\ NoWire \notin Wires /\ Strays \subseteq Wires /\ Workers \in Nat \ {0}

VARIABLES
    at,       \* where the activation of a wire is
    call,     \* where the call its await waits for is
    threw,    \* the wires whose call ended with an exception
    stopped,  \* the wires that were stopped
    lock,     \* who holds Connection::transactionMutex
    open,     \* who began the transaction SQLite is in, or NoWire
    spin,     \* the wire the mesh thread spins for, or NoWire
    left,     \* history: a COMMIT failed and nothing has ended its transaction
    joined    \* history: who ran a statement in another one's transaction

vars == <<at, call, threw, stopped, lock, open, spin, left, joined>>

Points == {"idle", "query", "locking", "begin", "body", "inner", "nested",
           "commit", "rollback"}
InTransaction(w) == at[w] \in {"begin", "body", "inner", "nested", "commit", "rollback"}

Init ==
    /\ at = [w \in Wires |-> "idle"] /\ call = [w \in Wires |-> "none"]
    /\ threw = {} /\ stopped = {} /\ joined = {}
    /\ lock = NoWire /\ open = NoWire /\ spin = NoWire /\ left = FALSE

-----------------------------------------------------------------------------
(***************************************************************************)
(* The mesh thread.  It ticks any wire, unless it spins in the await of a  *)
(* wire that was stopped or has failed.                                    *)
(***************************************************************************)
Ticked(w) == spin \in {NoWire, w}

\* Mutant: the exception of the last call is not forgotten.
Moves_Throws(w, p, c) ==
    /\ at' = [at EXCEPT ![w] = p]
    /\ call' = [call EXCEPT ![w] = c]
    /\ threw' = threw

Moves(w, p, c) ==
    /\ at' = [at EXCEPT ![w] = p]
    /\ call' = [call EXCEPT ![w] = c]
    /\ threw' = threw \ {w}

\* Query::activate, RawQuery::activate.
Query(w) ==
    /\ spin = NoWire /\ at[w] = "idle"
    /\ Moves(w, "query", "queued")
    /\ UNCHANGED <<stopped, lock, open, spin, left, joined>>

\* Transaction::activate, which suspends until it gets the lock.
Transaction(w) ==
    /\ spin = NoWire /\ at[w] = "idle" /\ w \notin Strays
    /\ Moves(w, "locking", "none")
    /\ UNCHANGED <<stopped, lock, open, spin, left, joined>>

TryLock(w) ==
    /\ spin = NoWire /\ at[w] = "locking" /\ lock = NoWire
    /\ lock' = w
    /\ Moves(w, "begin", "queued")
    /\ UNCHANGED <<stopped, open, spin, left, joined>>

\* A query of the transaction.
Inner(w) ==
    /\ spin = NoWire /\ at[w] = "body"
    /\ Moves(w, "inner", "queued")
    /\ UNCHANGED <<stopped, lock, open, spin, left, joined>>

\* A Transaction inside the transaction tries a lock its own wire holds.
Nest(w) ==
    /\ spin = NoWire /\ at[w] = "body"
    /\ Moves(w, "nested", "none")
    /\ UNCHANGED <<stopped, lock, open, spin, left, joined>>

\* Mutant: the lock is only for BEGIN and the body.
EndBody_Unlocks(w) ==
    /\ spin = NoWire /\ at[w] = "body"
    /\ Moves(w, "commit", "queued")
    /\ lock' = NoWire
    /\ UNCHANGED <<stopped, open, spin, left, joined>>

EndBody(w) ==
    /\ spin = NoWire /\ at[w] = "body"
    /\ Moves(w, "commit", "queued")
    /\ UNCHANGED <<stopped, lock, open, spin, left, joined>>

\* A shard of the body fails: from now on await does not suspend.
FailBody(w) ==
    /\ spin = NoWire /\ at[w] = "body"
    /\ Moves(w, "rollback", "queued")
    /\ spin' = w
    /\ UNCHANGED <<stopped, lock, open, left, joined>>

\* The activation is over; the lock goes with its frame.
Leave(w) ==
    /\ Moves(w, "idle", "none")
    /\ lock' = IF lock = w THEN NoWire ELSE lock
    /\ stopped' = stopped \ {w}
    /\ spin' = IF spin = w THEN NoWire ELSE spin
    /\ UNCHANGED <<open, left, joined>>

Stays == UNCHANGED <<lock, stopped, open, left, joined>>

\* await returns, or throws, once its call is complete.  In a wire that was
\* stopped the first shard of the body still runs, then comes the ROLLBACK; a
\* Maybe in the body may catch what a query throws, not so in a stopped wire.
Collect(w) ==
    /\ Ticked(w) /\ call[w] = "done"
    /\ \/ at[w] \in {"query", "commit", "rollback"} /\ Leave(w)
       \/ at[w] = "begin" /\ w \in threw /\ Leave(w)
       \/ /\ at[w] = "begin" /\ w \notin threw
          /\ IF w \in stopped
             THEN \E p \in {"inner", "rollback"} : Moves(w, p, "queued")
             ELSE Moves(w, "body", "none")
          /\ UNCHANGED spin /\ Stays
       \/ /\ at[w] = "inner"
          /\ \/ w \in threw \cup stopped /\ Moves(w, "rollback", "queued") /\ spin' = w
             \/ w \notin stopped /\ Moves(w, "body", "none") /\ UNCHANGED spin
          /\ Stays

\* shards::stop of a suspended wire.
Stop(w) ==
    /\ spin = NoWire /\ at[w] # "idle"
    /\ \/ at[w] = "locking" /\ Leave(w)
       \/ /\ at[w] \in {"body", "nested"}
          /\ Moves(w, "rollback", "queued")
          /\ stopped' = stopped \cup {w} /\ spin' = w
          /\ UNCHANGED <<lock, open, left, joined>>
       \/ /\ call[w] # "none"
          /\ stopped' = stopped \cup {w} /\ spin' = w
          /\ UNCHANGED <<at, call, threw, lock, open, left, joined>>

-----------------------------------------------------------------------------
(***************************************************************************)
(* The workers.                                                            *)
(***************************************************************************)
Busy == {w \in Wires : call[w] \in {"onlock", "exec"}}

\* Mutants: no statement takes the lock; each one does.
Take_NoLock(w) ==
    /\ call[w] = "queued" /\ Cardinality(Busy) < Workers
    /\ call' = [call EXCEPT ![w] = "exec"]
    /\ UNCHANGED <<at, threw, stopped, lock, open, spin, left, joined>>

Take_AlwaysLocks(w) ==
    /\ call[w] = "queued" /\ Cardinality(Busy) < Workers
    /\ call' = [call EXCEPT ![w] = "onlock"]
    /\ UNCHANGED <<at, threw, stopped, lock, open, spin, left, joined>>

\* A worker takes the call; a statement outside of a transaction blocks the
\* worker until it has the lock of transactions.
Take(w) ==
    /\ call[w] = "queued" /\ Cardinality(Busy) < Workers
    /\ call' = [call EXCEPT ![w] = IF at[w] = "query" /\ w \notin Strays
                                   THEN "onlock" ELSE "exec"]
    /\ UNCHANGED <<at, threw, stopped, lock, open, spin, left, joined>>

Lock(w) ==
    /\ call[w] = "onlock" /\ lock = NoWire
    /\ lock' = w
    /\ call' = [call EXCEPT ![w] = "exec"]
    /\ UNCHANGED <<at, threw, stopped, open, spin, left, joined>>

Done(w, ok) ==
    /\ call' = [call EXCEPT ![w] = "done"]
    /\ threw' = IF ok THEN threw ELSE threw \cup {w}

\* A statement that is neither of the next three.
Statement(w, ok) ==
    /\ call[w] = "exec" /\ at[w] \in {"query", "inner"}
    /\ lock' = IF at[w] = "query" /\ w \notin Strays THEN NoWire ELSE lock
    /\ joined' = IF open \in {NoWire, w} \/ left THEN joined ELSE joined \cup {w}
    /\ Done(w, ok)
    /\ UNCHANGED <<at, stopped, open, spin, left>>

Begin(w) ==
    /\ call[w] = "exec" /\ at[w] = "begin"
    /\ open' = IF open = NoWire THEN w ELSE open
    /\ Done(w, open = NoWire)
    /\ UNCHANGED <<at, stopped, lock, spin, left, joined>>

\* COMMIT may fail, with SQLITE_BUSY for one, and leave the transaction open.
Commit(w, ok) ==
    /\ call[w] = "exec" /\ at[w] = "commit"
    /\ open' = IF ok THEN NoWire ELSE open
    /\ left' = ~ok
    /\ Done(w, ok)
    /\ UNCHANGED <<at, stopped, lock, spin, joined>>

Rollback(w) ==
    /\ call[w] = "exec" /\ at[w] = "rollback"
    /\ open' = NoWire
    /\ Done(w, TRUE)
    /\ UNCHANGED <<at, stopped, lock, spin, left, joined>>

Executes(w) == Begin(w) \/ Rollback(w) \/ \E ok \in BOOLEAN : Statement(w, ok) \/ Commit(w, ok)

Next == \E w \in Wires :
    \/ Query(w) \/ Transaction(w) \/ TryLock(w) \/ Inner(w) \/ Nest(w)
    \/ EndBody(w) \/ FailBody(w) \/ Collect(w) \/ Stop(w)
    \/ Take(w) \/ Lock(w) \/ Executes(w)

Spec == Init /\ [][Next]_vars

Fairness == \A w \in Wires :
    /\ SF_vars(Collect(w)) /\ SF_vars(EndBody(w))
    /\ SF_vars(Take(w)) /\ WF_vars(Executes(w))

FairSpec == Spec /\ Fairness
-----------------------------------------------------------------------------
\* The calls: their exception is there only when they are done, and only a
\* statement outside of a transaction blocks its worker.
TypeOK ==
    /\ at \in [Wires -> Points]
    /\ call \in [Wires -> {"none", "queued", "onlock", "exec", "done"}]
    /\ threw \subseteq {w \in Wires : call[w] = "done"}
    /\ \A w \in Wires : call[w] = "onlock" => at[w] = "query"
    /\ stopped \subseteq Wires /\ joined \subseteq Wires
    /\ lock \in Wires \cup {NoWire} /\ open \in Wires \cup {NoWire}
    /\ spin \in Wires \cup {NoWire} /\ left \in BOOLEAN

\* The transaction SQLite is in belongs to a wire that is inside its
\* DB.Transaction and holds the lock, whatever fails or is stopped, but for
\* the one a failed COMMIT left behind.
OpenIsLocked == open # NoWire /\ ~left => lock = open /\ InTransaction(open)

\* No statement runs in the transaction of another wire, but those of wires
\* that were composed inside of a transaction and run outside of it.
Isolated == joined \subseteq Strays

\* What a transaction promises to the wires that share the database.
TransactionsAreApart == OpenIsLocked /\ Isolated

\* A transaction comes to an end, by COMMIT, ROLLBACK or a BEGIN that fails.
\* It does not only if every worker is blocked by a query that waits for the
\* transaction, if the mesh spins for such a query, or if it nests another one.
Starved == Cardinality({w \in Wires : at[w] = "query" /\ call[w] = "onlock"}) = Workers
SpinsOnLock == spin # NoWire /\ at[spin] = "query" /\ call[spin] = "onlock"
Stuck(w) == Starved \/ SpinsOnLock \/ at[w] = "nested"
TransactionsEnd == \A w \in Wires \ Strays :
    InTransaction(w) ~> (~InTransaction(w) \/ []Stuck(w))
=============================================================================
