--------------------------- MODULE ConnectionPool ---------------------------
(***************************************************************************)
(* The connections to Postgres: src/src/config/db.ts.  query and queryOne  *)
(* borrow a client of the pool for one statement; withTransaction borrows  *)
(* one until its callback has ended, and rolls back when it throws.        *)
(* Callers wait in the order they came, and without a limit, as the pool   *)
(* sets no connectionTimeoutMillis.                                        *)
(*                                                                         *)
(* Some callbacks call the pool again while they hold a client:            *)
(* createSinglePaycheck and the edit of a paycheck for rates, caps and     *)
(* payment methods, the invoice handlers for the client's name.  Several   *)
(* such statements of one callback are modelled as one.  Before it, some   *)
(* wait for a lock with their client in hand; one lock is enough here, the *)
(* employee's advisory lock or an invoice's row.                           *)
(***************************************************************************)
EXTENDS Integers, FiniteSets, Sequences

CONSTANTS
  PoolSize,     \* max of the pool
  Statements,   \* callers of query and queryOne
  Transactions, \* callers of withTransaction
  Nested,       \* whose callback calls the pool again
  Contending,   \* whose callback first takes the lock
  NoCall

Calls == Statements \cup Transactions

ASSUME PoolAssumption == PoolSize \in Nat \ {0}
ASSUME CallsAssumption ==
  /\ IsFiniteSet(Calls) /\ NoCall \notin Calls
  /\ Statements \cap Transactions = {}
  /\ Nested \subseteq Transactions /\ Contending \subseteq Transactions

VARIABLES
  step,   \* of each caller
  queue,  \* the pool's pending queue
  owner   \* who holds the lock

poolVars == <<step, queue, owner>>

-----------------------------------------------------------------------------
\* Those with a client, with two, and those who wait with a client in hand.
Borrowing == {"statement", "locking", "working", "asking", "writing"}
CallSteps == {"idle", "connecting", "querying"} \cup Borrowing

At(steps) == {c \in Calls : step[c] \in steps}
InUse == Cardinality(At(Borrowing)) + 2 * Cardinality(At({"querying"}))
Free == InUse < PoolSize

PoolTypeOK ==
  /\ step \in [Calls -> CallSteps]
  /\ queue \in Seq(Calls)
  /\ owner \in Transactions \cup {NoCall}

PoolInit ==
  /\ step = [c \in Calls |-> "idle"]
  /\ queue = <<>>
  /\ owner = NoCall

Moves(c, from, to) == step[c] = from /\ step' = [step EXCEPT ![c] = to]
Waits(c) == queue' = Append(queue, c)

-----------------------------------------------------------------------------
\* pool.query, or pool.connect of withTransaction.
Connect(c) ==
  /\ Moves(c, "idle", "connecting")
  /\ Waits(c)
  /\ UNCHANGED owner

\* What a caller does with the client it waited for.
Entered(c) == IF c \in Nested THEN "working" ELSE "writing"
Begun(c) ==
  CASE step[c] = "asking" -> "querying"
    [] step[c] = "connecting" /\ c \in Statements -> "statement"
    [] step[c] = "connecting" /\ c \in Contending -> "locking"
    [] OTHER -> Entered(c)

Grant ==
  /\ queue # <<>> /\ Free
  /\ step' = [step EXCEPT ![Head(queue)] = Begun(Head(queue))]
  /\ queue' = Tail(queue)
  /\ UNCHANGED owner

Finish(c) ==
  /\ Moves(c, "statement", "idle")
  /\ UNCHANGED <<queue, owner>>

\* pg_advisory_xact_lock or SELECT ... FOR UPDATE, held to the end.
Lock(c) ==
  /\ owner = NoCall
  /\ Moves(c, "locking", Entered(c))
  /\ owner' = c
  /\ UNCHANGED queue

\* The callback calls queryOne of the module instead of its own client's.
Ask(c) ==
  /\ Moves(c, "working", "asking")
  /\ Waits(c)
  /\ UNCHANGED owner

Answer(c) ==
  /\ Moves(c, "querying", "writing")
  /\ UNCHANGED <<queue, owner>>

StillLocked(c) == owner                                              \* mutation
Unlocked(c) == IF owner = c THEN NoCall ELSE owner

Commit(c) ==
  /\ Moves(c, "writing", "idle")
  /\ owner' = Unlocked(c)
  /\ UNCHANGED queue

\* The callback, or the statement it waits for, throws: ROLLBACK, and the
\* finally that releases the client.
PoolRollBack(c) ==
  /\ Moves(c, "working", "idle") \/ Moves(c, "querying", "idle")
  /\ owner' = Unlocked(c)
  /\ UNCHANGED queue

Work(c) == Finish(c) \/ Ask(c) \/ Answer(c) \/ Commit(c) \/ PoolRollBack(c)

PoolNext == Grant \/ \E c \in Calls : Connect(c) \/ Lock(c) \/ Work(c)

\* The pool serves its queue, statements end, callbacks go on, and Postgres
\* gives a lock in the order it was asked for.
PoolFairness ==
  /\ WF_poolVars(Grant)
  /\ \A c \in Calls : WF_poolVars(Work(c)) /\ SF_poolVars(Lock(c))

PoolSpec == PoolInit /\ [][PoolNext]_poolVars /\ PoolFairness

-----------------------------------------------------------------------------
(***************************************************************************)
(* Properties                                                              *)
(***************************************************************************)
CanGoOn(c) ==
  \/ step[c] \in {"statement", "working", "querying", "writing"}
  \/ step[c] = "locking" /\ owner = NoCall
Standstill == queue # <<>> /\ ~Free /\ \A c \in Calls : ~CanGoOn(c)

\* Only a nested query brings the pool to a stop: calls wait, no client is free and
\* nobody who has one goes on only when each client is held by a transaction that
\* waits for a second one, or for the lock of one that does.  No lock is left behind
\* by a transaction that committed or threw, however many there are.
OnlyNestingStops ==
  Standstill =>
    \A c \in At(Borrowing) :
      step[c] = "asking" \/ (owner # NoCall /\ step[owner] = "asking")

\* Fewer of the transactions that wait with a client in hand than clients.
Room == Cardinality({c \in Nested \cup Contending : step[c] \notin {"idle", "connecting"}})
          < PoolSize

\* If that is so for good, every call ends, statements, nested transactions and
\* those that wait for the lock alike.
EveryCallEnds == <>[]Room => \A c \in Calls : step[c] = "connecting" ~> step[c] = "idle"

\* accounting.routes.ts, lines 1148-1149: "the second call's lock acquisition
\* blocks until the first commits".  Refuted without room: the holder of the lock
\* waits for a client, which those that wait for the lock hold.
SecondCallGetsTheLock == \A c \in Contending : step[c] = "locking" ~> owner = c
=============================================================================
