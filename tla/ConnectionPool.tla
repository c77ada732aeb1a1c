--------------------------- MODULE ConnectionPool ---------------------------
(***************************************************************************)
(* The connection pool of the store: get_pool, which creates the pool and  *)
(* its schema on the first call, get_connection, which borrows one of its  *)
(* connections, and close_pool, on any number of threads of a process.     *)
(* get_pool looks at the module variable _pool without the lock, takes the *)
(* lock, looks again, and returns what the variable holds after all that.  *)
(* The database may refuse or lose any connection.                         *)
(***************************************************************************)
EXTENDS Naturals, FiniteSets

CONSTANTS
    Threads,
    NoThread,   \* the lock is free
    MaxSize,    \* _MAX_SIZE
    MaxCloses   \* bound on the calls of close_pool

ASSUME ThreadAssumption == NoThread \notin Threads
ASSUME SizeAssumption == MaxSize \in Nat \ {0} /\ MaxCloses \in Nat

VARIABLES
    pool,       \* _pool: the number of a pool, or None
    created,    \* how many pools were created so far
    open,       \* the pools that are open
    lock,       \* who holds _pool_lock
    schema,     \* the database has the schema
    failed,     \* history: creating the schema has failed once
    closes,     \* how often close_pool was called
    job         \* where each thread is, and what it holds

vars == <<pool, created, open, lock, schema, failed, closes, job>>

None == 0

Idle == [pc |-> "idle", uses |-> None, conn |-> None]

Init ==
    /\ pool = None /\ created = 0 /\ open = {}
    /\ lock = NoThread
    /\ schema = FALSE /\ failed = FALSE
    /\ closes = 0
    /\ job = [t \in Threads |-> Idle]

-----------------------------------------------------------------------------
At(t, pc) == job[t].pc = pc
Become(t, j) == job' = [job EXCEPT ![t] = j]
Goto(t, pc) == Become(t, [job[t] EXCEPT !.pc = pc])

\* A connection of pool i is idle, or the pool may still open another one.
HasConnection(i) == Cardinality({t \in Threads : job[t].conn = i}) < MaxSize

Quiet == UNCHANGED <<pool, created, open, lock, schema, failed, closes>>

\* get_connection is called.
Call(t) == At(t, "idle") /\ Goto(t, "look") /\ Quiet

\* The fast path: "_pool is not None", without the lock.
Look(t) ==
    /\ At(t, "look")
    /\ Goto(t, IF pool # None THEN "return" ELSE "acquire")
    /\ Quiet

Acquire(t) ==
    /\ At(t, "acquire") /\ lock = NoThread
    /\ lock' = t
    /\ Goto(t, "recheck")
    /\ UNCHANGED <<pool, created, open, schema, failed, closes>>

\* Mutant of Recheck: a thread that found no pool creates one without a
\* second look.
RecheckNot(t) ==
    /\ At(t, "recheck") /\ created \in 0 .. MaxCloses
    /\ created' = created + 1
    /\ pool' = created + 1
    /\ open' = open \cup {created + 1}
    /\ Goto(t, "ensure")
    /\ UNCHANGED <<lock, schema, failed, closes>>

\* The second look.  The new pool is published before its schema is made.
Recheck(t) ==
    /\ At(t, "recheck")
    /\ IF pool # None
       THEN /\ lock' = NoThread
            /\ Goto(t, "return")
            /\ UNCHANGED <<pool, created, open>>
       ELSE /\ created' = created + 1
            /\ pool' = created + 1
            /\ open' = open \cup {created + 1}
            /\ Goto(t, "ensure")
            /\ UNCHANGED lock
    /\ UNCHANGED <<schema, failed, closes>>

\* The creator, too, has to get a connection; it keeps the lock while it waits.
BorrowForSchema(t) ==
    /\ At(t, "ensure") /\ HasConnection(pool)
    /\ Become(t, [job[t] EXCEPT !.pc = "commit", !.conn = pool])
    /\ Quiet

\* Mutant of EnsureSchema: an error is logged and ignored.
EnsureSchemaQuietly(t) ==
    /\ At(t, "commit")
    /\ schema' \in {schema, TRUE}
    /\ lock' = NoThread
    /\ Become(t, [Idle EXCEPT !.pc = "return"])
    /\ UNCHANGED <<pool, created, open, failed, closes>>

\* _ensure_schema commits; connection and lock are given back.
EnsureSchema(t) ==
    /\ At(t, "commit")
    /\ schema' = TRUE
    /\ lock' = NoThread
    /\ Become(t, [Idle EXCEPT !.pc = "return"])
    /\ UNCHANGED <<pool, created, open, failed, closes>>

\* Mutant of EnsureFails: the lock is not released on an exception.
EnsureFailsLocked(t) ==
    /\ job[t].pc \in {"ensure", "commit"}
    /\ failed' = TRUE
    /\ Become(t, Idle)
    /\ UNCHANGED <<pool, created, open, lock, schema, closes>>

\* No connection within the timeout, or an error of the database, which may
\* be about the answer to a commit only: get_pool raises, and the pool stays
\* where it is.
EnsureFails(t) ==
    /\ job[t].pc \in {"ensure", "commit"}
    /\ failed' = TRUE
    /\ schema' \in IF At(t, "commit") THEN {schema, TRUE} ELSE {schema}
    /\ lock' = NoThread
    /\ Become(t, Idle)
    /\ UNCHANGED <<pool, created, open, closes>>

\* "return _pool" reads the variable once more, and without the lock.
ReturnPool(t) ==
    /\ At(t, "return")
    /\ Become(t, [job[t] EXCEPT !.pc = "borrow", !.uses = pool])
    /\ Quiet

\* pool.connection() and SET search_path.
Borrow(t) ==
    /\ At(t, "borrow")
    /\ job[t].uses \in open /\ HasConnection(job[t].uses)
    /\ Become(t, [job[t] EXCEPT !.pc = "body", !.conn = job[t].uses])
    /\ Quiet

\* None has no connections, a closed pool raises PoolClosed, a busy one
\* PoolTimeout, and the database may be away.
BorrowFails(t) ==
    /\ At(t, "borrow")
    /\ Become(t, Idle)
    /\ Quiet

\* The statements of the caller end, well or with an exception, and the
\* connection goes back.
EndBody(t) ==
    /\ At(t, "body")
    /\ Become(t, Idle)
    /\ Quiet

-----------------------------------------------------------------------------
(* close_pool.                                                             *)

CallClose(t) ==
    /\ At(t, "idle") /\ closes < MaxCloses
    /\ closes' = closes + 1
    /\ Goto(t, "close")
    /\ UNCHANGED <<pool, created, open, lock, schema, failed>>

AcquireToClose(t) ==
    /\ At(t, "close") /\ lock = NoThread
    /\ IF pool # None
       THEN lock' = t /\ Goto(t, "closing")
       ELSE UNCHANGED lock /\ Become(t, Idle)
    /\ UNCHANGED <<pool, created, open, schema, failed, closes>>

\* _pool.close(): who waits for a connection of it gets PoolClosed.
ClosePool(t) ==
    /\ At(t, "closing")
    /\ open' = open \ {pool}
    /\ Goto(t, "reset")
    /\ UNCHANGED <<pool, created, lock, schema, failed, closes>>

\* _pool = None, and the lock is released.
ResetPool(t) ==
    /\ At(t, "reset")
    /\ pool' = None
    /\ lock' = NoThread
    /\ Become(t, Idle)
    /\ UNCHANGED <<created, open, schema, failed, closes>>

Step(t) ==
    \/ Look(t)
    \/ Acquire(t)
    \/ Recheck(t)
    \/ BorrowForSchema(t)
    \/ EnsureSchema(t)
    \/ EnsureFails(t)
    \/ ReturnPool(t)
    \/ Borrow(t)
    \/ BorrowFails(t)
    \/ EndBody(t)
    \/ AcquireToClose(t)
    \/ ClosePool(t)
    \/ ResetPool(t)

Next == \E t \in Threads : Call(t) \/ CallClose(t) \/ Step(t)

Spec == Init /\ [][Next]_vars

\* Threads are scheduled, waits for a connection have a timeout, and the
\* database answers or breaks the connection.
FairSpec == Spec /\ \A t \in Threads : WF_vars(Step(t))

-----------------------------------------------------------------------------
Critical == {"recheck", "ensure", "commit", "closing", "reset"}

\* Every variable has its type, and who is between taking and giving back the
\* lock holds it.
TypeOK ==
    /\ pool \in Nat /\ created \in Nat /\ open \subseteq 1 .. created
    /\ pool <= created
    /\ schema \in BOOLEAN /\ failed \in BOOLEAN /\ closes \in 0 .. MaxCloses
    /\ job \in [Threads -> [pc : {"idle", "look", "acquire", "return", "borrow", "body", "close"}
                                    \cup Critical,
                            uses : Nat, conn : Nat]]
    /\ lock \in Threads \cup {NoThread}
    /\ \A t \in Threads : job[t].pc \in Critical <=> lock = t

\* No pool is left open that nobody can close any more: threads that find no
\* pool at the same time create one between them, and what close_pool drops it
\* has closed (store/connection.py get_pool, close_pool).
OneOpenPool == open \subseteq {pool} \ {None}

\* As long as creating the schema never failed, a pool that is published
\* while nobody is at work on it has its schema, whoever created it and
\* whatever was closed before (store/connection.py get_pool).
PublishedHasSchema ==
    /\ pool # None /\ ~failed
    /\ \A t \in Threads : job[t].pc \notin {"ensure", "commit"}
    => schema

\* Every call of get_connection and of close_pool ends: nobody keeps the lock
\* after an exception, and no thread waits with the lock for a thread that
\* waits for the lock (store/connection.py get_pool, get_connection).
CallsEnd == \A t \in Threads : ~At(t, "idle") ~> At(t, "idle")

=============================================================================
