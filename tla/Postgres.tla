------------------------------ MODULE Postgres ------------------------------
(***************************************************************************)
(* The networked engine (src/db/postgres.ts) and the migrations run over   *)
(* it (src/db/migrate.ts): a pool of connections in each process, the      *)
(* retried transactions of its writers, and processes that boot at the     *)
(* same time and migrate one schema under an advisory lock.                *)
(*                                                                         *)
(* A transaction is a sequence of statements, each of which locks a row    *)
(* key until the transaction ends.  A migration is one too: it locks the   *)
(* catalogue and inserts its id.  The server is PostgreSQL: it breaks      *)
(* deadlocks, and finds out late that a process is gone.                   *)
(***************************************************************************)
EXTENDS Integers, FiniteSets, FiniteSetsExt, Sequences

CONSTANTS
    Procs,       \* server processes on one archive
    Writers,     \* transactions of the ingest paths
    HomeOf,      \* the process of each writer
    KeysOf,      \* the row keys each writer's statements lock, in order
    PoolMax,     \* DATABASE_POOL_MAX of each process
    Last,        \* the migrations are 1 .. Last
    MaxRetries,  \* maxTransactionRetries
    MaxDrops,    \* bound: connections that drop
    MaxCrashes,  \* bound: processes that crash
    None

ASSUME PostgresAssumption ==
    /\ IsFiniteSet(Procs)
    /\ HomeOf \in [Writers -> Procs]
    /\ DOMAIN KeysOf = Writers
    /\ PoolMax \in [Procs -> Nat \ {0}]
    /\ Last \in Nat /\ MaxRetries \in Nat /\ MaxDrops \in Nat /\ MaxCrashes \in Nat
    /\ Writers \cap Procs = {} /\ {None, "gone"} \cap (Procs \cup Writers) = {}

(* A process is its own migrator; a migration locks the catalogue, key 0.  *)
Tasks == Procs \cup Writers
ProcOf(x) == IF x \in Procs THEN x ELSE HomeOf[x]
Catalogue == <<"catalogue">>
Keys == (UNION {{KeysOf[w][n] : n \in DOMAIN KeysOf[w]} : w \in Writers}) \cup {Catalogue}

\* Sessions on the server: all the pools full, and those of crashed processes.
Conns == 1 .. (SumFunctionOnSet(PoolMax, Procs) * (MaxCrashes + 1))

VARIABLES
    proc,      \* where each process's boot stands
    pending,   \* the migrations it has still to apply
    locker,    \* the process that holds the advisory lock
    applied,   \* schema_migrations
    surprised, \* a crashed process's migration committed after this one read
    task,      \* the transaction of each writer and migrator
    idle,      \* the idle connections of each pool
    open,      \* sessions in a transaction, as the server sees them
    locks,     \* the session that holds each row key
    orphans,   \* sessions of crashed processes
    drops, crashes

bootVars == <<proc, pending, locker, applied, surprised>>
poolVars == <<idle, open, locks>>
vars == <<bootVars, task, poolVars, orphans, drops, crashes>>

NoTask == [pc |-> "idle", conn |-> 0, stmt |-> 0, attempt |-> 0, error |-> "none", commits |-> 0]

Init ==
    /\ proc = [p \in Procs |-> "down"]
    /\ pending = [p \in Procs |-> {}]
    /\ locker = None
    /\ applied = {}
    /\ surprised = {}
    /\ task = [x \in Tasks |-> NoTask]
    /\ idle = [p \in Procs |-> {}]
    /\ open = {}
    /\ locks = [k \in Keys |-> 0]
    /\ orphans = {}
    /\ drops = 0 /\ crashes = 0

-----------------------------------------------------------------------------
(***************************************************************************)
(* The pool (pg.Pool).                                                     *)
(***************************************************************************)
InUse(p) == {task[x].conn : x \in {y \in Tasks : ProcOf(y) = p}} \ {0}
Sessions == (UNION {idle[p] \cup InUse(p) : p \in Procs}) \cup {o.conn : o \in orphans}
HasRoom(p) == idle[p] # {} \/ Cardinality(InUse(p)) < PoolMax[p]

(* An idle connection, or a new one. *)
Connection(p) == IF idle[p] # {} THEN Min(idle[p]) ELSE Min(Conns \ Sessions)

(* The locks that remain when session c gives its own up. *)
Without(c) == [k \in Keys |-> IF locks[k] = c THEN 0 ELSE locks[k]]

-----------------------------------------------------------------------------
(***************************************************************************)
(* transaction(): an attempt, and another.                                 *)
(***************************************************************************)
Statements(x) == IF x \in Procs THEN <<Catalogue>> ELSE KeysOf[x]
Become(x, r) == task' = [task EXCEPT ![x] = r]

(* pool.connect() and BEGIN. *)
Begin(x) ==
    LET p == ProcOf(x)  c == Connection(p) IN
    /\ task[x].pc = "connect"
    /\ HasRoom(p)
    /\ Become(x, [task[x] EXCEPT !.pc = "run", !.conn = c, !.stmt = 1])
    /\ idle' = [idle EXCEPT ![p] = @ \ {c}]
    /\ open' = open \cup {c}
    /\ UNCHANGED <<bootVars, locks, orphans, drops, crashes>>

(* The migration at hand; its DDL, or its id, is refused if it is applied. *)
AtHand(p) == Min(pending[p])
Duplicate(x) == x \in Procs /\ AtHand(x) \in applied

(***************************************************************************)
(* The next statement gets its row lock, or waits for it.                  *)
(***************************************************************************)
Statement(x) ==
    LET r == task[x]  k == Statements(x)[r.stmt] IN
    /\ r.pc = "run"
    /\ locks[k] \in {0, r.conn}
    /\ IF Duplicate(x)
       THEN /\ Become(x, [r EXCEPT !.pc = "rollback", !.error = "duplicate"])
            /\ locks' = Without(r.conn)
       ELSE /\ Become(x, [r EXCEPT !.stmt = @ + 1,
                                   !.pc = IF r.stmt = Len(Statements(x)) THEN "commit" ELSE "run"])
            /\ locks' = [locks EXCEPT ![k] = r.conn]
    /\ UNCHANGED <<bootVars, idle, open, orphans, drops, crashes>>

(* Task x waits for the lock that task y holds. *)
Blocks(y, x) ==
    task[x].pc = "run" /\ task[y].conn # 0 /\ y # x /\
        locks[Statements(x)[task[x].stmt]] = task[y].conn

InCycle(x) ==
    \E S \in SUBSET Tasks : x \in S /\ \A y \in S : \E z \in S : Blocks(z, y)

(***************************************************************************)
(* 40P01: the server aborts one of a cycle of waiting transactions.        *)
(***************************************************************************)
BreakDeadlock(x) ==
    /\ InCycle(x)
    /\ Become(x, [task[x] EXCEPT !.pc = "rollback", !.error = "deadlock"])
    /\ locks' = Without(task[x].conn)
    /\ UNCHANGED <<bootVars, idle, open, orphans, drops, crashes>>

(* What a commit of x leaves behind. *)
Applied(x) == IF x \in Procs THEN {AtHand(x)} ELSE {}

(***************************************************************************)
(* COMMIT, and the connection goes back to the pool.                       *)
(***************************************************************************)
Commit(x) ==
    LET r == task[x]  p == ProcOf(x) IN
    /\ r.pc = "commit"
    /\ applied' = applied \cup Applied(x)
    /\ Become(x, [r EXCEPT !.pc = "done", !.conn = 0, !.commits = @ + 1])
    /\ idle' = [idle EXCEPT ![p] = @ \cup {r.conn}]
    /\ open' = open \ {r.conn}
    /\ locks' = Without(r.conn)
    /\ UNCHANGED <<proc, pending, locker, surprised, orphans, drops, crashes>>

(***************************************************************************)
(* The connection drops under the transaction.  During COMMIT nobody tells *)
(* the client whether it took effect.                                      *)
(***************************************************************************)
Drop(x) ==
    LET r == task[x] IN
    /\ r.pc \in {"run", "commit"}
    /\ drops < MaxDrops
    /\ drops' = drops + 1
    /\ \E committed \in BOOLEAN :
          /\ committed => r.pc = "commit"
          /\ applied' = IF committed THEN applied \cup Applied(x) ELSE applied
          /\ Become(x, [r EXCEPT !.pc = "rollback", !.error = "lost",
                                 !.commits = IF committed THEN @ + 1 ELSE @])
    /\ open' = open \ {r.conn}
    /\ locks' = Without(r.conn)
    /\ UNCHANGED <<proc, pending, locker, surprised, idle, orphans, crashes>>

(***************************************************************************)
(* Every error retried, whatever it says about what was applied.           *)
(***************************************************************************)
RetryableAny(error) == error # "none"

(* RETRYABLE_CODES. *)
Retryable(error) == error = "deadlock"

(***************************************************************************)
(* One attempt too many.                                                   *)
(***************************************************************************)
AfterFailureOnceMore(r) ==
    IF Retryable(r.error) /\ r.attempt <= MaxRetries
    THEN [r EXCEPT !.pc = "sleep", !.conn = 0, !.attempt = @ + 1, !.error = "none"]
    ELSE [r EXCEPT !.pc = "thrown", !.conn = 0]

(* The loop of transaction() after a failed attempt. *)
AfterFailure(r) ==
    IF Retryable(r.error) /\ r.attempt < MaxRetries
    THEN [r EXCEPT !.pc = "sleep", !.conn = 0, !.attempt = @ + 1, !.error = "none"]
    ELSE [r EXCEPT !.pc = "thrown", !.conn = 0]

(***************************************************************************)
(* release() without a word on whether ROLLBACK worked.                    *)
(***************************************************************************)
ReleasedAnyway(p, c, broken) == [idle EXCEPT ![p] = @ \cup {c}]

(* release(broken): back to the pool, or destroyed. *)
Released(p, c, broken) == IF broken THEN idle ELSE [idle EXCEPT ![p] = @ \cup {c}]

(***************************************************************************)
(* ROLLBACK, which fails on a lost connection and may be lost itself; then *)
(* the session is over when the client hangs up.                           *)
(***************************************************************************)
Rollback(x) ==
    LET r == task[x]  p == ProcOf(x) IN
    /\ r.pc = "rollback"
    /\ \E broken \in BOOLEAN :
          /\ r.error = "lost" => broken
          /\ broken /\ r.error # "lost" => drops < MaxDrops
          /\ drops' = IF broken /\ r.error # "lost" THEN drops + 1 ELSE drops
          /\ idle' = Released(p, r.conn, broken)
          /\ open' = IF r.conn \in idle'[p] /\ broken THEN open ELSE open \ {r.conn}
    /\ Become(x, AfterFailure(r))
    /\ UNCHANGED <<bootVars, locks, orphans, crashes>>

(* The backoff is over. *)
Wake(x) ==
    /\ task[x].pc = "sleep"
    /\ Become(x, [task[x] EXCEPT !.pc = "connect"])
    /\ UNCHANGED <<bootVars, poolVars, orphans, drops, crashes>>

(* An ingest path calls transaction(). *)
Write(w) ==
    /\ task[w].pc = "idle"
    /\ proc[HomeOf[w]] = "up"
    /\ Become(w, [NoTask EXCEPT !.pc = "connect"])
    /\ UNCHANGED <<bootVars, poolVars, orphans, drops, crashes>>

-----------------------------------------------------------------------------
(***************************************************************************)
(* runMigrations, at boot.                                                 *)
(***************************************************************************)
Start(p) ==
    /\ proc[p] = "down"
    /\ proc' = [proc EXCEPT ![p] = "lock"]
    /\ UNCHANGED <<pending, locker, applied, surprised, task, poolVars, orphans, drops, crashes>>

(***************************************************************************)
(* The pending set read before the lock is held.                           *)
(***************************************************************************)
TakeLockLate(p) ==
    /\ proc[p] = "lock"
    /\ proc' = [proc EXCEPT ![p] = IF pending[p] # {} THEN "migrate" ELSE "read"]
    /\ pending' = [pending EXCEPT ![p] = (1 .. Last) \ applied]
    /\ IF pending[p] # {} THEN locker = None /\ locker' = p ELSE UNCHANGED locker
    /\ UNCHANGED <<applied, surprised, task, poolVars, orphans, drops, crashes>>

(***************************************************************************)
(* The lock taken on a connection of the pool.                             *)
(***************************************************************************)
TakeLockPooled(p) ==
    /\ proc[p] = "lock"
    /\ locker = None
    /\ HasRoom(p)
    /\ locker' = p
    /\ proc' = [proc EXCEPT ![p] = "read"]
    /\ Become(p, [NoTask EXCEPT !.conn = Connection(p)])
    /\ idle' = [idle EXCEPT ![p] = @ \ {Connection(p)}]
    /\ UNCHANGED <<pending, applied, surprised, open, locks, orphans, drops, crashes>>

(***************************************************************************)
(* pg_advisory_lock on a connection of its own: waits for its holder.      *)
(***************************************************************************)
TakeLock(p) ==
    /\ proc[p] = "lock"
    /\ locker = None
    /\ locker' = p
    /\ proc' = [proc EXCEPT ![p] = "read"]
    /\ UNCHANGED <<pending, applied, surprised, task, poolVars, orphans, drops, crashes>>

(* The applied ids, read over the pool. *)
ReadApplied(p) ==
    /\ proc[p] = "read"
    /\ HasRoom(p)
    /\ pending' = [pending EXCEPT ![p] = (1 .. Last) \ applied]
    /\ surprised' = surprised \ {p}
    /\ proc' = [proc EXCEPT ![p] = "migrate"]
    /\ UNCHANGED <<locker, applied, task, poolVars, orphans, drops, crashes>>

(* The next pending migration, in a transaction of its own. *)
Apply(p) ==
    /\ proc[p] = "migrate"
    /\ pending[p] # {}
    /\ task[p].pc = "idle"
    /\ Become(p, [NoTask EXCEPT !.pc = "connect"])
    /\ UNCHANGED <<bootVars, poolVars, orphans, drops, crashes>>

Migrated(p) ==
    /\ task[p].pc = "done"
    /\ pending' = [pending EXCEPT ![p] = @ \ {AtHand(p)}]
    /\ Become(p, NoTask)
    /\ UNCHANGED <<proc, locker, applied, surprised, poolVars, orphans, drops, crashes>>

(***************************************************************************)
(* A failed migration logged, and the server started all the same.         *)
(***************************************************************************)
BootedAnyway(p) ==
    /\ proc[p] = "migrate"
    /\ pending[p] = {} \/ task[p].pc = "thrown"
    /\ proc' = [proc EXCEPT ![p] = "up"]
    /\ locker' = None
    /\ UNCHANGED <<pending, applied, surprised, task, poolVars, orphans, drops, crashes>>

(* The run ends, well or not: the lock's session is closed. *)
Booted(p) ==
    /\ proc[p] = "migrate"
    /\ \/ pending[p] = {} /\ proc' = [proc EXCEPT ![p] = "up"]
       \/ task[p].pc = "thrown" /\ proc' = [proc EXCEPT ![p] = "failed"]
    /\ locker' = None
    /\ UNCHANGED <<pending, applied, surprised, task, poolVars, orphans, drops, crashes>>

-----------------------------------------------------------------------------
(***************************************************************************)
(* A process crashes.  The server notices at some later time that its      *)
(* sessions are gone; a COMMIT that was on its way may be carried out.     *)
(***************************************************************************)
Crash(p) ==
    LET lost == {x \in Tasks : ProcOf(x) = p /\ task[x].conn \in open} IN
    /\ proc[p] \notin {"down", "failed"}
    /\ crashes < MaxCrashes
    /\ crashes' = crashes + 1
    /\ proc' = [proc EXCEPT ![p] = "down"]
    /\ pending' = [pending EXCEPT ![p] = {}]
    /\ locker' = IF locker = p THEN "gone" ELSE locker
    /\ orphans' = orphans \cup
         {[conn |-> task[x].conn, commit |-> task[x].pc = "commit",
           applied |-> Applied(x)] : x \in lost}
    /\ task' = [x \in Tasks |-> IF ProcOf(x) # p THEN task[x] ELSE NoTask]
    /\ idle' = [idle EXCEPT ![p] = {}]
    /\ UNCHANGED <<applied, surprised, open, locks, drops>>

(* The server ends the session that held the advisory lock. *)
LockSessionEnds ==
    /\ locker = "gone"
    /\ locker' = None
    /\ UNCHANGED <<proc, pending, applied, surprised, task, poolVars, orphans, drops, crashes>>

(* The server ends an orphaned session, its COMMIT carried out or not. *)
SessionEnds(o) ==
    /\ o \in orphans
    /\ \E committed \in {FALSE, o.commit} :
          /\ applied' = IF committed THEN applied \cup o.applied ELSE applied
          /\ surprised' = IF committed /\ o.applied # {} THEN Procs ELSE surprised
    /\ orphans' = orphans \ {o}
    /\ open' = open \ {o.conn}
    /\ locks' = Without(o.conn)
    /\ UNCHANGED <<proc, pending, locker, task, idle, drops, crashes>>

-----------------------------------------------------------------------------
Go(x) == Begin(x) \/ Statement(x) \/ Commit(x) \/ Rollback(x) \/ Wake(x)
Boot(p) == Start(p) \/ TakeLock(p) \/ ReadApplied(p) \/ Apply(p) \/ Migrated(p) \/ Booted(p)

Next ==
    \/ \E x \in Tasks : Go(x) \/ BreakDeadlock(x) \/ Drop(x)
    \/ \E w \in Writers : Write(w)
    \/ \E p \in Procs : Boot(p) \/ Crash(p)
    \/ LockSessionEnds
    \/ \E o \in orphans : SessionEnds(o)

Spec == Init /\ [][Next]_vars

(***************************************************************************)
(* The event loop and the server go on with what they have begun; the pool *)
(* and the lock serve whoever waits, in the end; deadlock_timeout expires  *)
(* and dead sessions are noticed.                                          *)
(***************************************************************************)
LiveSpec ==
    /\ Spec
    /\ \A x \in Tasks : SF_vars(Go(x)) /\ WF_vars(BreakDeadlock(x))
    /\ \A p \in Procs : SF_vars(Boot(p))
    /\ WF_vars(LockSessionEnds)
    /\ WF_vars(\E o \in orphans : SessionEnds(o))

-----------------------------------------------------------------------------
TypeOK ==
    /\ proc \in [Procs -> {"down", "lock", "read", "migrate", "up", "failed"}]
    /\ pending \in [Procs -> SUBSET (1 .. Last)]
    /\ locker \in Procs \cup {None, "gone"}
    /\ applied \subseteq 1 .. Last
    /\ surprised \subseteq Procs
    /\ task \in [Tasks -> [pc : {"idle", "connect", "run", "commit", "rollback", "sleep", "done", "thrown"},
                           conn : Conns \cup {0}, stmt : Nat, attempt : 0 .. MaxRetries,
                           error : {"none", "deadlock", "lost", "duplicate"}, commits : Nat]]
    /\ idle \in [Procs -> SUBSET Conns]
    /\ open \subseteq Conns
    /\ locks \in [Keys -> Conns \cup {0}]

(***************************************************************************)
(* No connection is handed out in the middle of a transaction or to two    *)
(* callers, the pool stays within its maximum, and a row lock is held by a *)
(* session that is at work: a caller that waits or backs off holds nothing *)
(* (postgres.ts, #attempt and transaction).                                *)
(***************************************************************************)
PoolSound ==
    /\ \A p \in Procs : /\ idle[p] \cap open = {}
                        /\ idle[p] \cap InUse(p) = {}
                        /\ Cardinality(idle[p]) + Cardinality(InUse(p)) <= PoolMax[p]
    /\ \A x, y \in Tasks : task[x].conn = task[y].conn /\ task[x].conn # 0 => x = y
    /\ \A k \in Keys : locks[k] # 0 =>
          \/ \E x \in Tasks : task[x].conn = locks[k] /\ task[x].pc \in {"run", "commit"}
          \/ \E o \in orphans : o.conn = locks[k]

(***************************************************************************)
(* One call of transaction() takes effect at most once, however often it   *)
(* is retried and whatever the fate of its COMMIT; and a call that returns *)
(* took effect.                                                            *)
(***************************************************************************)
AppliedOnce ==
    \A x \in Tasks : /\ task[x].commits <= 1
                     /\ task[x].pc = "done" => task[x].commits = 1

(***************************************************************************)
(* Two instances that start together migrate one after the other: no boot  *)
(* fails on a migration that another has applied (migrate.ts), but for one *)
(* that a process committed from beyond its crash.                         *)
(***************************************************************************)
BootsInTurn ==
    \A p \in Procs : task[p].error = "duplicate" => p \in surprised

(***************************************************************************)
(* The schema a process serves is complete, and migrations are applied in  *)
(* the order of their ids, by however many processes and crashes.          *)
(***************************************************************************)
SchemaComplete ==
    /\ \A m \in applied : 1 .. m \subseteq applied
    /\ \A p \in Procs : proc[p] = "up" => applied = 1 .. Last

(***************************************************************************)
(* Every call of transaction() returns or throws and every boot ends, on   *)
(* any size of pool: in the end nothing waits for a connection, a row, the *)
(* lock or a retry.                                                        *)
(***************************************************************************)
EverythingEnds ==
    <>[] /\ \A w \in Writers : task[w].pc \in {"idle", "done", "thrown"}
         /\ \A p \in Procs : proc[p] \in {"down", "up", "failed"}
=============================================================================
