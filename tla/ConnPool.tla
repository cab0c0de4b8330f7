------------------------------ MODULE ConnPool ------------------------------
(***************************************************************************)
(* The MySQL connection pool (dbconn_pool), the guard object a route works  *)
(* through (scoped_db) and the spinlock between the threads.  One action   *)
(* per step another thread can interleave with: every access to the shared *)
(* vector `pool' and to the lock word is a step of its own.                *)
(*                                                                         *)
(* A connection is identified with its heap address, which the allocator   *)
(* may hand out again after a delete.  How long a connection has waited in *)
(* the pool, and so whether `diff >= wait_timeout_sec', is left open: the  *)
(* released time passes through the static buffer of std::localtime, which *)
(* several threads write.                                                  *)
(***************************************************************************)
EXTENDS Integers, Sequences, FiniteSets, SequencesExt

CONSTANTS
    Threads,    \* the threads that run the io_service
    Conns,      \* heap addresses of mysqlpp::connection objects
    PoolSize,   \* cfg "pool_size"
    NoConn      \* no pointer

ASSUME PoolSizeAssumption == PoolSize \in Nat
ASSUME ThreadsAssumption == IsFiniteSet(Threads)
ASSUME NoConnAssumption == NoConn \notin Conns
\* Every thread can hold one connection besides a full pool.
ASSUME ConnsAssumption ==
    IsFiniteSet(Conns) /\ Cardinality(Conns) >= PoolSize + Cardinality(Threads)

VARIABLES
    pool,     \* the vector of idle connections, taken and returned at its back
    state_,   \* the spinlock's word; it does not record an owner
    pc,       \* pc[t]: where thread t is in get_dbconn, its work, ~scoped_db
    dbconn,   \* dbconn[t]: the pointer thread t works with
    heap,     \* heap[c]: "free", or the pooled flag of the object at c
    link,     \* link[c]: the server still answers on connection c
    busy,     \* busy[c]: c's lists of statements and results are not empty
    boot,     \* progress of main: fill_pool, serving, destruction
    lost      \* history: connections of the pool deleted and not replaced

vars == <<pool, state_, pc, dbconn, heap, link, busy, boot, lost>>

Init ==
    /\ pool = <<>>
    /\ state_ = "unlocked"
    /\ pc = [t \in Threads |-> "idle"]
    /\ dbconn = [t \in Threads |-> NoConn]
    /\ heap = [c \in Conns |-> "free"]
    /\ link = [c \in Conns |-> FALSE]
    /\ busy = [c \in Conns |-> FALSE]
    /\ boot = "filling"
    /\ lost = 0

Goto(t, from, to) ==
    /\ pc[t] = from
    /\ pc' = [pc EXCEPT ![t] = to]

\* new mysqlpp::connection at address c: connected, with empty lists.
New(c, kind) ==
    /\ heap[c] = "free"
    /\ heap' = [heap EXCEPT ![c] = kind]
    /\ link' = [link EXCEPT ![c] = TRUE]
    /\ busy' = [busy EXCEPT ![c] = FALSE]

\* ~connection: clear(), mysql_close(), and the address is free again.
Delete(c) ==
    /\ heap' = [heap EXCEPT ![c] = "free"]
    /\ link' = [link EXCEPT ![c] = FALSE]
    /\ busy' = [busy EXCEPT ![c] = FALSE]

\* mysql_ping, without automatic reconnection.
Ping(c) == link[c]

-----------------------------------------------------------------------------
(* main: database::init fills the pool before any thread runs.             *)

FillPush ==
    /\ boot = "filling" /\ Len(pool) < PoolSize
    /\ \E c \in Conns : New(c, "pooled") /\ pool' = Append(pool, c)
    /\ UNCHANGED <<state_, pc, dbconn, boot, lost>>

\* The configuration lacks a key, pool_size is 0, or ping failed on the
\* connection just made, which is deleted: init_pool or fill_pool returns
\* false, and database::init deletes the pool.
FillFails ==
    /\ boot = "filling" /\ (PoolSize = 0 \/ Len(pool) < PoolSize)
    /\ boot' = "failed"
    /\ UNCHANGED <<pool, state_, pc, dbconn, heap, link, busy, lost>>

\* connect() throws: main leaves with the exception, the pool is not deleted.
FillThrows ==
    /\ boot = "filling" /\ Len(pool) < PoolSize
    /\ boot' = "threw"
    /\ UNCHANGED <<pool, state_, pc, dbconn, heap, link, busy, lost>>

FillDone ==
    /\ boot = "filling" /\ PoolSize > 0 /\ Len(pool) = PoolSize
    /\ boot' = "ready"
    /\ UNCHANGED <<pool, state_, pc, dbconn, heap, link, busy, lost>>

\* ~dbconn_pool: after fill_pool failed, or at the end of main, when
\* server::run has joined the threads.
Destroy ==
    /\ boot = "failed" \/ (boot = "ready" /\ \A t \in Threads : pc[t] = "idle")
    /\ boot' = "destroyed"
    /\ pool' = <<>>
    /\ heap' = [c \in Conns |-> IF c \in Range(pool) THEN "free" ELSE heap[c]]
    /\ link' = [c \in Conns |-> IF c \in Range(pool) THEN FALSE ELSE link[c]]
    /\ busy' = [c \in Conns |-> IF c \in Range(pool) THEN FALSE ELSE busy[c]]
    /\ UNCHANGED <<state_, pc, dbconn, lost>>

-----------------------------------------------------------------------------
(* The constructor of scoped_db: get_dbconn.                               *)

GetDbconn(t) ==
    /\ boot = "ready"
    /\ Goto(t, "idle", "lock_get")
    /\ UNCHANGED <<pool, state_, dbconn, heap, link, busy, boot, lost>>

\* Seeded fault: the result of the exchange is not tested.
LockUntested(t, from, to) ==
    /\ state_' = "locked"
    /\ Goto(t, from, to)
    /\ UNCHANGED <<pool, dbconn, heap, link, busy, boot, lost>>

\* The exchange that finds `unlocked'; one that finds `locked' changes nothing.
Lock(t, from, to) ==
    /\ state_ = "unlocked"
    /\ state_' = "locked"
    /\ Goto(t, from, to)
    /\ UNCHANGED <<pool, dbconn, heap, link, busy, boot, lost>>

Unlock(t, from, to) ==
    /\ state_' = "unlocked"
    /\ Goto(t, from, to)
    /\ UNCHANGED <<pool, dbconn, heap, link, busy, boot, lost>>

LockGet(t) == Lock(t, "lock_get", "back")

\* Seeded fault: the early return leaves the spinlock locked.
FindEmptyStillLocked(t) ==
    /\ pool = <<>>
    /\ Goto(t, "back", "connect_unpooled")
    /\ UNCHANGED <<pool, state_, dbconn, heap, link, busy, boot, lost>>

FindEmpty(t) ==
    /\ pool = <<>>
    /\ Goto(t, "back", "unlock_empty")
    /\ UNCHANGED <<pool, state_, dbconn, heap, link, busy, boot, lost>>

ReadBack(t) ==
    /\ pool # <<>>
    /\ Goto(t, "back", "pop")
    /\ dbconn' = [dbconn EXCEPT ![t] = Last(pool)]
    /\ UNCHANGED <<pool, state_, heap, link, busy, boot, lost>>

PopBack(t) ==
    /\ pool # <<>>
    /\ Goto(t, "pop", "unlock_get")
    /\ pool' = Front(pool)
    /\ UNCHANGED <<state_, dbconn, heap, link, busy, boot, lost>>

UnlockEmpty(t) == Unlock(t, "unlock_empty", "connect_unpooled")

UnlockGet(t) == Unlock(t, "unlock_get", "probe")

\* Seeded fault: connect() with its default argument, for the fallback too.
ConnectAlwaysPooled(t) ==
    /\ Goto(t, "connect_unpooled", "holding")
    /\ \E c \in Conns : New(c, "pooled") /\ dbconn' = [dbconn EXCEPT ![t] = c]
    /\ UNCHANGED <<pool, state_, boot, lost>>

ConnectUnpooled(t) ==
    /\ Goto(t, "connect_unpooled", "holding")
    /\ \E c \in Conns : New(c, "unpooled") /\ dbconn' = [dbconn EXCEPT ![t] = c]
    /\ UNCHANGED <<pool, state_, boot, lost>>

\* connect(false) throws; no scoped_db exists, so nothing is released.
ConnectThrows(t) ==
    /\ Goto(t, "connect_unpooled", "idle")
    /\ UNCHANGED <<pool, state_, dbconn, heap, link, busy, boot, lost>>

\* Released recently, or it answers the ping.
Reuse(t) ==
    \E expired \in BOOLEAN :
        /\ Goto(t, "probe", "holding")
        /\ ~expired \/ Ping(dbconn[t])
        /\ UNCHANGED <<pool, state_, dbconn, heap, link, busy, boot, lost>>

\* Waited too long and does not answer.
DeleteStale(t) ==
    /\ Goto(t, "probe", "reconnect")
    /\ ~Ping(dbconn[t])
    /\ Delete(dbconn[t])
    /\ dbconn' = [dbconn EXCEPT ![t] = NoConn]
    /\ UNCHANGED <<pool, state_, boot, lost>>

Reconnect(t) ==
    /\ Goto(t, "reconnect", "holding")
    /\ \E c \in Conns : New(c, "pooled") /\ dbconn' = [dbconn EXCEPT ![t] = c]
    /\ UNCHANGED <<pool, state_, boot, lost>>

\* connect() throws after the delete: the pool is one connection smaller.
ReconnectThrows(t) ==
    /\ Goto(t, "reconnect", "idle")
    /\ lost' = lost + 1
    /\ UNCHANGED <<pool, state_, dbconn, heap, link, busy, boot>>

-----------------------------------------------------------------------------
(* The route's work, and the destructor of scoped_db, which runs on every  *)
(* way out of the route, exceptions included.                              *)

\* prepare() or __query() appends to the connection's lists.
Query(t) ==
    /\ pc[t] = "holding"
    /\ busy' = [busy EXCEPT ![dbconn[t]] = TRUE]
    /\ UNCHANGED <<pool, state_, pc, dbconn, heap, link, boot, lost>>

\* Seeded fault: ~scoped_db does not clear the connection.
ClearNothing(t) ==
    /\ Goto(t, "holding", "release")
    /\ UNCHANGED <<pool, state_, dbconn, heap, link, busy, boot, lost>>

\* clear() deletes what is in the lists and empties them.  The routes wrap the
\* same statements and results in stmt_ptr and rs_ptr, which have deleted them
\* before; the double delete is outside this model, which takes the lists to
\* own their elements.
Clear(t) ==
    /\ Goto(t, "holding", "release")
    /\ busy' = [busy EXCEPT ![dbconn[t]] = FALSE]
    /\ UNCHANGED <<pool, state_, dbconn, heap, link, boot, lost>>

\* Seeded fault: the fallback connection is dropped, not deleted.
DropUnpooled(t) ==
    /\ Goto(t, "release", "idle")
    /\ heap[dbconn[t]] = "unpooled"
    /\ dbconn' = [dbconn EXCEPT ![t] = NoConn]
    /\ UNCHANGED <<pool, state_, heap, link, busy, boot, lost>>

DeleteUnpooled(t) ==
    /\ Goto(t, "release", "idle")
    /\ heap[dbconn[t]] = "unpooled"
    /\ Delete(dbconn[t])
    /\ dbconn' = [dbconn EXCEPT ![t] = NoConn]
    /\ UNCHANGED <<pool, state_, boot, lost>>

SetReleased(t) ==
    /\ Goto(t, "release", "lock_put")
    /\ heap[dbconn[t]] = "pooled"
    /\ UNCHANGED <<pool, state_, dbconn, heap, link, busy, boot, lost>>

LockPut(t) == Lock(t, "lock_put", "push")

PushBack(t) ==
    /\ Goto(t, "push", "unlock_put")
    /\ pool' = Append(pool, dbconn[t])
    /\ dbconn' = [dbconn EXCEPT ![t] = NoConn]
    /\ UNCHANGED <<state_, heap, link, busy, boot, lost>>

UnlockPut(t) == Unlock(t, "unlock_put", "idle")

-----------------------------------------------------------------------------
\* The server or the network drops a connection, at any moment.
LinkDown(c) ==
    /\ link[c]
    /\ link' = [link EXCEPT ![c] = FALSE]
    /\ UNCHANGED <<pool, state_, pc, dbconn, heap, busy, boot, lost>>

\* The process has left main.
Terminated ==
    /\ boot \in {"threw", "destroyed"}
    /\ UNCHANGED vars

Step(t) ==
    \/ GetDbconn(t) \/ LockGet(t) \/ FindEmpty(t) \/ ReadBack(t)
    \/ PopBack(t) \/ UnlockEmpty(t) \/ UnlockGet(t)
    \/ ConnectUnpooled(t) \/ ConnectThrows(t)
    \/ Reuse(t) \/ DeleteStale(t) \/ Reconnect(t) \/ ReconnectThrows(t)
    \/ Query(t) \/ Clear(t) \/ DeleteUnpooled(t) \/ SetReleased(t)
    \/ LockPut(t) \/ PushBack(t) \/ UnlockPut(t)

Next ==
    \/ FillPush \/ FillFails \/ FillThrows \/ FillDone \/ Destroy
    \/ \E t \in Threads : Step(t)
    \/ \E c \in Conns : LinkDown(c)
    \/ Terminated

Spec == Init /\ [][Next]_vars

\* The control points between a successful exchange and the store that
\* unlocks.
Critical == {"back", "unlock_empty", "pop", "unlock_get", "push", "unlock_put"}

-----------------------------------------------------------------------------
(* Properties                                                              *)

\* The control points at which dbconn[t] is a connection t alone may use.
Owning == {"unlock_get", "probe", "holding", "release", "lock_put", "push"}

PCs == {"idle", "lock_get", "back", "unlock_empty", "connect_unpooled",
        "pop", "unlock_get", "probe", "reconnect", "holding", "release",
        "lock_put", "push", "unlock_put"}

\* The types of the variables.
TypeOK ==
    /\ pool \in Seq(Conns)
    /\ state_ \in {"locked", "unlocked"}
    /\ pc \in [Threads -> PCs]
    /\ dbconn \in [Threads -> Conns \cup {NoConn}]
    /\ heap \in [Conns -> {"free", "pooled", "unpooled"}]
    /\ link \in [Conns -> BOOLEAN]
    /\ busy \in [Conns -> BOOLEAN]
    /\ boot \in {"filling", "failed", "threw", "ready", "destroyed"}
    /\ lost \in Nat

\* The lock word alone keeps get_dbconn and release_dbconn apart: it is set
\* exactly while some thread is in a critical section, and at most one is.
\* A path that forgot to unlock, or unlocked twice, breaks it.
MutualExclusion ==
    /\ (state_ = "locked") <=> (\E t \in Threads : pc[t] \in Critical)
    /\ \A s, t \in Threads : pc[s] \in Critical /\ pc[t] \in Critical => s = t

\* What the route relies on: the connection it works with exists (it was not
\* deleted under it), is not in the pool and is nobody else's, whichever of
\* the pool's paths (popped, reconnected, opened as a fallback) it came by.
ExclusiveUse ==
    \A t \in Threads : pc[t] \in Owning =>
        /\ dbconn[t] \in Conns
        /\ heap[dbconn[t]] # "free"
        /\ dbconn[t] \notin Range(pool)
        /\ \A s \in Threads : pc[s] \in Owning /\ dbconn[s] = dbconn[t] => s = t

\* Every pointer in the vector is a live connection of the pool, appears
\* once, and carries no statement or result of an earlier request.
PoolSound ==
    /\ \A i \in 1 .. Len(pool) : heap[pool[i]] = "pooled" /\ ~busy[pool[i]]
    /\ \A i, j \in 1 .. Len(pool) : pool[i] = pool[j] => i = j

\* Every connection object is reachable: it is in the pool, or some thread
\* will release it.  In particular none is left when the pool is destroyed.
NoLeak ==
    \A c \in Conns : heap[c] # "free" =>
        \/ c \in Range(pool)
        \/ \E t \in Threads : pc[t] \in Owning /\ dbconn[t] = c

\* The threads that will bring a connection back to the pool.
Borrowers ==
    {t \in Threads :
        \/ pc[t] = "reconnect"
        \/ pc[t] \in Owning /\ heap[dbconn[t]] = "pooled"}

\* While serving, connections in the vector, borrowed ones and the ones lost
\* to failed reconnections add up to pool_size: no path through get_dbconn
\* and release_dbconn grows or drains the pool by itself.
Conservation ==
    boot = "ready" => Len(pool) + Cardinality(Borrowers) + lost = PoolSize

\* With pool_size at least the number of threads, the fallback connection
\* outside the pool is opened only after a reconnection failed.
FallbackOnlyAfterLoss ==
    (PoolSize >= Cardinality(Threads) /\ lost = 0) =>
        \A t \in Threads : pc[t] # "unlock_empty" /\ pc[t] # "connect_unpooled"

\* push_back never exceeds the capacity fill_pool gave the vector, so it
\* neither reallocates nor throws while the spinlock is held.
WithinCapacity == Len(pool) <= PoolSize

-----------------------------------------------------------------------------
(* The inductive invariant: what the properties above need besides         *)
(* themselves.                                                             *)

\* Between pool.back() and pool.pop_back() nobody touches the vector.
PopReads ==
    \A t \in Threads : pc[t] = "pop" => pool # <<>> /\ dbconn[t] = Last(pool)

\* What was popped, and what is about to be pushed, belongs to the pool.
Kinds ==
    \A t \in Threads : pc[t] \in {"unlock_get", "probe", "lock_put", "push"} =>
        heap[dbconn[t]] = "pooled"

\* Only the route itself leaves objects in the connection's lists.
Clean ==
    \A t \in Threads : pc[t] \in Owning \ {"holding"} => ~busy[dbconn[t]]

\* Threads run between fill_pool and the destruction of the pool.
Quiet == boot # "ready" => \A t \in Threads : pc[t] = "idle"

\* Nothing is lost before the threads run.
NothingLostYet == boot = "filling" => lost = 0

\* Between pool.empty() and the unlock nobody touches the vector.
EmptyStays == \A t \in Threads : pc[t] = "unlock_empty" => pool = <<>>

IInv ==
    /\ TypeOK /\ MutualExclusion /\ ExclusiveUse /\ PoolSound /\ NoLeak
    /\ PopReads /\ Kinds /\ Clean /\ Quiet

-----------------------------------------------------------------------------
(* The pool implements ResourcePool: a connection is idle while it is in   *)
(* the vector, and leased from pop_back to push_back or delete.            *)

LeasedConn == [t \in Threads |-> IF pc[t] \in Owning THEN dbconn[t] ELSE NoConn]

Abstract == INSTANCE ResourcePool WITH idle <- Range(pool), leased <- LeasedConn

ImplementsResourcePool == Abstract!ASpec
=============================================================================
