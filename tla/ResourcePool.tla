---------------------------- MODULE ResourcePool ----------------------------
(***************************************************************************)
(* What a connection pool promises to the request threads, without locks,  *)
(* vectors or heap addresses: every connection is absent, idle, or leased  *)
(* to exactly one thread, and a thread leases at most one at a time.  A    *)
(* connection changes hands only through the pool.                         *)
(***************************************************************************)
CONSTANTS Threads, Conns, NoConn

VARIABLES
    idle,    \* the connections waiting in the pool
    leased   \* leased[t]: the connection thread t works with, or NoConn

avars == <<idle, leased>>

Leased == {leased[t] : t \in Threads} \ {NoConn}

AInit ==
    /\ idle = {}
    /\ leased = [t \in Threads |-> NoConn]

\* A new connection joins the pool while it is being filled.
Add ==
    \E c \in Conns \ (idle \cup Leased) :
        /\ idle' = idle \cup {c}
        /\ UNCHANGED leased

\* A thread takes an idle connection.
Lease(t) ==
    \E c \in idle :
        /\ leased[t] = NoConn
        /\ idle' = idle \ {c}
        /\ leased' = [leased EXCEPT ![t] = c]

\* A thread opens a connection that did not exist.
Open(t) ==
    \E c \in Conns \ (idle \cup Leased) :
        /\ leased[t] = NoConn
        /\ leased' = [leased EXCEPT ![t] = c]
        /\ UNCHANGED idle

\* A thread gives its connection back to the pool.
Return(t) ==
    /\ leased[t] # NoConn
    /\ idle' = idle \cup {leased[t]}
    /\ leased' = [leased EXCEPT ![t] = NoConn]

\* A thread closes the connection it works with.
Discard(t) ==
    /\ leased[t] # NoConn
    /\ leased' = [leased EXCEPT ![t] = NoConn]
    /\ UNCHANGED idle

\* The pool is destroyed; nobody may still be working.
Close ==
    /\ Leased = {}
    /\ idle' = {}
    /\ UNCHANGED leased

ANext ==
    \/ Add
    \/ Close
    \/ \E t \in Threads : Lease(t) \/ Open(t) \/ Return(t) \/ Discard(t)

ASpec == AInit /\ [][ANext]_avars
=============================================================================
