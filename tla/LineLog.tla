------------------------------ MODULE LineLog ------------------------------
(***************************************************************************)
(* What the logger promises to the threads that log, without jobs, streams *)
(* or directories: lines are written in the order in which they were       *)
(* accepted, each once, to one log that is cut into archives; an archive   *)
(* is never changed, and the log closes with nothing left to write.        *)
(***************************************************************************)
EXTENDS Sequences, Functions

CONSTANTS Lines, Names

VARIABLES
    pending,    \* the lines accepted and not yet written, oldest first
    current,    \* the lines of the log since its last archive
    archives,   \* a function from the names of the archives to their lines
    closed      \* the log has been closed

lvars == <<pending, current, archives, closed>>

Known == Range(pending) \cup Range(current) \cup UNION {Range(archives[f]) : f \in DOMAIN archives}

LInit ==
    /\ pending = <<>> /\ current = <<>>
    /\ archives = [f \in {} |-> <<>>]
    /\ closed = FALSE

\* A line of its own is handed over.
Accept(l) ==
    /\ ~closed /\ l \notin Known
    /\ pending' = Append(pending, l)
    /\ UNCHANGED <<current, archives, closed>>

\* The oldest line is written.
Write ==
    /\ ~closed /\ pending # <<>>
    /\ current' = Append(current, Head(pending))
    /\ pending' = Tail(pending)
    /\ UNCHANGED <<archives, closed>>

\* What has been written gets a name that no archive has, and the log starts anew.
Cut(f) ==
    /\ ~closed /\ f \notin DOMAIN archives
    /\ archives' = [g \in DOMAIN archives \cup {f} |-> IF g = f THEN current ELSE archives[g]]
    /\ current' = <<>>
    /\ UNCHANGED <<pending, closed>>

Close ==
    /\ ~closed /\ pending = <<>>
    /\ closed' = TRUE
    /\ UNCHANGED <<pending, current, archives>>

LNext ==
    \/ \E l \in Lines : Accept(l)
    \/ Write
    \/ \E f \in Names : Cut(f)
    \/ Close

LSpec == LInit /\ [][LNext]_lvars
=============================================================================
