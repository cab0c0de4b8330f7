---------------------------- MODULE MCStatements ----------------------------
(***************************************************************************)
(* The routes that use the database, as the steps they take on their       *)
(* connection.                                                             *)
(***************************************************************************)
EXTENDS Statements

Small == [low |-> 5, high |-> 0]
Large == [low |-> 200, high |-> 1]

MCRowSets == {<<>>, <<Small>>, <<Large, Small>>}

Do(op) == [op |-> op]
PrepareOf(kind, params) == [op |-> "prepare", kind |-> kind, params |-> params]
LeaveIf(rows) == [op |-> "num_rows", leave |-> rows]
Read64 == [op |-> "get64", loop |-> FALSE]
Read32 == [op |-> "get32", loop |-> FALSE]
Read64Loop == [op |-> "get64", loop |-> TRUE]

\* user auth: the name, then the name with the password.
SignIn == <<PrepareOf("select", 1), Do("param"), Do("query"), LeaveIf(FALSE), Do("fetch"), Read64,
            PrepareOf("select", 2), Do("param"), Do("param"), Do("query"), LeaveIf(FALSE)>>

\* user post: the name must be new, the next key, the row.
SignUp == <<PrepareOf("select", 1), Do("param"), Do("query"), LeaveIf(TRUE),
            PrepareOf("call", 1), Do("param"), Do("query"), Do("fetch_proc"), Read64,
            PrepareOf("insert", 2), Do("param"), Do("param"), Do("execute")>>

\* forum index: the count, then all rows.
Index == <<PrepareOf("select", 0), Do("query"), Do("fetch"), Read64,
           PrepareOf("select", 0), Do("query"), Do("each"), Read64Loop>>

\* forum post: the key of the table, read as 32 bits, and the row.  The script of the
\* database gives the shard neither the key nor the table.
Post(key, row) ==
    <<PrepareOf(key, 1), Do("param"), Do("query"), Do("fetch_proc"), Read32,
      PrepareOf(row, 2), Do("param"), Do("param"), Do("execute")>>

MCScripts == {SignIn, SignUp, Index, Post("call_unknown", "missing"), Post("call", "insert")}
=============================================================================
