----------------------------- MODULE Statements -----------------------------
(***************************************************************************)
(* mysqlpp::statement and mysqlpp::result as the routes use them, on one   *)
(* connection of the pool and one request after another: preparing and     *)
(* binding, executing, the result sets on the wire, the buffers of the     *)
(* columns, and who deletes what.                                          *)
(*                                                                         *)
(* An object is known by a number, in the order of its creation.  A        *)
(* statement holds a handle of the C API, its MYSQL_STMT, and a result     *)
(* one, its metadata; handles counts how often each has been closed.       *)
(* A column is 8 bytes wide; a value is its low byte and what is above.    *)
(* bind() tells the statement where mysql_stmt_fetch has to put the        *)
(* columns, and get() reads the buffers of the result: two references to   *)
(* a buffer, known by its number, which the code has to keep the same.     *)
(***************************************************************************)
EXTENDS Integers, Sequences, FiniteSets, SequencesExt

CONSTANTS
    Scripts,        \* what the routes do: sequences of steps
    RowSets,        \* bound: the rows a SELECT may find, sequences of values
    MaxRequests     \* bound: requests on the connection

\* A column as a route reads it, and the steps of routes.
Values == [low : Int, high : Int]
QueryKinds == {"select", "call", "call_unknown"}
Steps ==
    [op : {"param", "execute", "query", "fetch", "each", "fetch_proc"}]
    \cup [op : {"prepare"}, kind : QueryKinds \cup {"insert", "missing"}, params : Nat]
    \cup [op : {"num_rows"}, leave : BOOLEAN] \cup [op : {"get64", "get32"}, loop : BOOLEAN]

\* A query of statement kind k at position i: one with rows, and what a procedure
\* sends after its rows is read at once.
Queryable(s, i, k) ==
    /\ k \in QueryKinds
    /\ k # "select" => i < Len(s) /\ s[i + 1].op = "fetch_proc"

Prepared(s, j, i) == \E m \in j .. i - 1 : s[m].op = "prepare"

\* How the routes use the API, which checks none of it, when the last statement is of
\* that kind and may have been queried: a statement is prepared before it is used, a query
\* made of it before rows are read, and a fetch is followed by the reading of a column.
WellUsed(s, kind, queried) ==
    \A i \in DOMAIN s :
        /\ s[i].op \in {"param", "execute", "query"} => kind # "none" \/ Prepared(s, 1, i)
        /\ s[i].op \in {"num_rows", "fetch", "each", "fetch_proc", "get64", "get32"} =>
              \/ queried /\ ~Prepared(s, 1, i)
              \/ \E j \in 1 .. i - 1 : s[j].op = "query" /\ ~Prepared(s, j, i)
        /\ s[i].op \in {"fetch", "each"} => i < Len(s) /\ s[i + 1].op \in {"get64", "get32"}
        /\ s[i].op = "query" =>
              /\ ~Prepared(s, 1, i) => Queryable(s, i, kind)
              /\ \A j \in 1 .. i - 1 :
                    s[j].op = "prepare" /\ ~Prepared(s, j + 1, i) => Queryable(s, i, s[j].kind)

ASSUME ScriptsAssumption == Scripts \subseteq Seq(Steps) /\ \A s \in Scripts : WellUsed(s, "none", FALSE)
ASSUME RowsAssumption == RowSets \subseteq Seq(Values)
ASSUME RequestsAssumption == MaxRequests \in Nat

VARIABLES
    script,     \* the steps the route has left
    pc,         \* "route", "clear", "idle", or "undefined" after a double delete
    objects,    \* statements and results, deleted ones too
    statements, results,    \* the lists of the connection
    stmt, rs,   \* the unique_ptrs of the route, 0 if empty
    handles,    \* how often each handle has been closed
    wire,       \* result sets the server has sent and nobody has read
    cursor,     \* the statement rs reads: its rows, the last one fetched, the buffer bound
    columns,    \* the buffer of rs
    buffers,    \* what is in each
    got,        \* what the route read last, and what it should have (history)
    in_sync,    \* no command was sent before the results of the last (history)
    requests

rowvars == <<cursor, columns, buffers>>
vars == <<script, pc, objects, statements, results, stmt, rs, handles, wire, rowvars, got, in_sync, requests>>

NoValue == [low |-> 0, high |-> 0]
Status == [kind |-> "status", rows |-> <<>>]
RowSet(rows) == [kind |-> "rows", rows |-> rows]
NoRead == [value |-> NoValue, row |-> NoValue, wide |-> TRUE]
NoCursor == [rows |-> <<>>, current |-> NoValue, bind |-> 0]

Init ==
    /\ script = <<>> /\ pc = "idle"
    /\ objects = <<>> /\ statements = <<>> /\ results = <<>>
    /\ stmt = 0 /\ rs = 0 /\ handles = <<>>
    /\ cursor = NoCursor /\ columns = 0 /\ buffers = <<>>
    /\ wire = <<>> /\ got = NoRead /\ in_sync = TRUE /\ requests = 0

\* scoped_db: the objects of earlier requests do not matter any more.
Begin ==
    /\ pc = "idle" /\ requests < MaxRequests
    /\ requests' = requests + 1
    /\ script' \in Scripts
    /\ pc' = "route"
    /\ objects' = <<>> /\ handles' = <<>> /\ got' = NoRead
    /\ cursor' = NoCursor /\ columns' = 0 /\ buffers' = <<>>
    /\ UNCHANGED <<statements, results, stmt, rs, wire, in_sync>>

\* The route has a step to do, and goes on with the next.
Step(op) == pc = "route" /\ script # <<>> /\ Head(script).op = op
Continue == script' = Tail(script) /\ UNCHANGED <<pc, requests>>

\* An exception leaves the route.
Leave == script' = <<>> /\ UNCHANGED <<pc, requests>>

\* The handle of a deleted object is closed once more.  A null pointer is not
\* deleted, and mysql_free_result does nothing for a null handle.
Deleted(closed, object) ==
    IF object = 0 \/ objects[object].handle = 0 THEN closed
    ELSE [closed EXCEPT ![objects[object].handle] = @ + 1]

\* mysql_stmt_close cancels what is pending or unread of a statement's results.
Flushed(object) == IF object = 0 THEN wire ELSE <<>>

-----------------------------------------------------------------------------
(* statement                                                               *)

\* statement::statement with its count of parameters, none bound.
NewStatement(prepared, handle) ==
    [handle |-> handle, kind |-> prepared.kind, params |-> prepared.params, bound |-> 0]

\* prepare(): the constructor succeeds, the connection lists the object and
\* stmt.reset() deletes the one before.
Prepare ==
    /\ Step("prepare") /\ wire = <<>> /\ Head(script).kind # "missing"
    /\ objects' = Append(objects, NewStatement(Head(script), Len(handles) + 1))
    /\ statements' = Append(statements, Len(objects) + 1)
    /\ stmt' = Len(objects) + 1
    /\ handles' = Append(Deleted(handles, stmt), 0)
    /\ Continue
    /\ UNCHANGED <<results, rs, wire, rowvars, got, in_sync>>

\* stmt_init or stmt_prepare fails, which they do if the results of the last command
\* are unread or the table is not there: the constructor closes what it has opened and throws.
PrepareFails ==
    /\ Step("prepare")
    /\ in_sync' = (in_sync /\ wire = <<>>)
    /\ \E initialised \in BOOLEAN : handles' = IF initialised THEN Append(handles, 1) ELSE handles
    /\ Leave
    /\ UNCHANGED <<objects, statements, results, stmt, rs, wire, rowvars, got>>

\* param(): get_bind throws if there are more values than parameters.
Param ==
    /\ Step("param")
    /\ IF objects[stmt].bound >= objects[stmt].params
       THEN Leave /\ UNCHANGED objects
       ELSE Continue /\ objects' = [objects EXCEPT ![stmt].bound = @ + 1]
    /\ UNCHANGED <<statements, results, stmt, rs, handles, wire, rowvars, got, in_sync>>

\* What the server sends for a statement of that kind.  A procedure that was
\* rolled back has no rows.
Answers(kind) ==
    CASE kind = "select" -> {<<RowSet(rows)>> : rows \in RowSets}
      [] kind = "call" -> {<<RowSet(<<v>>), Status>> : v \in UNION {Range(rows) : rows \in RowSets}} \cup {<<Status>>}
      [] kind = "call_unknown" -> {<<RowSet(<<>>), Status>>}

Execute ==
    /\ Step("execute")
    /\ in_sync' = (in_sync /\ wire = <<>>)
    /\ Continue
    /\ UNCHANGED <<objects, statements, results, stmt, rs, handles, wire, rowvars, got>>

\* mysql_stmt_bind_param or mysql_stmt_execute fails, in execute() or query().
ExecuteFails ==
    /\ Step("execute") \/ Step("query")
    /\ in_sync' = (in_sync /\ wire = <<>>)
    /\ Leave
    /\ UNCHANGED <<objects, statements, results, stmt, rs, handles, wire, rowvars, got>>

-----------------------------------------------------------------------------
(* result                                                                  *)

\* result::result of the statement that was executed.
NewResult(statement, handle) == [statement EXCEPT !.handle = handle]

\* bind(): a new buffer of zeroes, of which the statement is told.
Bind(rows) ==
    /\ columns' = Len(buffers) + 1 /\ buffers' = Append(buffers, NoValue)
    /\ cursor' = [rows |-> rows, current |-> NoValue, bind |-> Len(buffers) + 1]

\* query(): the statement is executed, result::result has metadata, binds the
\* columns and stores the rows of the first set; rs.reset() deletes the one before.
Query ==
    /\ Step("query")
    /\ in_sync' = (in_sync /\ wire = <<>>)
    /\ \E sets \in Answers(objects[stmt].kind) :
        /\ Head(sets).kind = "rows"
        /\ wire' = Tail(sets)
        /\ Bind(Head(sets).rows)
    /\ objects' = Append(objects, NewResult(objects[stmt], Len(handles) + 1))
    /\ results' = Append(results, Len(objects) + 1)
    /\ rs' = Len(objects) + 1
    /\ handles' = Append(Deleted(handles, rs), 0)
    /\ Continue
    /\ UNCHANGED <<statements, stmt, got>>

\* There is no metadata, or the columns cannot be bound or the rows stored: the
\* constructor frees the metadata it has and throws, and rs is what it was.
QueryFails ==
    /\ Step("query")
    /\ in_sync' = (in_sync /\ wire = <<>>)
    /\ \E sets \in Answers(objects[stmt].kind) :
        /\ IF Head(sets).kind = "rows"
           THEN wire' = sets /\ handles' = Append(handles, 1)
           ELSE wire' = Tail(sets) /\ UNCHANGED handles
    /\ Leave
    /\ UNCHANGED <<objects, statements, results, stmt, rs, rowvars, got>>

\* mysql_stmt_fetch puts the n-th of the rows that are left into the bound buffer.
FetchRow(n) ==
    /\ cursor' = [cursor EXCEPT !.rows = SubSeq(@, n + 1, Len(@)), !.current = cursor.rows[n]]
    /\ buffers' = [buffers EXCEPT ![cursor.bind] = cursor.rows[n]]
    /\ UNCHANGED columns

\* num_rows() of the stored set, which the routes ask before they fetch: some return
\* if there are rows, some if there are none.
NumRows ==
    /\ Step("num_rows")
    /\ IF Head(script).leave = (cursor.rows # <<>>) THEN Leave ELSE Continue
    /\ UNCHANGED <<objects, statements, results, stmt, rs, handles, wire, rowvars, got, in_sync>>

\* fetch(): the next row; or no data, and the route goes on after its loop; or an
\* error, which is taken for a row and leaves the buffers as they are.
Fetch ==
    /\ Step("fetch") \/ Step("each")
    /\ \/ cursor.rows # <<>> /\ Continue /\ FetchRow(1)
       \/ /\ cursor.rows = <<>>
          /\ script' = SubSeq(script, 3, Len(script)) /\ UNCHANGED <<pc, requests, rowvars>>
       \/ Continue /\ UNCHANGED rowvars
    /\ UNCHANGED <<objects, statements, results, stmt, rs, handles, wire, got, in_sync>>

\* The row that stays in a buffer of zeroes after n rows have been fetched into it.
LastOf(n) == IF n = 0 THEN NoValue ELSE cursor.rows[n]

\* Seeded fault: the columns get a new buffer, and the statement is not told of it.
DrainUnbound(n) ==
    /\ columns' = Len(buffers) + 1
    /\ buffers' = Append([buffers EXCEPT ![cursor.bind] = LastOf(n)], NoValue)
    /\ cursor' = [cursor EXCEPT !.rows = <<>>, !.current = LastOf(n)]

\* bind() once more, then a loop over mysql_stmt_fetch, which ends after n rows: all
\* of them, or fewer if one cannot be fetched.
Drain(n) ==
    /\ columns' = Len(buffers) + 1 /\ buffers' = Append(buffers, LastOf(n))
    /\ cursor' = [rows |-> <<>>, current |-> LastOf(n), bind |-> Len(buffers) + 1]

\* Seeded fault: the status after the rows of a procedure stays on the wire.
FetchProcOneSet ==
    /\ Step("fetch_proc")
    /\ \E n \in 0 .. Len(cursor.rows) : Drain(n)
    /\ objects' = [objects EXCEPT ![rs].handle = Len(handles) + 1]
    /\ handles' = Append(Deleted(handles, rs), 0)
    /\ Continue
    /\ UNCHANGED <<statements, results, stmt, rs, wire, got, in_sync>>

\* fetch(true): new metadata, the rows and the set after them; true, even without a
\* row.
FetchProc ==
    /\ Step("fetch_proc")
    /\ \E n \in 0 .. Len(cursor.rows) : Drain(n)
    /\ objects' = [objects EXCEPT ![rs].handle = Len(handles) + 1]
    /\ handles' = Append(Deleted(handles, rs), 0)
    /\ wire' = IF wire = <<>> THEN wire ELSE Tail(wire)
    /\ Continue
    /\ UNCHANGED <<statements, results, stmt, rs, got, in_sync>>

\* Seeded fault: the pointer to the metadata that was freed is kept until the new
\* one is there.
FetchProcFailsLate ==
    /\ Step("fetch_proc")
    /\ handles' = Deleted(handles, rs)
    /\ Leave
    /\ UNCHANGED <<objects, statements, results, stmt, rs, wire, rowvars, got, in_sync>>

\* There is no new metadata, and the result is left without any; or the columns
\* cannot be bound, and it has buffers that the statement does not know, or the next
\* set cannot be read.
FetchProcFails ==
    /\ Step("fetch_proc")
    /\ \/ /\ handles' = Deleted(handles, rs)
          /\ objects' = [objects EXCEPT ![rs].handle = 0]
          /\ UNCHANGED rowvars
       \/ /\ handles' = Append(Deleted(handles, rs), 0)
          /\ objects' = [objects EXCEPT ![rs].handle = Len(handles) + 1]
          /\ \/ columns' = Len(buffers) + 1 /\ buffers' = Append(buffers, NoValue) /\ UNCHANGED cursor
             \/ \E n \in 0 .. Len(cursor.rows) : Drain(n)
    /\ Leave
    /\ UNCHANGED <<statements, results, stmt, rs, wire, got, in_sync>>

\* set_value: 8 bytes for 64 bits, and for fewer the first byte alone, a char, whose
\* sign the 3 bytes above it get.
SignBytes == 16777215
Wide(column) == column
Narrow(column) == [column EXCEPT !.high = IF column.low < 128 THEN 0 ELSE SignBytes]

\* get<T>(name) of a column that is not null.  A loop goes back to its fetch.
Get ==
    /\ Step("get64") \/ Step("get32")
    /\ LET wide == Head(script).op = "get64" IN
       got' = [value |-> IF wide THEN Wide(buffers[columns]) ELSE Narrow(buffers[columns]),
               row |-> cursor.current, wide |-> wide]
    /\ script' = IF Head(script).loop THEN <<[op |-> "each"]>> \o script ELSE Tail(script)
    /\ UNCHANGED <<pc, requests, objects, statements, results, stmt, rs, handles, wire, rowvars, in_sync>>

\* get<T>: no such column, or its value is null.
GetFails ==
    /\ Step("get64") \/ Step("get32")
    /\ Leave
    /\ UNCHANGED <<objects, statements, results, stmt, rs, handles, wire, rowvars, got, in_sync>>

-----------------------------------------------------------------------------
(* The end of a route                                                      *)

\* ~rs_ptr and ~stmt_ptr.
Pointers ==
    /\ pc = "route" /\ script = <<>>
    /\ pc' = "clear"
    /\ handles' = Deleted(Deleted(handles, rs), stmt)
    /\ wire' = Flushed(stmt)
    /\ stmt' = 0 /\ rs' = 0
    /\ UNCHANGED <<script, objects, statements, results, rowvars, got, in_sync, requests>>

\* ~scoped_db, connection::clear(): everything in the lists is deleted, and all of
\* it has been deleted by the pointers: undefined, so that the process may end or the
\* connection may go back to the pool and serve another request.
Clear ==
    /\ pc = "clear"
    /\ \/ pc' = "idle"
       \/ (statements # <<>> \/ results # <<>>) /\ pc' = "undefined"
    /\ statements' = <<>> /\ results' = <<>>
    /\ UNCHANGED <<script, objects, stmt, rs, handles, wire, rowvars, got, in_sync, requests>>

Done ==
    /\ pc = "undefined" \/ (pc = "idle" /\ requests = MaxRequests)
    /\ UNCHANGED vars

Next ==
    \/ Begin \/ Prepare \/ PrepareFails \/ Param \/ Execute \/ ExecuteFails
    \/ Query \/ QueryFails \/ NumRows \/ Fetch \/ FetchProc \/ FetchProcFails \/ Get \/ GetFails
    \/ Pointers \/ Clear \/ Done

Spec == Init /\ [][Next]_vars

-----------------------------------------------------------------------------
(* Properties                                                              *)

Objects ==
    [handle : Nat, kind : QueryKinds \cup {"insert"}, params : Nat, bound : Nat]

\* The types of the variables.
TypeOK ==
    /\ script \in Seq(Steps) /\ pc \in {"idle", "route", "clear", "undefined"}
    /\ objects \in Seq(Objects) /\ statements \in Seq(Nat) /\ results \in Seq(Nat)
    /\ stmt \in 0 .. Len(objects) /\ rs \in 0 .. Len(objects) /\ handles \in Seq(Nat)
    /\ wire \in Seq([kind : {"rows", "status"}, rows : Seq(Values)])
    /\ cursor \in [rows : Seq(Values), current : Values, bind : Nat]
    /\ columns \in Nat /\ buffers \in Seq(Values)
    /\ got \in [value : Values, row : Values, wide : BOOLEAN]
    /\ in_sync \in BOOLEAN /\ requests \in 0 .. MaxRequests

\* What a route reads is the row its statement has fetched last: mysql_stmt_fetch
\* writes where get() reads, whatever was bound and bound again by results before and
\* by fetch(true).  A read of 64 bits gives the column; a narrower set_value gives its
\* first byte, which is the column only if that is below 128.
RowAsStored ==
    /\ got.wide => got.value = got.row
    /\ ~got.wide => got.value.low = got.row.low /\ (got.row \in [low : 0 .. 127, high : {0}] => got.value = got.row)

\* When the route's pointers are gone each MYSQL_STMT and each metadata the route ever
\* opened has been closed exactly once, whichever call failed and whatever reset()
\* replaced: none leaks, and none is closed twice before connection::clear() runs.
HandlesClosed == pc = "clear" => \A h \in 1 .. Len(handles) : handles[h] = 1

\* No command goes out while a result set of the one before is unread: the set that
\* a procedure sends after its rows is taken by fetch(true), and a statement that an
\* exception left half read is closed before the connection serves another request.
InSync == in_sync
=============================================================================
