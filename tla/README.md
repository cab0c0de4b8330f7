# waspp: models, checks and proofs

waspp is an HTTP server framework in C++: a pool of threads runs a boost::asio
`io_service`, connections parse requests and answer them from files or routes,
routes use pools of MySQL connections, sessions live in signed cookies, and a
logger writes from a thread of its own. This directory holds TLA+ models of
those parts, TLC configurations that check them on small instances, and proofs
that TLAPS checks, of most of the safety properties, for every instance. `PROJECT.json`
lists the runs, the seeded faults each property is known to catch, the source
lines behind each definition, the findings, the hazards and the theorems.

Run a check with `tlc -config X.cfg MCModule`, the proofs of a
module with `tlapm XProofs.tla`.

## Inventory

Paths are relative to the repository's `src/`.

| Component | State | Operations | Interacts with |
|---|---|---|---|
| **Connection pool** `dbconn_pool`, `spinlock`, `database`, `mysqlpp::connection` | vector of idle connections, lock word; per connection: pooled flag, release time, lists of statements and results | `fill_pool`, `get_dbconn`, `release_dbconn`, `~dbconn_pool`, `scoped_db` | all request threads share it; the MySQL server drops links |
| **HTTP connection** `connection`, `connection_ssl` | socket, buffer, parser, request, response | `start`, `do_handshake`, `do_read`, `do_write` and their handlers | io_service threads, parser, request handler, client |
| **Request parser** `request_parser`, `request`, part of `utility` | automaton state; the request under construction | `parse` (any buffer boundary), `reset`, `parse_params`, `parse_cookies`, `parse_content` | called by `do_read` |
| **Request handler, router, response** | none of their own | `handle_request`, the table of routes, static responses | called by `do_read`; calls routes |
| **Session** `session` | none in the server: a signed cookie | construct (`load`, `create`, `update`), `put` | browser, routes |
| **User routes** `route_dir_user` | tables `users`, `unique_keys` per shard | `post` (sign up), `auth` (sign in), `signout` | connection pool, session |
| **Forum and performance routes** | table of posts | queries, pages, jsonp | connection pool, session |
| **Statements and results** `mysqlpp::statement`, `mysqlpp::result` | handles of the C API, bound buffers, the connection's lists of both | `prepare`, `param`, `execute`, `query`, `fetch`, `get`, `clear` | routes own them through `unique_ptr`, the connection through its lists |
| **Logger** | log file, its creation time, rotation, queue of jobs | `file`, `init`, `log`/`~log`, `write`, `rotate`, `~logger` | every thread posts; one thread writes |
| **Process** `main`, `server`, `server_ssl` | locals of main, io_service, threads, pending accept and signal wait | construct, init, run, accept, signals, join, destroy | everything |
| **Configuration** | settings | `init` | main |
| **Redis pool** `redis`, `redis_pool`, `scoped_rd` | vector of idle connections, lock word | `init`, `get_rdconn`, `release_rdconn` | users; no route takes a connection yet |
| **Blocking redis client** `redis3m`, `win/hiredis/hiredis.c`, `read.c` | output buffer, reader with its stack of tasks, error | `append`, `run`, `get_reply`, `get_replies` | redis server over a socket |
| **Asynchronous redis client** `win/hiredis/async.c`, `dict.c` | flags, lists of callbacks, dictionaries of subscriptions | `redisAsyncCommand`, `redisAsyncFree`, `redisAsyncDisconnect`, the event handlers | event loop, the user's callbacks, redis server |
| `url_conn`, `sds.c` | | | not modelled |

What is hard in it: accesses of several threads to the vector of the pool and
to the members of the logger; jobs and responses that arrive after the state
they were made from has changed; failures half-way (a connection deleted and
not replaced, an exception in a handler, a thread that cannot be created);
requests cut by the network anywhere; clocks compared at boundaries; routes
that read and then write the database without a transaction; replies that are
left behind on a connection that goes to the next user; callbacks that close
the object that is calling them; and the end of the process, with threads still
running. `PROJECT.json` lists each of these
at its line under `hazards`.

## Modules

| Module | Models | State and actions |
|---|---|---|
| `ResourcePool` | what a pool promises | `idle`, `leased`: a connection is absent, idle, or leased to one thread |
| `ConnPool` | `dbconn_pool.cpp`, `spinlock.hpp`, `scoped_db`, `mysqlpp::connection` | one action per access to `pool` or the lock word (`LockGet`, `ReadBack`, `PopBack`, `UnlockGet`, ...), the ways `connect()` throws, the route's work, `LinkDown` at any moment. Refines `ResourcePool` |
| `HttpConnection` | `connection.cpp`, `connection_ssl.cpp` | operations complete and are queued, threads take them, the strand holds them back; one action per outcome of a handler up to the operation it starts, then `Return` |
| `RequestData` | `request_parser.cpp`, codec in `utility.cpp` | pure functions: `Params`, `ParseCookies`, `ParseContent`, `PercentDecode` |
| `RequestHandler` | `request_handler.cpp`, `router.cpp`, `response.cpp`, `mime_types.cpp`, what the routes leave in a response | pure functions from a decoded request and an environment to the response; uses `RequestData` |
| `RequestParser` | `request_parser.hpp`, and its composition with the two above | one action per call of `parse`, per byte, `Decode`, and `Handle`, which answers the decoded request; one operator per group of automaton states |
| `Session` | `session.cpp`, the session's part of the routes | a browser with requests in flight; the server's actions are functions of the cookie a request brought |
| `Accounts` | `route_dir_user.cpp`, `sql/develop.sql` | one action per SQL statement of `post` and `auth`, on sharded tables |
| `Statements` | `mysqlpp_statement.cpp`, `mysqlpp_result.cpp`, the lists of `mysqlpp_connection.cpp` | a route is a script of calls; one action per call and per way it fails, then the `unique_ptr`s and `clear`; the buffers of columns, with what the statement and what the result knows of them |
| `LineLog` | what a logger promises | `pending`, `current`, `archives`: lines are written once, in the order in which they were accepted, to a log that is cut into archives |
| `Logger` | `logger.cpp` | callers' steps (`Log`, `Compare`, `PostRotate`, `PostWrite`) and the jobs of the logger's thread. Refines `LineLog` |
| `Lifecycle` | `main.cpp`, `server.cpp`, `server_ssl.cpp` | main's stages, the threads, accept, signals, clients |
| `RedisReader` | `win/hiredis/read.c`, reply objects of `hiredis.c` | pure functions of a reader: `Feed`, `ProcessItem`, `GetReply` and what they call |
| `RedisClient` | `redis_pool.cpp`, `redis3m.hpp`, the blocking half of `hiredis.c`; uses `RedisReader` | users' steps (`Take`, `Keep`, `Drop`, appending, writing, reading, `Release`), the server's answers, bytes cut anywhere |
| `Dict` | `win/hiredis/dict.c` | pure functions: find, replace, delete, growth and the order of iteration |
| `RedisAsync` | `win/hiredis/async.c`; uses `Dict` | a stack of functions in progress; one action per piece of a function between two calls of user code; the event loop, the user and the server |

`ConnPoolProofs`, `HttpConnectionProofs`, `RequestParserProofs`, `SessionProofs`,
`AccountsProofs`, `StatementsProofs`, `LoggerProofs` and `LifecycleProofs` hold the
theorems about the modules they are named after.

Each `MC<module>` gives the constants small values. Definitions marked "Seeded
fault" are mutated forms of the definition below them; no specification uses
them. They record which mistake a property is known to catch.

### Abstractions worth knowing

- **ConnPool.** A connection is its heap address, which may be reused after a
  delete. How long one has been idle is left open, because `std::localtime`
  shares a static buffer between threads. A route holds one connection of a pool
  at a time, as all routes do. Statements and results are reduced to "the
  connection's lists are not empty"; `Statements` has their life.
- **HttpConnection.** A request is two pieces, so a boundary can fall inside
  one, between two, or nowhere; the parser's answer to bytes that do not begin
  a request is any of those it can give. An exception that leaves a handler
  ends the process. A handler is one step up to the operation it starts, which is
  its last act (`connection.cpp:59`, `64`, `68`, `101`), and another to its return; in between
  the operation may complete and another thread may take it. Each connection has
  a strand of its own; asio may let connections share one, which only makes them
  wait for each other.
- **RequestParser, RequestData.** Bytes are classes of bytes, and words the code
  searches for are single bytes; the classes are those the code's tests tell
  apart. Numbers are Content-Lengths of at most two digits.
- **RequestHandler.** A content is the sequence of the pieces it is made of, and
  a Content-Length is the content whose size it is, so that a length taken
  before compression differs from one taken after. `Files` gives each file under
  doc_root the piece it is read as: the templates of the forum's pages are among
  them, as they are in `doc/`, so a guest can fetch one by its name. What a
  request meets outside itself (access lists, session, database, configuration) is an environment
  that may answer in every way.
- **Session.** A cookie is a session, "garbage" (the digest does not match) or
  "short" (too short for a digest); the digest is taken to be unforgeable. One
  address stands for address and user agent.
- **Accounts.** Names are different in the column's collation. `stmt->param(1)`
  binds a temporary that is gone when the statement runs, so the number of keys
  requested is any of `Amounts`, 0 included. `auth` looks on the shard of a parameter
  that a client may send or not: `key` is any name, or the empty string.
- **Logger.** A calendar with few minutes in an hour and hours in a day. Each
  read of a shared member is one step; torn reads are not modelled. No operation
  on a file fails: that the log cannot be opened (`logger.cpp:59`, `175`), after which
  lines are dropped, that `rename` throws out of the logger's thread (`169`), or that
  the test for an archive, which is whether it can be opened, fails for want of
  descriptors (`162-163`), is outside the model and what is shown of it.
- **Statements.** A column is 8 bytes, a value its low byte and the rest, which
  is what the 64-bit and the narrow `get` tell apart. `bind()` makes a buffer of
  zeroes and tells the statement of it; `mysql_stmt_fetch` writes the buffer the
  statement knows and `get` reads the one the result knows, so a bind that is
  missing or late shows. A `mysql_stmt_fetch` that fails with 1 is taken for a row,
  as `mysqlpp_result.cpp:133` does. `param` binds the address
  of a temporary, so what the server receives is not modelled: a SELECT finds
  any rows. The routes' `unique_ptr`s and `connection::clear` both delete what
  is in the lists: undefined, so the model either stops there or lets the
  connection go back and serve the next request. What a statement has left on the
  wire goes with it (`Flushed`: `mysql_stmt_close` cancels what is pending or unread);
  a request that ends without a statement leaves the wire as it is.
- **RedisReader, RedisClient.** Bytes are classes of bytes, a reply is a function
  from paths to nodes. A critical section of the pool is one step, which
  `ConnPool` justifies for the same code. The users come one after another
  (`Threads` has one element in the run), since what one leaves behind is what
  endangers the next. Out of memory may strike wherever an object of a reply
  is allocated and where a command is appended; that the input buffer cannot grow
  (`sdscatlen` in `redisReaderFeed`, `read.c:464-468`) is left out.
- **Dict, RedisAsync.** A callback is the number of its command. Flags are a set;
  `REDIS_IN_CALLBACK` is that a callback is on the stack. A regular command on a
  subscribed context is refused by the server with an error, of which it is known
  whose it is. `broken` records the rules of use the user has broken, which the library
  does not check: a command overtakes the answer to an UNSUBSCRIBE, something is
  unsubscribed that was not subscribed, a MONITOR shares its context. The properties
  say which of them they need; `Breakable` bounds which of them a run's user breaks.
  The context is never closed inside `onConnect` and `onDisconnect`, which run
  without the flag that would defer it.
- **Lifecycle.** A request is one handler that uses all services. SIGINT and
  SIGQUIT are SIGTERM.

## Runs

| Run | Instance | Shows |
|---|---|---|
| `ConnPool_pool` | 2 threads, pool of 2, 4 addresses (the most that can be in use) | `MutualExclusion`, `ExclusiveUse`, `PoolSound`, `NoLeak`, `Conservation`, refinement of `ResourcePool` |
| `HttpConnection_server` | 1 connection, 2 threads, 3 requests of all kinds, plain and TLS, patient and pipelining clients (no POST with Content-Length 0, see Findings) | `MatchedAnswers`, `OneHandler`, `ClosedForAReason`, `EveryRequestAnswered`, `Reclaimed` |
| `Logger_safe` | main and one more thread, 3 lines, 3 minutes, 2 minutes an hour, 2 hours a day | `NoLineLost`, `ShutdownCompletes`, refinement of `LineLog` (order of the lines, archives that stay) |
| `Lifecycle_run` | 2 threads, 2 clients, 1 failed accept, 2 signals | `ServicesOutliveThreads`, `AcceptsForever`, `StopHonoured` |
| `RequestParser_messages` | messages cut anywhere, answered in every environment; the short ones with every edit of one byte; all routes, files, compressed or not, paths with encoded and doubly encoded dots | `CompleteIsTrue`, `ReadAsSent`, `NothingLost`, `ServedUnderRoot`, `AnswerFramed`, `GuestsGetTemplatesOnly` |
| `Session_cookie` | 2 requests in flight, sessions of 2 s, 4 s in all | `IdleExpires`, `StaysSignedIn`, `SignOutHolds` |
| `Accounts_race` | 2 threads, 3 requests, 3 names on 2 shards, 2 passwords, sign-in with any parameter | `UniqueAccounts`, `SignUpTrue`, `SignInTrue` |
| `Statements_use` | 4 routes' scripts (one also with the table the schema lacks), 2 requests on a connection, 0 to 2 rows, values above and below one byte, any call fails | `RowAsStored`, `HandlesClosed`, `InSync` |
| `RedisClient_pool` | pool of 1, 2 addresses, pipelines of 2, 3 commands, replies of all types, nested, malformed and too deep | `MatchedReplies`, `ReplyAsSent`, `PoolSound`, `EveryCommandEnds` |
| `RedisAsync_context` | 3 commands of GET, MONITOR, SUBSCRIBE, UNSUBSCRIBE on 2 channels and a pattern, 1 message, failure anywhere; the user may overtake an UNSUBSCRIBE and unsubscribe what is not subscribed | `MatchedReplies`, `ContextSound`, `EveryCallbackRuns`, `DisconnectEnds` |
| `Logger_rotation` | hours of one minute | **violated**: `SkippedOnlyIfDone` |
| `Lifecycle_hup` | 2 signals | **violated**: `TermExits` |

Four more configurations reproduce deviations described below, and are not among the
runs of `PROJECT.json`: TLC finds `CompleteIsTrue` violated with `RequestParser_empty.cfg`,
`RefusalsPassed` with `RedisAsync_refusal.cfg`, `AssertionsHold` with `RedisAsync_careless.cfg`
and `OwnReplies` with `RedisAsync_monitor.cfg`.

Each module also states its `TypeOK`, which is part of the inductive invariant
where there are proofs.

### Why the bounds are enough

Two threads are the least that interleave; where a property is proved as well
(see Proofs), it holds for any number. The pool of two is emptied by a failed reconnection,
which makes the other thread take the fallback. Three requests on a connection
let the state of the first reach the third past a normal second one. Three
lines and three minutes let a rotation be requested twice, run late, and the
compared field come back to an old value. Four seconds hold two lifetimes of a
session of two. Two passes of a sign-up against one another and a sign-in
after them need three requests. Two requests on a connection let the second
meet what the first left on the wire: if closing a statement did not cancel its
results, `InSync` would fail in the second request after one that an exception
ended. Two rows are the least of which one
can be left unread. Three redis commands make a pipeline that fails and a user
after it; `StackSize` 3 and `DiscardAt` 6 stand for 9 and 1024, so that the
nesting limit and the discarding of consumed bytes are reached by short replies.
A table of initial size 1 grows at the second channel. An edited message differs in one byte, because
every state of the automaton looks at one byte.

### Fairness

- `ConnPool`: none. The spinlock is not fair to those who wait, and nothing is
  claimed for them.
- `HttpConnection`: threads take queued handlers and handlers return (the loop
  of `io_service::run`); the kernel completes an operation that can complete.
  Nothing is assumed of clients, which need not send, read on or leave.
- `Logger`: the logger's thread runs its queue, and `join` returns after it.
- `RedisClient`: the user's thread goes on, and a server that has a command
  answers it or closes the connection. `net.c` sets no read timeout for the pool,
  so a server that stays silent would hold its user for ever.
- `RedisAsync`: the event loop delivers events that are asked for and ready,
  callbacks return, and the server answers or closes. Nothing is assumed of what
  the user calls.
- `Lifecycle`: main and the threads run, and the kernel completes an accept
  for a queued client. Signals, clients and failures may or may not come.
  Deadlock is not checked there: an idle server waits. In the other modules an
  action that changes nothing marks the legitimate ends, so deadlock is checked.

### Findings

1. **A late line stops rotation** (`logger.cpp:163`, `Logger_rotation`). A line
   stamped before the hour and compared after the file was opened in it (the trace
   TLC shows), or after another thread's rotation,
   rotates the new hour's file under the new hour's name. When the hour is over
   the name exists, the rotation is dropped as already done, and so is every
   later one.
2. **SIGHUP makes the server deaf to SIGTERM** (`server.cpp:92`, `Lifecycle_hup`).
   The handler returns without waiting for the next signal.

Known deviations, which the models have and no run is spent on:

- A POST with Content-Length 0 never completes (`request_parser.hpp:549`,
  `RequestParser_empty.cfg`): the comparison of lengths follows a byte that does not
  come, although `request_parser.hpp:29-31` says that `parse` returns true when a complete
  request has been parsed. The messages of the run have none, and no kind of request
  of `HttpConnection` stands for one.
- A regular command on a subscribed redis context ends the context (`async.c:464`,
  `RedisAsync_refusal.cfg`). `async.c:644-645` says that the error "needs to be received
  and passed to the callback"; it is taken for a spontaneous error, the context is
  disconnected, and the callback gets NULL.
- SUBSCRIBE, UNSUBSCRIBE and SUBSCRIBE in one pipeline abort (`async.c:408`,
  `RedisAsync_careless.cfg`): the answer to the UNSUBSCRIBE clears `REDIS_SUBSCRIBED`
  although the second SUBSCRIBE is on its way, whose answer reaches the assertion
  of `async.c:471-472`. `ContextSound` says that nothing else does.
- A monitored line goes to another command's callback (`async.c:448`,
  `RedisAsync_monitor.cfg`): lines take the oldest regular callback, so a GET behind a
  MONITOR gets one. A GET before a MONITOR may run again (`async.c:437`), and a reply
  read in part in monitor mode pushes a null callback, which loses a line.
- Sign-in chooses the shard by a parameter the form does not have and a client may
  add (`route_dir_user.cpp:46`), sign-up by the username: a registered user may be
  told that the name is unknown.
- A column read into 32 bits or fewer is its first byte, sign-extended
  (`mysqlpp_result.cpp:212-240`): the key of a forum post would be wrong from 128 on.
- The templates of the forum's pages are served to anybody as files.
- `stmt_ptr` and `rs_ptr` delete what `connection::clear` deletes again
  (`mysqlpp_connection.cpp:102`), in every route that uses the database.
- A forum post with a title and a content always ends with an exception:
  `scoped_db("db_etc")` takes the overload that chooses a shard, and the
  shard has no such table.
- The access lists of `request_handler.cpp:103-133` refuse the listed address, and
  compare iterators of two copies of a vector; the shipped lists are empty.
- A pipeline that ends with a READONLY error leaves its other replies to the
  next user of the connection (`redis3m.hpp:442`); `MatchedReplies` excludes it.
- `redis3m::connection`'s constructor throws without `redisFree`.
- No read of an HTTP connection has a deadline: a client that sends half a
  request and stays keeps its connection object.

Other cases the code reaches that contradict no document (an exception that ends
the process, a fallback connection for ever after a failed reconnection, a
pipelined request dropped with the buffer, an overlapping response that restores
a signed-out cookie) are in the models, in the premises of the properties, and
in `PROJECT.json` under hazards.

## Proofs

Each proof module states an inductive invariant, `IInv`, in two modules a second
one relative to it or beside it, that TLC checked on the
module's run before it was proved (those of `RequestParser` with the sets they
quantify over made finite), shows that `Init` gives it and that every action
keeps it, with one step per action, and derives the properties. What follows is
per module: from which assumptions, what, and which facts the properties needed
beside themselves.

**ConnPool**, for every finite set of threads, every `PoolSize \in Nat` and every
set of addresses large enough for a full pool and one connection per thread
(`NoConn` not among them): `TypeCorrect`, `MutualExclusionHolds`,
`ExclusiveUseHolds`, `PoolSoundHolds`, `NoLeakHolds` from `IInv`; `ConservationHolds`,
`WithinCapacityHolds`, `FallbackOnlyAfterLossHolds` from a second invariant about
counts, `Counting`, relative to `IInv`; and `RefinesResourcePool`: `Spec` implements
`ResourcePool!ASpec`.
Mutual exclusion is inductive, and gives that nobody touches the vector between
`back()` and `pop_back()` (`PopReads`) or between `empty()` and the unlock
(`EmptyStays`). `ExclusiveUse` needs that to know that the popped pointer is the one
that was read and was there once (`PoolSound`). `PoolSound` needs that what is pushed
belongs to the pool (`Kinds`) and has empty lists (`Clean`), and that it is nobody
else's (`ExclusiveUse`). `NoLeak` needs to know who owns what at each step, and
`Quiet` that no thread works while main fills or destroys the pool. For the counts,
each action changes at most one of the length of the vector, the set of borrowers
and `lost`, or moves one unit between two of them. The refinement maps `idle` to the
elements of the vector and `leased` to `dbconn` where the thread owns it: the step
of `pop_back` is the lease, `push_back` the return, `delete` the discard, and all
others stutter.

**HttpConnection**, for any sets of connections and threads, any number of requests
of any kinds: `ConnectionTyped`, `HandlersExclusive` (`OneHandler`), `AnswersMatch`
(`MatchedAnswers`) and the action property `ClosingIsJustified` (`ClosedForAReason`).
`OneHandler` counts; `HandlersSound` says the same by position: a connection whose
operation has completed is in the queue, waiting in the strand or about to act in a
thread, one that has not is in none of them, and a handler that has started its
operation still occupies its thread (`ending`), which is why the strand is needed and
what it tests. Without it (`DispatchUnwrapped`) a second thread enters the connection
between the start of an operation and the return. `AnswersSound` says how far a patient client's last
request has got, by phase (on the wire, in the buffer, half parsed, in the
response), and that nothing of an earlier one is left. `OptionSound` says why
`connection_option` can have the value on which a plain connection closes, the
uninitialised one included.

**RequestParser** with `RequestHandler`, for any messages, edits and files:
`AnswersFramed` (`AnswerFramed`), `GuestsExcluded`
(`GuestsGetTemplatesOnly`) if no file is compressed already or is a copy of the
database's rows (`FilesAssumption`), `FilesUnderRoot` (the first half of `ServedUnderRoot`: absolute
and without "..", whatever bytes the uri has) without an assumption, and `BytesKept`
(`NothingLost`) if what arrives consists of `Bytes` (`BytesAssumption`). The lemmas
of the first three follow a response through
the routes: what a route returns is static, or has a redirection at most among its
headers and its session among its cookies (`Made`); `FillOut` makes a framed answer
of any such response, compressed or not. For the path they show that decoding
yields a sequence, that `find("..")` is 0 exactly if no two dots follow each other,
and that neither the completion with `/index.html` nor the cut at a zero byte can
bring two dots together. The invariant keeps that the uri is a sequence
(`IterationUri`: each byte is appended to it or leaves it alone) and that an answer
is one `handle_request` gave to such a uri.
`BytesKept` has an invariant of its own, `ReadSound`, about the automaton alone: in
each of its states the bytes consumed so far are the request's parts put together
again, up to the part that the state belongs to (`Partly`: `ReadMethod`, `ReadUri`,
..., `ReadHeader`, `ReadContent`), and all of them when the result is true (`Complete`).
The proof has one lemma per group of states (`ToldMethod` to `ToldContent`): a byte is
appended to one part, or it is the separator that the next state stands for. Two
things need more. The version is kept as two numbers, so the invariant says that
there were digits that stand for them (`Numbered`, with `NumberOf` as the number of a
numeral), and `NothingLost`, which takes the version apart at its first dot, finds
the right one because no digit is a dot (`DotFound`). And the folding of a header line
removes its line break, so all of it is said of inputs without one (`~Folded`), as the
property is.

**Statements**, for every set of scripts that use the API in its order
(`ScriptsAssumption`: a statement is prepared before it is used, a query is made
before its rows are read, and a procedure's status is fetched after its rows; the
API checks none of it, and the routes do it), any rows and any number of requests:
`StatementsTyped`, `HandlesAreClosed` (`HandlesClosed`), `ConnectionInSync` (`InSync`).
Each handle is held by the statement or the result or has been closed once
(`Owned`), through every failing call; a set is unread only where `fetch(true)` is
next or the statement is about to be closed (`WireSound`); and what is left of a
script is still well used (`ScriptSound`, `Fits`). A later request starts with what the
earlier ones left: `WireSound` has to hold outside a route as well, and does because
a set is unread only while there is a statement, whose close cancels it.
`RowsAsStored` (`RowAsStored`) rests on `BuffersSound`: while the route may read, the
buffer its result reads is the one its statement writes, and has the row fetched
last. Nothing is assumed of the width of the columns: the property says what a
narrow read is.

**Session**, for any set of requests in flight, any origins and any `ExpirySec`,
`UpdateSec` and clock: `SessionTyped`, `IdleSessionsExpire` (`IdleExpires`),
`UsersStaySignedIn` (`StaysSignedIn`), `SignOutIsFinal` (`SignOutHolds`). `ServerSound`:
no session anywhere, in the jar or on its way, is younger than the last request
handled. `Quiet`: for a browser with one request at a time, what the user has seen
is what the cookie says, and a session is older than the page by less than
`UpdateSec`, the time for which `update` leaves it alone.

**Accounts**, for any workers, names, passwords and numbers of keys taken, and shards
numbered from 0 (`ShardsAssumption`; `get_dbpool` takes a number modulo the count):
`AccountsTyped`, `AccountsUnique` (`UniqueAccounts`), `SignUpHolds` (`SignUpTrue`),
`SignInHolds` (`SignInTrue`). The keys of shard s are s modulo the number of shards
(`KeyOf`), whatever amount is added, 0 included; so userids of two shards differ, and
on one shard the primary key and the unique name decide (`TableSound`). What a route
remembers of a statement stays true, since rows are never changed (`RoutesSound`).

**Logger**, for any threads, rotation, calendar, time and number of lines:
`LoggerTyped`, `LinesAreKept` (`NoLineLost`), and the action property `ArchivesStay`
(`ArchivesImmutable`). `NoLineLost` counts copies; `LinesSound` says by position that a
line is queued once or written once. It needs that lines have their own numbers
(`NumbersSound`), and that the stream is on the log file and opened by the first job
(`StreamSound`), without which a write would go to an archive. `RefinesLineLog`:
`Spec` implements `LineLog!LSpec`, which adds the order. `pending` is mapped to the
lines of the queued jobs (`LinesOf`, by recursion over the queue), `current` to the
log file and `archives` to the other files. `PostWrite` accepts a line, which is new
since it is not in one place yet (`LinesSound`); the write job writes the oldest
(`LinesOfTail`), a rotation that finds its name free cuts the log, the join closes it,
and everything else stutters.

**Lifecycle**, for any finite set of threads and any bounds: `ServicesOutlive`
(`ServicesOutliveThreads`), from what main has constructed and where the threads are,
stage by stage.

### Recursion and induction

The library's induction theorems take a predicate as a parameter, which the
installed provers do not instantiate. Where a recursive function is involved
(`ParseAll` of `HttpConnection`, `DecodedFrom` of `RequestHandler`, the numerals,
`FlattenSeq`, `LinesOf` of `Logger`) the proofs take a
set in place of the predicate: a non-empty set of naturals has a least element,
from `NatLessThanWellFounded` (`LeastNatural`, `MinFacts`), so a set that contains 0
and the successor of each of its members up to n contains 0 to n (`InductionTo`); and
the function is shown to exist by extending a partial one position by position
(`ParseAllDef`, `DecodedFromDef`; `Recursion` for any step, from which `NumberDef`,
`FlattenDef` and `LinesOfDef` follow). Two functions that take the same steps agree
(`Agreement`), which gives what the last element adds to a number, a rendering or a
queue, and what the first takes from it.

### Only model-checked

- Liveness, in all modules: the prover knows neither leads-to nor ENABLED.
- `CompleteIsTrue`, `ReadAsSent` and the second half of `ServedUnderRoot`: they
  compare what was parsed and decoded with the message it was rendered from. Beyond
  `ReadSound` that takes the other direction, that every rendering is accepted and can
  be taken apart in one way only, through the encodings of paths, queries, cookies
  and forms.
- `RedisClient`: `RedisReader` declares recursive operators, with which the SMT
  backend is lost.
- `RedisAsync`: `ContextSound` and `MatchedReplies`, whose invariant would have to
  describe the stack of functions in progress.
- `TypeOK` of `Lifecycle`, whose bound on the number of clients is a count.

## Not modelled

- `sds.c`: dynamic strings over malloc; strings are values in the models.
- `net.c`: the loop over addresses and the socket options. A connection is made
  or fails as a whole.
- The formatting of redis commands (`redisvFormatCommand`) and the wrappers of
  `async.c` that only format.
- `url_conn`: one synchronous request, used by no route.
- md5, base64, the serialisation of a session: a cookie is a session, garbage or
  too short.
- The reading of the configuration's sections.
- `prepare_like`, and the overloads of `param` and `get` one by one.
- The texts of pages, templates and status lines; the measuring of time in the
  performance route.

## Plan

1. *Done:* the connection pool; connections; parser, decoding and request handler;
   statements and results; logger; process; sessions; accounts; the redis pool with
   both clients.
2. *Done:* the safety properties of all of them but the redis clients, as theorems,
   with the exceptions above; the refinements of `ResourcePool` and `LineLog`.
3. From `ReadSound`, the part of `CompleteIsTrue` that concerns verdicts: an
   assumption that messages are well formed, and the state as a function of the
   position in the rendering.
4. An abstract specification for a connection (a sequence of request/answer pairs),
   with a refinement proved from the invariants above.
5. Lemmas about `Dict`: what is found after a replacement, a deletion and a
   growth; a version of `RedisReader` without recursive operators, for proofs.
