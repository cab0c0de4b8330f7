---------------------------- MODULE RedisClient -----------------------------
(***************************************************************************)
(* The redis client: redis_pool and scoped_rd, redis3m::connection and the *)
(* blocking half of hiredis, over sockets that deliver a server's answers  *)
(* in pieces cut anywhere.                                                 *)
(*                                                                         *)
(* A user takes a connection, appends commands, asks for as many replies   *)
(* (run() is one command and one reply) and lets the scoped_rd go, on      *)
(* every way out.  The vector and its spinlock are those of dbconn_pool,   *)
(* which ConnPool takes apart; here a critical section is one step.        *)
(*                                                                         *)
(* The time of a release, and so whether a connection has been idle for    *)
(* timeout_sec, is left open.                                              *)
(***************************************************************************)
EXTENDS RedisReader

CONSTANTS
    Threads,        \* users of the pool
    Conns,          \* addresses of connections
    PoolSize,       \* redis_pool::pool_size
    Messages,       \* what a server may send: records of bytes and the reply they are
    MaxPipeline,    \* commands of one user (bound)
    MaxCommands,    \* commands altogether (bound)
    NoConn

ASSUME ClientAssumption ==
    /\ NoConn \notin Conns
    /\ PoolSize \in Nat /\ PoolSize <= Cardinality(Conns)
    /\ MaxPipeline \in Nat /\ MaxCommands \in Nat

VARIABLES
    pool,       \* redis_pool::pool
    conn,       \* the connections: redis3m::connection with its redisContext
    server,     \* the other ends of their sockets
    wire,       \* the bytes on their way to the client
    pc,         \* what each thread is about to do
    held,       \* the connection each thread has
    asked,      \* the commands of each thread without a reply
    last,       \* the last reply of each thread (history)
    ncommands,  \* commands so far (bound, and their names)
    lost        \* connections that could not be replaced (history)

vars == <<pool, conn, server, wire, pc, held, asked, last, ncommands, lost>>

Free == [alive |-> FALSE, pooled |-> FALSE, err |-> "ok", obuf |-> <<>>,
         reader |-> NewReader, abandoned |-> FALSE]

\* due: commands the server has answered and their replies, not yet delivered.
Closed == [up |-> FALSE, inq |-> <<>>, due |-> <<>>]

NoReply == [want |-> 0, cmd |-> 0, sent |-> Null, got |-> Null, fresh |-> TRUE]

\* redisConnectWithTimeout, redisContextInit
Connected(pooled) == [Free EXCEPT !.alive = TRUE, !.pooled = pooled]
Listening == [Closed EXCEPT !.up = TRUE]

FreshAddress == CHOOSE c \in Conns : ~conn[c].alive
Available == \E c \in Conns : ~conn[c].alive

\* redis::init has filled the pool.
Init ==
    LET first == CHOOSE s \in [1 .. PoolSize -> Conns] : IsInjective(s) IN
        /\ pool = first
        /\ conn = [c \in Conns |-> IF c \in Range(first) THEN Connected(TRUE) ELSE Free]
        /\ server = [c \in Conns |-> IF c \in Range(first) THEN Listening ELSE Closed]
        /\ wire = [c \in Conns |-> <<>>]
        /\ pc = [t \in Threads |-> "idle"]
        /\ held = [t \in Threads |-> NoConn]
        /\ asked = [t \in Threads |-> <<>>]
        /\ last = [t \in Threads |-> NoReply]
        /\ ncommands = 0
        /\ lost = 0

Goto(t, to) == pc' = [pc EXCEPT ![t] = to]
SetConn(c, value) == conn' = [conn EXCEPT ![c] = value]

-----------------------------------------------------------------------------
(* redis_pool and scoped_rd                                                *)

\* connection::connect succeeds: the thread holds a new connection.
Opens(t, pooled) ==
    /\ Available
    /\ held' = [held EXCEPT ![t] = FreshAddress]
    /\ conn' = [conn EXCEPT ![FreshAddress] = Connected(pooled)]
    /\ server' = [server EXCEPT ![FreshAddress] = Listening]
    /\ Goto(t, "append")

\* get_rdconn: a connection of the pool, or one outside it.
Take(t) ==
    /\ pc[t] = "idle" /\ pool # <<>> /\ ncommands < MaxCommands
    /\ held' = [held EXCEPT ![t] = Last(pool)]
    /\ pool' = Front(pool)
    /\ Goto(t, "inspect")
    /\ UNCHANGED <<conn, server, wire, asked, last, ncommands, lost>>

TakeUnpooled(t) ==
    /\ pc[t] = "idle" /\ pool = <<>> /\ ncommands < MaxCommands
    /\ Opens(t, FALSE)
    /\ UNCHANGED <<pool, wire, asked, last, ncommands, lost>>

\* get_rdconn: used as it is, if it was released lately or has seen no error.
Keep(t) ==
    /\ pc[t] = "inspect"
    /\ Goto(t, "append")
    /\ UNCHANGED <<pool, conn, server, wire, held, asked, last, ncommands, lost>>

\* get_rdconn: idle for timeout_sec and not is_valid().
Drop(t) ==
    /\ pc[t] = "inspect" /\ conn[held[t]].err # "ok"
    /\ SetConn(held[t], Free)
    /\ server' = [server EXCEPT ![held[t]] = Closed]
    /\ wire' = [wire EXCEPT ![held[t]] = <<>>]
    /\ held' = [held EXCEPT ![t] = NoConn]
    /\ Goto(t, "replace")
    /\ UNCHANGED <<pool, asked, last, ncommands, lost>>

Replace(t) ==
    /\ pc[t] = "replace"
    /\ Opens(t, TRUE)
    /\ UNCHANGED <<pool, wire, asked, last, ncommands, lost>>

\* The constructor of connection throws, and scoped_rd's with it.
ReplaceFails(t) ==
    /\ pc[t] = "replace"
    /\ lost' = lost + 1
    /\ Goto(t, "idle")
    /\ UNCHANGED <<pool, conn, server, wire, held, asked, last, ncommands>>

\* ~scoped_rd, release_rdconn.  What the user has not read stays unread.
LetGo(t, kept) ==
    LET c == held[t] IN
    /\ pc[t] = "release"
    /\ held' = [held EXCEPT ![t] = NoConn]
    /\ asked' = [asked EXCEPT ![t] = <<>>]
    /\ last' = [last EXCEPT ![t] = NoReply]
    /\ Goto(t, "idle")
    /\ IF kept
       THEN /\ pool' = Append(pool, c)
            /\ UNCHANGED <<conn, server, wire>>
       ELSE /\ SetConn(c, Free)
            /\ server' = [server EXCEPT ![c] = Closed]
            /\ wire' = [wire EXCEPT ![c] = <<>>]
            /\ UNCHANGED pool
    /\ UNCHANGED <<ncommands, lost>>

\* mutant: is_pooled() is not asked
ReleaseAny(t) == LetGo(t, TRUE)

Release(t) == LetGo(t, conn[held[t]].pooled)

-----------------------------------------------------------------------------
(* redis3m::connection                                                     *)

\* append: the command is at the end of the output buffer.
Command(t) ==
    LET c == held[t] IN
    /\ pc[t] = "append"
    /\ Len(asked[t]) < MaxPipeline /\ ncommands < MaxCommands
    /\ ncommands' = ncommands + 1
    /\ asked' = [asked EXCEPT ![t] = Append(@, ncommands + 1)]
    /\ SetConn(c, [conn[c] EXCEPT !.obuf = Append(@, ncommands + 1)])
    /\ UNCHANGED <<pool, server, wire, pc, held, last, lost>>

Throws(t, from, err) ==
    /\ pc[t] = from
    /\ SetConn(held[t], [conn[held[t]] EXCEPT !.err = err])
    /\ Goto(t, "release")
    /\ UNCHANGED <<pool, server, wire, held, asked, last, ncommands, lost>>

\* mutant: the error is not kept in the context
CommandThrowsOnly(t) == Throws(t, "append", "ok")

\* append throws: no memory for the command.
CommandThrows(t) == Throws(t, "append", "oom")

\* get_replies(count): the first of the get_reply calls, or none.
GetReplies(t) ==
    /\ pc[t] = "append"
    /\ Goto(t, IF asked[t] = <<>> THEN "release" ELSE "get")
    /\ UNCHANGED <<pool, conn, server, wire, held, asked, last, ncommands, lost>>

-----------------------------------------------------------------------------
(* redisGetReply                                                           *)

ReadOnly(reply) == reply[<<>>].type = "error" /\ reply[<<>>].str = <<"R">>

\* redisGetReplyFromReader: a reply for the caller, an exception, or "more" to do.
\* get_reply throws at an error that begins with READONLY, which it has consumed.
FromReader(t, fed, memory, more) == \E result \in {ReaderGetReply(fed, memory)} :
    LET c       == held[t]
        failed  == result.reader.err # "ok"
        arrived == result.reply # Null
        refused == arrived /\ ReadOnly(result.reply)
        rest    == IF arrived THEN Tail(asked[t]) ELSE asked[t]
    IN  /\ SetConn(c, [conn[c] EXCEPT !.reader = result.reader,
                           !.err = IF failed THEN result.reader.err ELSE @,
                           !.abandoned = @ \/ (refused /\ rest # <<>>)])
        /\ server' = [server EXCEPT ![c].due = IF arrived THEN Tail(@) ELSE @]
        /\ asked' = [asked EXCEPT ![t] = rest]
        /\ last' = IF arrived
                   THEN [last EXCEPT ![t] =
                           [want |-> Head(asked[t]), got |-> result.reply,
                            cmd |-> Head(server[c].due).cmd, sent |-> Head(server[c].due).reply,
                            fresh |-> ~conn[c].abandoned]]
                   ELSE last
        /\ Goto(t, IF failed \/ refused \/ rest = <<>> THEN "release"
                   ELSE IF arrived THEN "get" ELSE more)
        /\ UNCHANGED <<pool, held, ncommands, lost>>

PendingOr(t, more) ==
    /\ pc[t] = "get"
    /\ UNCHANGED wire
    /\ \E memory \in BOOLEAN : FromReader(t, conn[held[t]].reader, memory, more)

\* mutant: the output is not written before the read
PendingUnwritten(t) == PendingOr(t, "read")

\* redisGetReply tries the replies that have been read already.
Pending(t) == PendingOr(t, "write")

\* redisBufferWrite until done: all of the output, or a part of it.  A socket whose
\* other end is closed takes bytes too, or refuses them.
Write(t) ==
    LET c == held[t] IN
    /\ pc[t] = "write" /\ conn[c].err = "ok"
    /\ \E n \in 0 .. Len(conn[c].obuf) :
        /\ n > 0 \/ conn[c].obuf = <<>>
        /\ SetConn(c, [conn[c] EXCEPT !.obuf = SubSeq(@, n + 1, Len(@))])
        /\ server' = IF server[c].up
                     THEN [server EXCEPT ![c].inq = @ \o SubSeq(conn[c].obuf, 1, n)]
                     ELSE server
        /\ Goto(t, IF n = Len(conn[c].obuf) THEN "read" ELSE "write")
    /\ UNCHANGED <<pool, wire, held, asked, last, ncommands, lost>>

WriteFails(t) ==
    LET c == held[t] IN
    /\ pc[t] = "write" /\ (conn[c].err # "ok" \/ ~server[c].up)
    /\ Throws(t, "write", IF conn[c].err = "ok" THEN "io" ELSE conn[c].err)

\* redisBufferRead and redisGetReplyFromReader: some of the bytes that have come.
\* An interrupted read, which changes nothing, is a stuttering step.
Read(t) ==
    LET c == held[t] IN
    /\ pc[t] = "read" /\ conn[c].err = "ok"
    /\ \E n \in 1 .. Len(wire[c]) :
        /\ wire' = [wire EXCEPT ![c] = SubSeq(@, n + 1, Len(@))]
        /\ \E memory \in BOOLEAN :
               FromReader(t, Feed(conn[c].reader, SubSeq(wire[c], 1, n)), memory, "read")

\* redisBufferRead: the end of the stream, or an error of the socket.
ReadFails(t) ==
    LET c == held[t] IN
    /\ pc[t] = "read" /\ ~server[c].up /\ wire[c] = <<>>
    /\ Throws(t, "read", "eof")

-----------------------------------------------------------------------------
(* The server                                                              *)

Answers(c) ==
    /\ server[c].up /\ server[c].inq # <<>>
    /\ \E m \in Messages :
        /\ server' = [server EXCEPT ![c].inq = Tail(@),
                        ![c].due = Append(@, [cmd |-> Head(server[c].inq), reply |-> m.reply])]
        /\ wire' = [wire EXCEPT ![c] = @ \o m.bytes]
    /\ UNCHANGED <<pool, conn, pc, held, asked, last, ncommands, lost>>

\* The server goes away; what it has sent may be lost with it.
Closes(c) ==
    /\ server[c].up
    /\ server' = [server EXCEPT ![c].up = FALSE, ![c].inq = <<>>]
    /\ \E n \in {0, Len(wire[c])} : wire' = [wire EXCEPT ![c] = SubSeq(@, 1, n)]
    /\ UNCHANGED <<pool, conn, pc, held, asked, last, ncommands, lost>>

ThreadStep(t) ==
    \/ Take(t) \/ TakeUnpooled(t) \/ Keep(t) \/ Drop(t) \/ Replace(t) \/ ReplaceFails(t)
    \/ Command(t) \/ CommandThrows(t) \/ GetReplies(t)
    \/ Pending(t) \/ Write(t) \/ WriteFails(t) \/ Read(t) \/ ReadFails(t) \/ Release(t)

Done ==
    /\ ncommands = MaxCommands /\ \A t \in Threads : pc[t] = "idle"
    /\ UNCHANGED vars

Next == (\E t \in Threads : ThreadStep(t)) \/ (\E c \in Conns : Answers(c) \/ Closes(c)) \/ Done

Spec == Init /\ [][Next]_vars

\* A thread goes on, and a server that is up answers what it has received.
FairSpec == Spec /\ (\A t \in Threads : WF_vars(ThreadStep(t))) /\ (\A c \in Conns : WF_vars(Answers(c)))

-----------------------------------------------------------------------------
(* Properties                                                              *)

TypeOK ==
    /\ pool \in Seq(Conns)
    /\ \A c \in Conns : conn[c].err \in {"ok", "oom", "io", "eof", "protocol"}
    /\ pc \in [Threads -> {"idle", "inspect", "replace", "append", "get", "write", "read", "release"}]
    /\ held \in [Threads -> Conns \cup {NoConn}]
    /\ ncommands \in 0 .. MaxCommands /\ lost \in Nat

\* Every reply get_reply returns belongs to the command it was asked for, even if
\* earlier users of the connection met errors, out of memory in the middle of a
\* pipeline included: the context keeps its error.  (The exception is a pipeline
\* that ended with "read only": its other replies are the next user's.)
MatchedReplies ==
    \A t \in Threads : last[t].fresh => last[t].want = last[t].cmd

\* The reply the reader builds is the one the server sent, whatever the pieces the
\* socket delivers and the replies before it in the same buffer.
ReplyAsSent == \A t \in Threads : last[t].got = last[t].sent

\* The vector holds live pooled connections, each once and nobody's, and with those
\* that are borrowed or lost they are as many as fill_pool made.
PoolSound ==
    /\ IsInjective(pool)
    /\ \A c \in Range(pool) : conn[c].alive /\ conn[c].pooled /\ \A t \in Threads : held[t] # c
    /\ Len(pool) + lost + Cardinality({t \in Threads : pc[t] = "replace"
                                 \/ (held[t] # NoConn /\ conn[held[t]].pooled)}) = PoolSize

\* A user who waits for replies gets them all, or an exception: redisGetReply writes
\* everything before it reads, and reads until there is a reply or an error.
EveryCommandEnds == \A t \in Threads : pc[t] = "get" ~> pc[t] = "release"
=============================================================================
