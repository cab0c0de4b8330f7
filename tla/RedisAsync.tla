----------------------------- MODULE RedisAsync -----------------------------
(***************************************************************************)
(* async.c of hiredis: one redisAsyncContext, the event loop that calls    *)
(* its handlers, the callbacks of the user and what they may call, and a   *)
(* redis server at the other end of the socket.                            *)
(*                                                                         *)
(* All code runs in one thread, but callbacks nest: stack holds the        *)
(* functions that are in progress, the innermost last.  The user's code    *)
(* runs between events and in callbacks.  A callback is known by the       *)
(* number of its command, 0 is a null callback.                            *)
(***************************************************************************)
EXTENDS Dict, FiniteSets

CONSTANTS
    Names,          \* channels and patterns
    Patterns,       \* the patterns among them
    Commands,       \* [kind, names] the user may send
    MaxCommands,    \* bound: commands sent
    MaxMessages,    \* bound: messages published, and lines to a monitor
    Breakable       \* bound: the rules of use the user may break, see Breaks

ASSUME AsyncAssumption == Patterns \subseteq Names /\ Names = DOMAIN Hash

VARIABLES
    flags,          \* of REDIS_CONNECTED, DISCONNECTING, FREEING, SUBSCRIBED, MONITORING
    err, freed,     \* the error of the context; how often redisFree was called
    stack, cb,      \* functions in progress; the cb of redisProcessCallbacks
    call,           \* the last callback run: whose it is, and whose the reply is (history)
    events,         \* of "read" and "write": what the event library waits for
    obuf, rbuf,     \* commands to write; replies in the reader
    replies, invalid,       \* the lists of callbacks
    sub, iter,      \* the dictionaries of channels and patterns; entries visited
    issued, answered, owner,    \* commands, how often each callback ran, the last SUBSCRIBE of a name (history)
    broken,         \* of "overtaking", "unknown" and "mixing": rules the user has broken (history)
    socket, inbox, outbox, halved,  \* the connection; what it carries; the first reply is read in part
    server          \* what the server knows of the connection

client == <<flags, err, freed, stack, cb, call, events, obuf, rbuf, replies, invalid, sub, iter, issued, answered, owner, broken>>
network == <<socket, inbox, outbox, halved, server>>
vars == <<client, network>>

\* What one kind of step leaves alone.
buffers == <<obuf, rbuf, network>>
callbacks == <<replies, invalid, sub, iter, cb, call, answered>>
history == <<issued, owner, broken>>

Null == [type |-> "null", of |-> 0, name |-> CHOOSE n \in Names : TRUE, last |-> FALSE]
Reply(type, of) == [Null EXCEPT !.type = type, !.of = of]
Message(type, name, last) == [Null EXCEPT !.type = type, !.name = name, !.last = last]
NoCall == [cb |-> 0, due |-> 0, reply |-> Null]
Arrays == {"subscribe", "unsubscribe", "message"}

NewClient == [names |-> {}, monitor |-> 0, messages |-> 0]

\* redisAsyncConnect, and both connection callbacks set: a write event tells of the
\* connection.
Init ==
    /\ flags = {} /\ err = 0 /\ freed = 0
    /\ stack = <<>> /\ cb = 0 /\ call = NoCall
    /\ events = {"write"}
    /\ obuf = <<>> /\ rbuf = <<>> /\ replies = <<>> /\ invalid = <<>>
    /\ sub = [p \in BOOLEAN |-> dictCreate] /\ iter = 0
    /\ issued = <<>> /\ answered = <<>> /\ owner = [n \in Names |-> 0] /\ broken = {}
    /\ socket = "connecting" /\ inbox = <<>> /\ outbox = <<>> /\ halved = FALSE
    /\ server = NewClient

\* pvariant: whether a name is a pattern.
IsPattern(name) == name \in Patterns

Top == IF stack = <<>> THEN "loop" ELSE Last(stack)
Frame(f) == Front(stack) \o <<f>>
InCallback == Top \in {"callback", "free_callback"}
OnConnect == {"connect_read", "connect_write", "connect_failed"}

-----------------------------------------------------------------------------
(* Callbacks                                                               *)

\* Whose callback should get a reply: an array belongs to the last SUBSCRIBE of the name.
Due(reply) == IF reply.type \in Arrays THEN owner[reply.name] ELSE reply.of

\* __redisRunCallback: nothing for a null callback.
RunCallback(fn, reply, rest, frame) ==
    IF fn = 0
    THEN stack' = rest /\ UNCHANGED <<call, answered>>
    ELSE /\ stack' = Append(rest, frame)
         /\ call' = [cb |-> fn, due |-> Due(reply), reply |-> reply]
         /\ answered' = [answered EXCEPT ![fn] = IF issued[fn].kind = "get" THEN @ + 1 ELSE @]

\* __redisAsyncFree begins, in place of the rest of what called it.  Nothing looks at the
\* buffers and the socket any more: they are forgotten here, and not by redisFree.
AsyncFree(rest) ==
    /\ stack' = Append(rest, "free")
    /\ obuf' = <<>> /\ rbuf' = <<>> /\ inbox' = <<>> /\ outbox' = <<>> /\ halved' = FALSE
    /\ socket' = "gone" /\ server' = NewClient

\* __redisAsyncDisconnect: a clean disconnect asserts that no callback is outstanding.
AsyncDisconnect(rest, error) ==
    /\ err' = error
    /\ flags' = IF error = 0 THEN flags ELSE flags \cup {"DISCONNECTING"}
    /\ IF error = 0 /\ replies # <<>>
       THEN stack' = <<"aborted">> /\ UNCHANGED buffers
       ELSE AsyncFree(rest)

\* __redisAsyncFree goes through replies, invalid, the channels and the patterns.
Subscribed == Entries(sub[FALSE]) \o Entries(sub[TRUE])

FreeReplies ==
    /\ Top = "free" /\ replies # <<>>
    /\ RunCallback(Head(replies), Null, stack, "free_callback")
    /\ replies' = Tail(replies)
    /\ UNCHANGED <<flags, err, freed, cb, events, obuf, rbuf, invalid, sub, iter, history, network>>

FreeInvalid ==
    /\ Top = "free" /\ replies = <<>> /\ invalid # <<>>
    /\ RunCallback(Head(invalid), Null, stack, "free_callback")
    /\ invalid' = Tail(invalid)
    /\ UNCHANGED <<flags, err, freed, cb, events, obuf, rbuf, replies, sub, iter, history, network>>

FreeSubscriptions ==
    /\ Top = "free" /\ replies = <<>> /\ invalid = <<>> /\ iter < Len(Subscribed)
    /\ RunCallback(Subscribed[iter + 1].val, Null, stack, "free_callback")
    /\ iter' = iter + 1
    /\ UNCHANGED <<flags, err, freed, cb, events, obuf, rbuf, replies, invalid, sub, history, network>>

\* The dictionaries are released and the event library forgets the socket;
\* onDisconnect, if the connection was ever there.
FreeRest ==
    /\ Top = "free" /\ replies = <<>> /\ invalid = <<>> /\ iter = Len(Subscribed)
    /\ sub' = [p \in BOOLEAN |-> dictCreate] /\ iter' = 0 /\ events' = {}
    /\ stack' = Frame(IF "CONNECTED" \in flags THEN "on_disconnect" ELSE "redis_free")
    /\ UNCHANGED <<flags, err, freed, cb, call, answered, obuf, rbuf, replies, invalid, history, network>>

\* redisFree: the context is gone.
RedisFree ==
    /\ Top \in {"on_disconnect", "redis_free"}
    /\ freed' = freed + 1 /\ stack' = Front(stack)
    /\ flags' = {} /\ err' = 0 /\ cb' = 0 /\ owner' = [n \in Names |-> 0]
    /\ UNCHANGED <<events, replies, invalid, sub, iter, call, answered, issued, broken, buffers>>

-----------------------------------------------------------------------------
(* What the user calls, between events and in callbacks                    *)

\* The user's code runs; it leaves the context alone once it has called redisAsyncFree.
UserRuns == freed = 0 /\ "FREEING" \notin flags /\ Top \in {"loop", "callback", "free_callback", "on_disconnect"} \cup OnConnect

\* The names of UNSUBSCRIBEs that have no answer yet.
Unsubscribed ==
    LET sent == SelectSeq(obuf \o inbox, LAMBDA c : c.kind = "unsubscribe")
        back == SelectSeq(rbuf \o outbox, LAMBDA r : r.type = "unsubscribe")
    IN  UNION {Range(sent[i].names) : i \in DOMAIN sent} \cup {back[i].name : i \in DOMAIN back}

\* The rules of use a command breaks, none of which the library checks: it overtakes the
\* answer to an UNSUBSCRIBE, unsubscribes what is not subscribed, or shares the context
\* with a MONITOR.
Breaks(command) ==
    (IF Unsubscribed # {} THEN {"overtaking"} ELSE {})
    \cup (IF /\ command.kind = "unsubscribe"
             /\ \E n \in Range(command.names) : dictFind(sub[IsPattern(n)], n, 0) = 0
          THEN {"unknown"} ELSE {})
    \cup (IF "MONITORING" \in flags \/ (command.kind = "monitor" /\ issued # <<>>)
          THEN {"mixing"} ELSE {})

\* The user does not close the context in onConnect and onDisconnect, which run without
\* the flag that would defer it.
MayClose == Top \notin OnConnect \cup {"on_disconnect"}

\* SUBSCRIBE: the callback of each of the names.
SubscribeAll(names, fn) ==
    [p \in BOOLEAN |-> FoldLeft(LAMBDA ht, n : IF IsPattern(n) = p THEN dictReplace(ht, n, fn) ELSE ht,
                                sub[p], names)]

\* __redisAsyncCommand.
Send(command) ==
    /\ UserRuns /\ Len(issued) < MaxCommands /\ Breaks(command) \subseteq Breakable
    /\ "DISCONNECTING" \notin flags
    /\ command.kind = "unsubscribe" => "SUBSCRIBED" \in flags
    /\ LET id == Len(issued) + 1 IN
       /\ issued' = Append(issued, command) /\ broken' = broken \cup Breaks(command)
       /\ answered' = Append(answered, 0)
       /\ obuf' = Append(obuf, [command EXCEPT !.id = id])
       /\ CASE command.kind = "subscribe" ->
                   /\ flags' = flags \cup {"SUBSCRIBED"}
                   /\ sub' = SubscribeAll(command.names, id)
                   /\ owner' = [n \in Names |-> IF n \in Range(command.names) THEN id ELSE owner[n]]
                   /\ UNCHANGED <<replies, invalid>>
            [] command.kind = "unsubscribe" ->
                   UNCHANGED <<flags, sub, owner, replies, invalid>>
            [] command.kind = "monitor" ->
                   /\ flags' = flags \cup {"MONITORING"}
                   /\ replies' = Append(replies, id)
                   /\ UNCHANGED <<sub, owner, invalid>>
            [] command.kind = "get" ->
                   /\ IF "SUBSCRIBED" \in flags
                      THEN invalid' = Append(invalid, id) /\ UNCHANGED replies
                      ELSE replies' = Append(replies, id) /\ UNCHANGED invalid
                   /\ UNCHANGED <<flags, sub, owner>>
    /\ events' = events \cup {"write"}
    /\ UNCHANGED <<err, freed, stack, cb, call, rbuf, iter, network>>

\* Seeded fault: the context is freed although a callback is in progress.
FreeAtOnce ==
    /\ UserRuns /\ MayClose
    /\ flags' = flags \cup {"FREEING"}
    /\ AsyncFree(stack)
    /\ UNCHANGED <<err, freed, events, callbacks, history>>

\* redisAsyncFree: at once, or when the callback is over.
Free ==
    /\ UserRuns /\ MayClose
    /\ flags' = flags \cup {"FREEING"}
    /\ IF InCallback THEN UNCHANGED <<stack, buffers>> ELSE AsyncFree(stack)
    /\ UNCHANGED <<err, freed, events, callbacks, history>>

\* redisAsyncDisconnect: at once if no regular callback is outstanding, or when
\* redisProcessCallbacks has run the last.
Disconnect ==
    /\ UserRuns /\ MayClose
    /\ flags' = flags \cup {"DISCONNECTING"}
    /\ IF ~InCallback /\ replies = <<>> THEN AsyncFree(stack) ELSE UNCHANGED <<stack, buffers>>
    /\ UNCHANGED <<err, freed, events, callbacks, history>>

-----------------------------------------------------------------------------
(* redisProcessCallbacks                                                   *)

\* Seeded fault: the cue to disconnect is missed if the last callback has just run.
NoReplyWaits ==
    /\ Top = "process" /\ rbuf = <<>>
    /\ IF "DISCONNECTING" \in flags /\ obuf = <<>> /\ replies = <<>> /\ cb = 0
       THEN AsyncDisconnect(Front(stack), err) /\ UNCHANGED replies
       ELSE /\ stack' = Front(stack)
            /\ replies' = IF "MONITORING" \in flags THEN Append(replies, cb) ELSE replies
            /\ UNCHANGED <<flags, err, buffers>>
    /\ cb' = 0
    /\ UNCHANGED <<freed, call, events, invalid, sub, iter, answered, history>>

\* The end of the replies: the cue to disconnect, or wait for the next event.  The
\* callback of a monitor is pushed again.
NoReply ==
    /\ Top = "process" /\ rbuf = <<>>
    /\ IF "DISCONNECTING" \in flags /\ obuf = <<>> /\ replies = <<>>
       THEN AsyncDisconnect(Front(stack), err) /\ UNCHANGED replies
       ELSE /\ stack' = Front(stack)
            /\ replies' = IF "MONITORING" \in flags THEN Append(replies, cb) ELSE replies
            /\ UNCHANGED <<flags, err, buffers>>
    /\ cb' = 0
    /\ UNCHANGED <<freed, call, events, invalid, sub, iter, answered, history>>

\* Bytes that are no reply set the error of the context.
ReplyBroken ==
    /\ Top = "process" /\ rbuf # <<>> /\ Head(rbuf).type = "broken"
    /\ AsyncDisconnect(Front(stack), 1)
    /\ UNCHANGED <<freed, events, callbacks, history>>

\* A reply for the oldest regular callback.
RegularReply ==
    /\ Top = "process" /\ rbuf # <<>> /\ Head(rbuf).type # "broken" /\ replies # <<>>
    /\ replies' = Tail(replies)
    /\ cb' = Head(replies)
    /\ RunCallback(Head(replies), Head(rbuf), stack, "callback")
    /\ rbuf' = Tail(rbuf)
    /\ UNCHANGED <<flags, err, freed, events, obuf, invalid, sub, iter, history, network>>

\* An error is taken for one that nobody asked for: the server wants no connection.  A
\* regular command on a subscribed connection is refused with an error, too.
SpontaneousError ==
    /\ Top = "process" /\ rbuf # <<>> /\ replies = <<>> /\ Head(rbuf).type = "error"
    /\ AsyncDisconnect(Front(stack), 1)
    /\ UNCHANGED <<freed, events, callbacks, history>>

\* __redisGetSubscribeCallback: the callback of the name, or else of the oldest invalid
\* command; cb keeps its value if there is neither.
SubscribeCallback(reply) ==
    IF reply.type \in Arrays THEN dictFind(sub[IsPattern(reply.name)], reply.name, cb)
    ELSE IF invalid # <<>> THEN Head(invalid) ELSE cb

\* The answer to UNSUBSCRIBE removes the name, and the last one ends the subscriptions.
Unsubscribe(reply) ==
    IF reply.type = "unsubscribe" /\ dictFind(sub[IsPattern(reply.name)], reply.name, 0) # 0
    THEN /\ sub' = [sub EXCEPT ![IsPattern(reply.name)] = dictDelete(@, reply.name)]
         /\ flags' = IF reply.last THEN flags \ {"SUBSCRIBED"} ELSE flags
    ELSE UNCHANGED <<sub, flags>>

\* A message, an answer to an invalid command that is no error, or a line for a monitor.
OtherReply ==
    /\ Top = "process" /\ rbuf # <<>> /\ replies = <<>> /\ Head(rbuf).type \notin {"broken", "error"}
    /\ LET reply == Head(rbuf) IN
       IF "SUBSCRIBED" \in flags
       THEN /\ cb' = SubscribeCallback(reply)
            /\ Unsubscribe(reply)
            /\ invalid' = IF reply.type \in Arrays \/ invalid = <<>> THEN invalid ELSE Tail(invalid)
            /\ RunCallback(cb', reply, stack, "callback")
       ELSE IF "MONITORING" \in flags
       THEN RunCallback(cb, reply, stack, "callback") /\ UNCHANGED <<cb, sub, flags, invalid>>
       ELSE stack' = <<"aborted">> /\ UNCHANGED <<cb, sub, flags, invalid, call, answered>>
    /\ rbuf' = Tail(rbuf)
    /\ UNCHANGED <<err, freed, events, obuf, replies, iter, history, network>>

\* A callback returns: redisProcessCallbacks frees the context if it was asked to.
Return ==
    /\ InCallback
    /\ stack' = IF Top = "callback" /\ "FREEING" \in flags
                THEN Append(Front(Front(stack)), "free")
                ELSE Front(stack)
    /\ call' = NoCall
    /\ UNCHANGED <<flags, err, freed, cb, events, obuf, rbuf, replies, invalid, sub, iter, answered, history, network>>

-----------------------------------------------------------------------------
(* The handlers of the event loop                                          *)

\* The socket has the event, and the event library waits for it.
Ready(event) ==
    /\ stack = <<>> /\ freed = 0 /\ event \in events
    /\ socket # "connecting"
    /\ event = "read" => socket # "open" \/ outbox # <<>>

\* redisAsyncHandleRead, redisAsyncHandleWrite: __redisAsyncHandleConnect first, as long
\* as the context is not connected.
Handle(event) ==
    /\ Ready(event)
    /\ IF "CONNECTED" \in flags
       THEN stack' = <<event>> /\ UNCHANGED <<flags, err>>
       ELSE IF socket = "refused"
       THEN stack' = <<"connect_failed">> /\ err' = 1 /\ UNCHANGED flags
       ELSE /\ stack' = <<IF event = "read" THEN "connect_read" ELSE "connect_write">>
            /\ flags' = flags \cup {"CONNECTED"} /\ UNCHANGED err
    /\ UNCHANGED <<freed, events, callbacks, history, buffers>>

\* SO_ERROR is EINPROGRESS: the event is over, but the error stays in the context.
HandleEarly(event) ==
    /\ stack = <<>> /\ freed = 0 /\ event \in events /\ socket = "connecting" /\ err = 0
    /\ err' = 1
    /\ UNCHANGED <<flags, freed, stack, events, callbacks, history, buffers>>

\* onConnect returns.
ConnectReturns ==
    /\ Top \in OnConnect
    /\ IF Top = "connect_failed"
       THEN AsyncDisconnect(Front(stack), err)
       ELSE stack' = Frame(IF Top = "connect_read" THEN "read" ELSE "write") /\ UNCHANGED <<flags, err, buffers>>
    /\ UNCHANGED <<freed, events, callbacks, history>>

\* redisBufferRead gets all replies that are there, or a part of one, or finds nothing yet.
ReadBuffer(count) ==
    /\ Top = "read" /\ err = 0 /\ (outbox # <<>> \/ socket = "open")
    /\ count = 0 => ~halved
    /\ rbuf' = SubSeq(outbox, 1, count) /\ outbox' = SubSeq(outbox, count + 1, Len(outbox))
    /\ halved' = (count = 0 /\ outbox # <<>>)
    /\ events' = events \cup {"read"}
    /\ stack' = Frame("process") /\ cb' = 0
    /\ UNCHANGED <<flags, err, freed, call, obuf, replies, invalid, sub, iter, answered, history, socket, inbox, server>>

\* The context has an error already, or the server has closed the connection.
ReadFails ==
    /\ Top = "read" /\ (err = 1 \/ (outbox = <<>> /\ socket = "closed"))
    /\ AsyncDisconnect(Front(stack), 1)
    /\ UNCHANGED <<freed, events, callbacks, history>>

\* Seeded fault: no read is scheduled after a write.
WriteBufferOnly(count) ==
    /\ Top = "write" /\ err = 0 /\ (count = 0 => obuf = <<>>)
    /\ obuf' = SubSeq(obuf, count + 1, Len(obuf))
    /\ inbox' = IF socket = "open" THEN inbox \o SubSeq(obuf, 1, count) ELSE inbox
    /\ events' = IF obuf' = <<>> THEN events \ {"write"} ELSE events
    /\ stack' = Front(stack)
    /\ UNCHANGED <<flags, err, freed, rbuf, callbacks, history, socket, outbox, halved, server>>

\* redisBufferWrite takes count commands, which get lost if the server has gone.
WriteBuffer(count) ==
    /\ Top = "write" /\ err = 0 /\ (count = 0 => obuf = <<>>)
    /\ obuf' = SubSeq(obuf, count + 1, Len(obuf))
    /\ inbox' = IF socket = "open" THEN inbox \o SubSeq(obuf, 1, count) ELSE inbox
    /\ events' = (IF obuf' = <<>> THEN events \ {"write"} ELSE events) \cup {"read"}
    /\ stack' = Front(stack)
    /\ UNCHANGED <<flags, err, freed, rbuf, callbacks, history, socket, outbox, halved, server>>

WriteFails ==
    /\ Top = "write" /\ (err = 1 \/ (socket = "closed" /\ obuf # <<>>))
    /\ AsyncDisconnect(Front(stack), 1)
    /\ UNCHANGED <<freed, events, callbacks, history>>

-----------------------------------------------------------------------------
(* The server.  It acts between events: a handler reads and writes the     *)
(* socket once, so that what the server does meanwhile is as if it had     *)
(* been done before the handler or after it.                               *)

Connect ==
    /\ stack = <<>> /\ socket = "connecting"
    /\ socket' \in {"open", "refused"}
    /\ UNCHANGED <<client, inbox, outbox, halved, server>>

\* Replies to the oldest command.  A subscribed connection takes no other commands, and
\* answers them with an error.
Serve ==
    /\ stack = <<>> /\ socket = "open" /\ inbox # <<>>
    /\ LET command == Head(inbox)
           left(i) == server.names \ {command.names[j] : j \in 1 .. i}
       IN  /\ outbox' = outbox \o
                CASE command.kind = "subscribe" ->
                        [i \in DOMAIN command.names |-> Message("subscribe", command.names[i], FALSE)]
                  [] command.kind = "unsubscribe" ->
                        [i \in DOMAIN command.names |-> Message("unsubscribe", command.names[i], left(i) = {})]
                  [] OTHER -> <<Reply(IF server.names = {} THEN "status" ELSE "error", command.id)>>
           /\ server' = CASE command.kind = "subscribe" -> [server EXCEPT !.names = @ \cup Range(command.names)]
                          [] command.kind = "unsubscribe" -> [server EXCEPT !.names = @ \ Range(command.names)]
                          [] command.kind = "monitor" -> [server EXCEPT !.monitor = command.id]
                          [] OTHER -> server
    /\ inbox' = Tail(inbox)
    /\ UNCHANGED <<client, socket, halved>>

\* Something is published on a name, or a command of another client is monitored.
Publish ==
    /\ stack = <<>> /\ socket = "open" /\ server.messages < MaxMessages
    /\ \/ \E n \in server.names : outbox' = Append(outbox, Message("message", n, FALSE))
       \/ /\ server.monitor # 0 /\ outbox' = Append(outbox, Reply("status", server.monitor))
    /\ server' = [server EXCEPT !.messages = @ + 1]
    /\ UNCHANGED <<client, socket, inbox, halved>>

\* The server closes the connection, at once or with an error or broken bytes before.
Close ==
    /\ stack = <<>> /\ socket = "open"
    /\ socket' = "closed" /\ inbox' = <<>>
    /\ \E last \in {<<>>, <<Reply("error", 0)>>, <<Reply("broken", 0)>>} : outbox' = outbox \o last
    /\ UNCHANGED <<client, halved, server>>

-----------------------------------------------------------------------------

Library ==
    \/ FreeReplies \/ FreeInvalid \/ FreeSubscriptions \/ FreeRest \/ RedisFree
    \/ NoReply \/ ReplyBroken \/ RegularReply \/ SpontaneousError \/ OtherReply
    \/ Return \/ ConnectReturns
    \/ \E count \in {0, Len(outbox)} : ReadBuffer(count)
    \/ ReadFails
    \/ \E count \in 0 .. Len(obuf) : WriteBuffer(count)
    \/ WriteFails

Done ==
    /\ freed > 0 \/ Top = "aborted"
    /\ UNCHANGED vars

Next ==
    \/ Library
    \/ \E event \in {"read", "write"} : Handle(event) \/ HandleEarly(event)
    \/ \E command \in Commands : Send(command)
    \/ Free \/ Disconnect
    \/ Connect \/ Serve \/ Publish \/ Close
    \/ Done

Spec == Init /\ [][Next]_vars

\* The event loop runs, callbacks return, and the server answers or closes.
FairSpec ==
    /\ Spec
    /\ WF_vars(Library)
    /\ \A event \in {"read", "write"} : WF_vars(Handle(event))
    /\ WF_vars(Connect) /\ WF_vars(Serve)

-----------------------------------------------------------------------------
(* Properties                                                              *)

TypeOK ==
    /\ flags \subseteq {"CONNECTED", "DISCONNECTING", "FREEING", "SUBSCRIBED", "MONITORING"}
    /\ err \in {0, 1} /\ freed \in Nat /\ events \subseteq {"read", "write"}
    /\ Range(replies) \cup Range(invalid) \cup {cb} \subseteq 0 .. Len(issued)
    /\ Len(answered) = Len(issued) /\ iter \in 0 .. Len(Subscribed)
    /\ broken \subseteq {"overtaking", "unknown", "mixing"}

\* What the README of hiredis says of any user: a command has a callback "that is called
\* when the reply is received" (README.md:280-281), with its own reply, and once.
OwnReplies ==
    /\ Top = "callback" => call.cb = call.due \/ call.reply = Reply("error", 0)
    /\ \A i \in DOMAIN answered : answered[i] <= 1

\* Each callback gets its own: the reply to its command, and that only once, the messages
\* of the names it subscribed to last, the lines of its MONITOR, whatever the callbacks
\* before it sent or closed and however the replies were cut; only an error of the
\* connection as a whole goes to the oldest.  This is for a user who keeps the rules:
\* without them a reply finds the callback of the one before, and beside a MONITOR commands
\* get its lines, or their callbacks run again (async.c:437, 448).
MatchedReplies == broken = {} => OwnReplies

\* The context is freed at most once, and then no function of the library is in progress
\* on it any more: redisAsyncFree and redisAsyncDisconnect wait for the callback they are
\* called in.  An assertion of async.c, that a reply without a regular callback finds the
\* context subscribed or monitoring and that a clean disconnect finds no callback
\* outstanding, fails only for a user whose command has overtaken the answer to an
\* UNSUBSCRIBE.
ContextSound ==
    /\ freed > 0 => freed = 1 /\ stack = <<>>
    /\ Top = "aborted" => "overtaking" \in broken

\* What the assertions say of any user: "No more regular callbacks and no errors, the
\* context *must* be subscribed or monitoring" (async.c:471-472).  The answer to an
\* UNSUBSCRIBE clears REDIS_SUBSCRIBED although a newer SUBSCRIBE is on its way.
AssertionsHold == Top # "aborted"

\* What the comment of __redisAsyncCommand says of a regular command on a subscribed
\* context (async.c:644-645): its error reply is "received and passed to the callback".
\* redisProcessCallbacks finds no regular callback for it and disconnects.
RefusalsPassed ==
    [][LET reply == Head(rbuf) IN
       Top = "process" /\ rbuf # <<>> /\ reply.type = "error" /\ reply.of # 0 /\ rbuf' # rbuf =>
           call'.cb = reply.of /\ call'.reply = reply]_vars

\* The callback of every regular command runs: with its reply, or with NULL when the
\* connection is closed or fails, or when the server refuses the command, unless an
\* assertion has ended the process.
EveryCallbackRuns ==
    \A i \in 1 .. MaxCommands :
        (i \in DOMAIN issued /\ issued[i].kind = "get")
            ~> ((i \in DOMAIN answered /\ answered[i] > 0) \/ Top = "aborted")

\* redisAsyncDisconnect comes to its end, unless the context is monitoring or an assertion
\* has ended the process.
DisconnectEnds == ("DISCONNECTING" \in flags) ~> (freed > 0 \/ "MONITORING" \in flags \/ Top = "aborted")
=============================================================================
