--------------------------- MODULE HttpConnection ---------------------------
(***************************************************************************)
(* The life of HTTP connections: connection and connection_ssl, the        *)
(* parser's tribool protocol, and the threads that run the io_service.     *)
(*                                                                         *)
(* A connection is a chain of asynchronous operations: each handler starts *)
(* at most one new operation, and the object dies with the last handler    *)
(* that starts none.  The operation is started inside the handler, so it   *)
(* may complete before the handler has returned.  A completed operation is *)
(* queued on the io_service; any thread takes the oldest one, and strand_, *)
(* which wraps every handler, runs it or keeps it until the one that is    *)
(* running returns.                                                        *)
(*                                                                         *)
(* A request is two pieces of bytes, its head and its tail;                *)
(* async_read_some returns any non-empty prefix of what has arrived.       *)
(***************************************************************************)
EXTENDS Integers, Sequences, FiniteSets, SequencesExt

CONSTANTS
    Conns,         \* the connections the server accepts
    Threads,       \* cfg "num_threads": threads in io_service::run
    MaxRequests,   \* bound: requests one client sends
    Kinds,         \* the kinds of requests the clients send, see AllKinds
    Eagerness,     \* bound: the values of eager considered
    NoConn         \* the thread is between two handlers

ASSUME NoConnNotConn == NoConn \notin Conns
ASSUME MaxRequestsAssumption == MaxRequests \in Nat

\* What a client can send.
\*   keep   a well-formed request that leaves the connection open
\*   close  a well-formed request, HTTP/1.0 or with "Connection: close"
\*   bad    bytes that parse() refuses
\*   throws well-formed, but parse_content and its helpers throw
AllKinds == {"keep", "close", "bad", "throws"}
ASSUME ClientsAssumption == Kinds \subseteq AllKinds /\ Eagerness \subseteq BOOLEAN

VARIABLES
    ssl,       \* cfg "ssl": server_ssl instead of server
    proc,      \* the process: "running", or "terminated" by std::terminate
    phase,     \* phase[c]: the operation pending, or completed, on c
    err,       \* err[c]: that operation completed with an error
    queue,     \* the io_service's queue of completed operations
    run,       \* run[t]: the connection whose handler thread t runs
    ending,    \* the threads whose handler has started its operation, and has to return
    strand_,   \* the connections whose next handler waits for the running one
    wire,      \* wire[c]: pieces sent and not yet read
    buffer_,   \* buffer_[c]: the pieces the last read returned
    state_,    \* state_[c]: the parser: Start, a request's number, Junk
    request_,  \* request_[c]: the requests whose pieces request_ holds
    option,    \* option[c]: request_.connection_option
    response_, \* response_[c]: the requests response_ was made from, and how
    eager,     \* eager[c]: the client sends without waiting for responses
    peer,      \* peer[c]: the client's end, "up" or "gone"
    sent,      \* sent[c]: the kinds of the requests the client has sent
    got        \* got[c]: the responses the client has received

vars == <<ssl, eager, proc, phase, err, queue, run, ending, strand_, wire, buffer_, state_,
          request_, option, response_, peer, sent, got>>

local == <<wire, buffer_, state_, request_, option, response_>>
threads == <<run, ending, strand_>>

NoResponse == [of |-> {}, status |-> "none"]

\* The parser at the start of a request; the parser inside a request that
\* did not begin where the parser was reset.
Start == 0
Junk == -1

\* A member of type char that no constructor sets: any value.
Uninitialised == {"c", "other"}

Init ==
    /\ ssl \in BOOLEAN
    /\ proc = "running"
    /\ phase = [c \in Conns |-> "new"]
    /\ err = [c \in Conns |-> FALSE]
    /\ queue = <<>>
    /\ run = [t \in Threads |-> NoConn]
    /\ ending = {} /\ strand_ = {}
    /\ wire = [c \in Conns |-> <<>>]
    /\ buffer_ = [c \in Conns |-> <<>>]
    /\ state_ = [c \in Conns |-> Start]
    /\ request_ = [c \in Conns |-> {}]
    /\ option \in [Conns -> Uninitialised]
    /\ response_ = [c \in Conns |-> NoResponse]
    /\ eager \in [Conns -> Eagerness]
    /\ peer = [c \in Conns |-> "up"]
    /\ sent = [c \in Conns |-> <<>>]
    /\ got = [c \in Conns |-> <<>>]

-----------------------------------------------------------------------------
(* The clients                                                             *)

WellFormed(c) == "bad" \notin Range(sent[c])

\* A client sends the two pieces of a request, at most MaxRequests times, none
\* after one that asks to close; unless it is eager, it waits for the response
\* to the previous one.
Send(c, kind) ==
    /\ proc = "running" /\ peer[c] = "up" /\ phase[c] \notin {"new", "handshake", "handshake_done", "closed"}
    /\ Len(sent[c]) < MaxRequests /\ "close" \notin Range(sent[c])
    /\ eager[c] \/ Len(got[c]) >= Len(sent[c])
    /\ sent' = [sent EXCEPT ![c] = Append(@, kind)]
    /\ LET n == Len(sent[c]) + 1 IN
       wire' = [wire EXCEPT ![c] = @ \o <<[n |-> n, kind |-> kind, part |-> "head"],
                                          [n |-> n, kind |-> kind, part |-> "tail"]>>]
    /\ UNCHANGED <<ssl, eager, proc, phase, err, queue, threads, buffer_, state_,
                   request_, option, response_, peer, got>>

\* The client closes, or the network fails, at any moment.
PeerGone(c) ==
    /\ proc = "running" /\ phase[c] # "new" /\ peer[c] = "up"
    /\ peer' = [peer EXCEPT ![c] = "gone"]
    /\ UNCHANGED <<ssl, eager, proc, phase, err, queue, threads, local, sent, got>>

-----------------------------------------------------------------------------
(* The io_service                                                          *)

\* The operation pending on c completes; its handler is queued.
Complete(c, from, to, failed) ==
    /\ proc = "running"
    /\ phase[c] = from
    /\ phase' = [phase EXCEPT ![c] = to]
    /\ err' = [err EXCEPT ![c] = failed]
    /\ queue' = Append(queue, c)

\* do_accept: the handler starts the connection, start() its first operation.
Accept(c) ==
    /\ proc = "running" /\ phase[c] = "new"
    /\ phase' = [phase EXCEPT ![c] = IF ssl THEN "handshake" ELSE "read"]
    /\ UNCHANGED <<ssl, eager, proc, err, queue, threads, local, peer, sent, got>>

HandshakeOk(c) ==
    /\ peer[c] = "up"
    /\ Complete(c, "handshake", "handshake_done", FALSE)
    /\ UNCHANGED <<ssl, eager, proc, threads, local, peer, sent, got>>

HandshakeFails(c) ==
    /\ Complete(c, "handshake", "handshake_done", TRUE)
    /\ UNCHANGED <<ssl, eager, proc, threads, local, peer, sent, got>>

\* Any non-empty prefix of what has arrived.
ReadSome(c) ==
    /\ Complete(c, "read", "read_done", FALSE)
    /\ \E k \in 1 .. Len(wire[c]) :
        /\ buffer_' = [buffer_ EXCEPT ![c] = SubSeq(wire[c], 1, k)]
        /\ wire' = [wire EXCEPT ![c] = SubSeq(wire[c], k + 1, Len(wire[c]))]
    /\ UNCHANGED <<ssl, eager, proc, threads, state_, request_, option, response_, peer,
                   sent, got>>

\* End of stream or reset; a reset discards what was not read.
ReadFails(c) ==
    /\ peer[c] = "gone"
    /\ Complete(c, "read", "read_done", TRUE)
    /\ UNCHANGED <<ssl, eager, proc, threads, local, peer, sent, got>>

\* The whole response is written, and arrives if the client is still there.
WriteAll(c) ==
    /\ Complete(c, "write", "write_done", FALSE)
    /\ got' = IF peer[c] = "up" THEN [got EXCEPT ![c] = Append(@, response_[c])]
                                ELSE got
    /\ UNCHANGED <<ssl, eager, proc, threads, local, peer, sent>>

WriteFails(c) ==
    /\ peer[c] = "gone"
    /\ Complete(c, "write", "write_done", TRUE)
    /\ UNCHANGED <<ssl, eager, proc, threads, local, peer, sent, got>>

\* Seeded fault: the handlers are not wrapped by strand_.
DispatchUnwrapped(t) ==
    /\ proc = "running" /\ run[t] = NoConn /\ queue # <<>>
    /\ queue' = Tail(queue)
    /\ run' = [run EXCEPT ![t] = Head(queue)]
    /\ UNCHANGED <<ssl, eager, proc, phase, err, ending, strand_, local, peer, sent, got>>

\* A thread takes the oldest completed operation.  Its handler runs if no thread
\* is inside a handler of the same connection; if one is, the strand keeps it
\* and the thread is free again.
Dispatch(t) ==
    /\ proc = "running" /\ run[t] = NoConn /\ queue # <<>>
    /\ queue' = Tail(queue)
    /\ IF \E u \in Threads : run[u] = Head(queue)
       THEN strand_' = strand_ \cup {Head(queue)} /\ UNCHANGED run
       ELSE run' = [run EXCEPT ![t] = Head(queue)] /\ UNCHANGED strand_
    /\ UNCHANGED <<ssl, eager, proc, phase, err, ending, local, peer, sent, got>>

\* A handler that has started its operation returns, and the strand posts the
\* one that waits.
Return(t) ==
    /\ proc = "running" /\ t \in ending
    /\ run' = [run EXCEPT ![t] = NoConn]
    /\ ending' = ending \ {t}
    /\ queue' = IF run[t] \in strand_ THEN Append(queue, run[t]) ELSE queue
    /\ strand_' = strand_ \ {run[t]}
    /\ UNCHANGED <<ssl, eager, proc, phase, err, local, peer, sent, got>>

-----------------------------------------------------------------------------
(* The parser, on one piece of a request.  s: parser state, the requests   *)
(* request_ has pieces of, the tribool.                                    *)

\* A set of results: a piece that does not continue what was read before may
\* be refused, or taken for the beginning of something.
ParsePiece(s, piece) ==
    LET more == [s EXCEPT !.req = @ \cup {piece.n}] IN
    CASE s.result # "indeterminate" -> {s}     \* the rest of the buffer is dropped
      [] s.result = "indeterminate" /\ piece.kind = "bad" ->
             {[more EXCEPT !.result = "false"]} \cup
             (IF piece.part = "head" THEN {[more EXCEPT !.state = piece.n]} ELSE {})
      [] s.result = "indeterminate" /\ piece.kind # "bad" ->
             IF piece.part = "head" /\ s.state = Start
             THEN {[more EXCEPT !.state = piece.n]}
             ELSE IF piece.part = "tail" /\ s.state = piece.n
             THEN {[more EXCEPT !.result = "true"]}
             ELSE {[more EXCEPT !.result = "false"], [more EXCEPT !.state = Junk]}

\* The results after each of the pieces of b, from the results in S.
ParseAll(S, b) ==
    LET after[k \in 0 .. Len(b)] ==
            IF k = 0 THEN S ELSE UNION {ParsePiece(s, b[k]) : s \in after[k - 1]}
    IN  after

\* request_parser::parse over the buffer; the position where it stopped, its
\* second result, is ignored by do_read.
Parse(c) ==
    ParseAll({[state |-> state_[c], req |-> request_[c], result |-> "indeterminate"]},
             buffer_[c])[Len(buffer_[c])]

-----------------------------------------------------------------------------
(* The handlers.  Each is one step up to the operation it starts, its last *)
(* act; Return is what is left of it.                                      *)

Handles(t, c, ph) == proc = "running" /\ run[t] = c /\ t \notin ending /\ phase[c] = ph

\* The handler of c has started an operation: from here on it may complete.
Begin(t, c, operation) ==
    /\ phase' = [phase EXCEPT ![c] = operation]
    /\ ending' = ending \cup {t}
    /\ UNCHANGED <<run, strand_>>

\* The handler of c returns without having started one: it held the last
\* reference, so the object and its socket are gone.
Close(t, c) ==
    /\ phase' = [phase EXCEPT ![c] = "closed"]
    /\ run' = [run EXCEPT ![t] = NoConn]
    /\ UNCHANGED <<ending, strand_>>

HandshakeDone(t, c) ==
    /\ Handles(t, c, "handshake_done")
    /\ IF err[c] THEN Close(t, c) ELSE Begin(t, c, "read")
    /\ UNCHANGED <<ssl, eager, proc, err, queue, local, peer, sent, got>>

\* Seeded fault: the read is started again on an error.
ReadAgain(t, c) ==
    /\ Handles(t, c, "read_done") /\ err[c]
    /\ Begin(t, c, "read")
    /\ UNCHANGED <<ssl, eager, proc, err, queue, local, peer, sent, got>>

\* A failed read: nothing is started.
ReadError(t, c) ==
    /\ Handles(t, c, "read_done") /\ err[c]
    /\ Close(t, c)
    /\ UNCHANGED <<ssl, eager, proc, err, queue, local, peer, sent, got>>

\* parse() takes the buffer, with result p.
Parsed(t, c, p) ==
    /\ Handles(t, c, "read_done") /\ ~err[c]
    /\ p \in Parse(c)
    /\ state_' = [state_ EXCEPT ![c] = p.state]
    /\ request_' = [request_ EXCEPT ![c] = p.req]
    /\ buffer_' = [buffer_ EXCEPT ![c] = <<>>]
    /\ UNCHANGED <<ssl, eager, err, queue, wire, peer, sent, got>>

\* Seeded fault: an incomplete request starts no further read.
ReadNoMore(t, c) ==
    \E p \in Parse(c) :
        /\ p.result = "indeterminate"
        /\ Parsed(t, c, p)
        /\ Close(t, c)
        /\ UNCHANGED <<proc, option, response_>>

\* More data is required.
ReadMore(t, c) ==
    \E p \in Parse(c) :
        /\ p.result = "indeterminate"
        /\ Parsed(t, c, p)
        /\ Begin(t, c, "read")
        /\ UNCHANGED <<proc, option, response_>>

\* Seeded fault: every request counts as HTTP/1.0.
AlwaysClose(c, kind) == IF ssl THEN option[c] ELSE "c"

\* parse_connection_header, in connection only.
ConnectionOption(c, kind) ==
    IF ssl THEN option[c] ELSE IF kind = "close" THEN "c" ELSE "other"

\* handle_request catches what the route throws and always leaves a response:
\* a file or route appends to response_, and every error (no access, a bad uri,
\* not found, an exception) replaces it by a static one.
HandleRequest(c, req) ==
    {[of |-> req, status |-> "answered"],
     [of |-> response_[c].of \cup req, status |-> "answered"]}

\* A complete request is handled, and the response written.
Serve(t, c) ==
    \E p \in Parse(c) :
        /\ p.result = "true"
        /\ sent[c][p.state] # "throws"
        /\ Parsed(t, c, p)
        /\ option' = [option EXCEPT ![c] = ConnectionOption(c, sent[c][p.state])]
        /\ \E res \in HandleRequest(c, p.req) : response_' = [response_ EXCEPT ![c] = res]
        /\ Begin(t, c, "write")
        /\ UNCHANGED proc

\* An exception before handle_request: remote_endpoint() on a connection the
\* peer has reset, or parse_params, parse_cookies or parse_content.  Nothing
\* catches it between here and the thread's start function.
Escape(t, c) ==
    \E p \in Parse(c) :
        /\ p.result = "true"
        /\ peer[c] = "gone" \/ sent[c][p.state] = "throws"
        /\ Parsed(t, c, p)
        /\ proc' = "terminated"
        /\ UNCHANGED <<phase, threads, option, response_>>

\* Invalid data: the static response replaces whatever response_ held.
Refuse(t, c) ==
    \E p \in Parse(c) :
        /\ p.result = "false"
        /\ Parsed(t, c, p)
        /\ response_' = [response_ EXCEPT ![c] = [of |-> p.req, status |-> "bad_request"]]
        /\ Begin(t, c, "write")
        /\ UNCHANGED <<proc, option>>

\* A failed write, or a shutdown because the request asked for it.
WriteDoneClose(t, c) ==
    /\ Handles(t, c, "write_done")
    /\ err[c] \/ (~ssl /\ option[c] = "c")
    /\ Close(t, c)
    /\ UNCHANGED <<ssl, eager, proc, err, queue, local, peer, sent, got>>

\* Seeded fault: request_ is not reset, so the parser appends to it.
WriteDoneKeepsRequest(t, c) ==
    /\ Handles(t, c, "write_done")
    /\ ~err[c] /\ (ssl \/ option[c] # "c")
    /\ state_' = [state_ EXCEPT ![c] = Start]
    /\ response_' = [response_ EXCEPT ![c] = NoResponse]
    /\ Begin(t, c, "read")
    /\ UNCHANGED <<ssl, eager, proc, err, queue, wire, buffer_, request_, option,
                   peer, sent, got>>

\* Parser, request and response are reset, and the next request is read.
WriteDone(t, c) ==
    /\ Handles(t, c, "write_done")
    /\ ~err[c] /\ (ssl \/ option[c] # "c")
    /\ state_' = [state_ EXCEPT ![c] = Start]
    /\ request_' = [request_ EXCEPT ![c] = {}]
    /\ option' = [option EXCEPT ![c] = "other"]
    /\ response_' = [response_ EXCEPT ![c] = NoResponse]
    /\ Begin(t, c, "read")
    /\ UNCHANGED <<ssl, eager, proc, err, queue, wire, buffer_, peer, sent, got>>

-----------------------------------------------------------------------------
Client(c) == PeerGone(c) \/ \E kind \in Kinds : Send(c, kind)

Operation(c) ==
    \/ HandshakeOk(c) \/ HandshakeFails(c) \/ ReadSome(c) \/ ReadFails(c)
    \/ WriteAll(c) \/ WriteFails(c)

Handler(t, c) ==
    \/ HandshakeDone(t, c) \/ ReadError(t, c) \/ ReadMore(t, c) \/ Serve(t, c)
    \/ Escape(t, c) \/ Refuse(t, c) \/ WriteDoneClose(t, c) \/ WriteDone(t, c)

\* The process is gone, or every connection is.
Finished ==
    /\ proc = "terminated" \/ \A c \in Conns : phase[c] = "closed"
    /\ UNCHANGED vars

Next ==
    \/ \E c \in Conns : Client(c) \/ Accept(c) \/ Operation(c)
    \/ \E t \in Threads : Dispatch(t) \/ Return(t) \/ \E c \in Conns : Handler(t, c)
    \/ Finished

Spec == Init /\ [][Next]_vars

\* The threads keep running the io_service and every handler returns; the
\* kernel completes an operation that can complete (a client that does not
\* read its response is gone some day).  Nothing is assumed of clients.
Fairness ==
    /\ \A t \in Threads :
        WF_vars(Dispatch(t)) /\ WF_vars(Return(t) \/ \E c \in Conns : Handler(t, c))
    /\ \A c \in Conns : WF_vars(Operation(c))

FairSpec == Spec /\ Fairness

-----------------------------------------------------------------------------
(* Properties                                                              *)

Statuses == {"none", "answered", "bad_request"}
Numbers == 1 .. MaxRequests
Responses == [of : SUBSET Numbers, status : Statuses]
Pieces == [n : Numbers, kind : Kinds, part : {"head", "tail"}]
Phases == {"new", "handshake", "handshake_done", "read", "read_done", "write", "write_done", "closed"}

\* The types of the variables.
TypeOK ==
    /\ ssl \in BOOLEAN /\ eager \in [Conns -> BOOLEAN]
    /\ proc \in {"running", "terminated"}
    /\ phase \in [Conns -> Phases]
    /\ err \in [Conns -> BOOLEAN]
    /\ queue \in Seq(Conns)
    /\ run \in [Threads -> Conns \cup {NoConn}] /\ ending \subseteq Threads /\ strand_ \subseteq Conns
    /\ wire \in [Conns -> Seq(Pieces)] /\ buffer_ \in [Conns -> Seq(Pieces)]
    /\ state_ \in [Conns -> {Start, Junk} \cup Numbers]
    /\ request_ \in [Conns -> SUBSET Numbers]
    /\ option \in [Conns -> {"c", "other"}]
    /\ response_ \in [Conns -> Responses]
    /\ peer \in [Conns -> {"up", "gone"}]
    /\ sent \in [Conns -> Seq(Kinds)] /\ \A c \in Conns : Len(sent[c]) <= MaxRequests
    /\ got \in [Conns -> Seq(Responses)]

\* "Strand to ensure the connection's handlers are not called concurrently":
\* the next operation is started inside a handler and may complete, and be
\* taken by another thread, before that handler returns, yet no two threads are
\* ever inside one connection.  And the strand loses and doubles nothing: a
\* handler waits only for one that is running, and while an operation has
\* completed, its handler is queued, waits in the strand or is about to act in
\* exactly one place, and in none otherwise.
OneHandler ==
    \A c \in Conns :
        LET inside == {t \in Threads : run[t] = c}
            places == {i \in DOMAIN queue : queue[i] = c}
        IN
        /\ Cardinality(inside) <= 1
        /\ c \in strand_ => inside # {}
        /\ Cardinality(places) + Cardinality(inside \ ending) + Cardinality({c} \cap strand_) =
              IF phase[c] \in {"handshake_done", "read_done", "write_done"} THEN 1 ELSE 0

\* A client that sends well-formed requests one at a time receives, as its
\* i-th response, the answer to its i-th request, made from that request
\* alone: nothing of an earlier request or response on the same connection
\* is left in the parser, in request_ or in response_.
MatchedAnswers ==
    \A c \in Conns : ~eager[c] /\ WellFormed(c) =>
        \A i \in DOMAIN got[c] : got[c][i] = [of |-> {i}, status |-> "answered"]

\* The server closes a connection only on an error of the client's end, or
\* after the response to a request that asked for it, or, on a plain
\* connection, after a refused first request, whose connection_option no
\* constructor has set.
ClosedForAReason ==
    [][\A c \in Conns : phase[c] # "closed" /\ phase'[c] = "closed" =>
        \/ err[c]
        \/ ~ssl /\ Len(sent[c]) > 0 /\ sent[c][Len(sent[c])] = "close"
        \/ ~ssl /\ response_[c].status = "bad_request" /\ 1 \in response_[c].of]_vars

\* A well-formed request of a client that sends one at a time is answered,
\* unless the client leaves or an exception ends the process.
EveryRequestAnswered ==
    \A c \in Conns : \A i \in Numbers :
        (Len(sent[c]) = i /\ ~eager[c] /\ WellFormed(c)) ~>
            (Len(got[c]) >= i \/ peer[c] = "gone" \/ proc = "terminated")

\* The object of a connection whose client has left is destroyed, whatever it
\* was doing.
Reclaimed ==
    \A c \in Conns : (peer[c] = "gone") ~> (phase[c] = "closed" \/ proc = "terminated")
=============================================================================
