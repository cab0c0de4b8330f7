----------------------------- MODULE Lifecycle ------------------------------
(***************************************************************************)
(* The process: main constructs and initialises the services, runs the     *)
(* server's pool of threads, joins them and destroys everything in reverse *)
(* order.  server and server_ssl have the same accept loop and the same    *)
(* wait for signals, so one model stands for both.                         *)
(*                                                                         *)
(* What a connection does with its requests is HttpConnection's subject;   *)
(* here a request is one handler that uses every service the locator       *)
(* names, and may let an exception escape.                                 *)
(***************************************************************************)
EXTENDS Integers, Sequences, FiniteSets, SequencesExt

CONSTANTS
    Threads,        \* cfg "num_threads": the pool
    MaxClients,     \* bound: clients that connect
    MaxErrors,      \* bound: accept operations that fail
    MaxSignals      \* bound: signals sent to the process

ASSUME ThreadsAssumption == IsFiniteSet(Threads)
ASSUME BoundsAssumption == {MaxClients, MaxErrors, MaxSignals} \subseteq Nat

\* The locals of main in the order of their construction.  The server is the
\* last, in a scope of its own.
Objects == <<"log", "cfg", "db", "rd", "server">>
Services == {"log", "cfg", "db", "rd"}

\* The order of the calls to init().
InitOrder == <<"cfg", "log", "db", "rd">>

\* SIGINT and SIGQUIT are treated as SIGTERM is.
Signals == {"HUP", "TERM"}

VARIABLES
    stage,          \* where main is
    alive,          \* objects constructed and not destroyed
    initialised,    \* services whose init() has succeeded
    wait,           \* the asynchronous wait for a signal
    accept,         \* the asynchronous accept
    ready,          \* the io_service's queue of completed operations
    stopped,        \* io_service_.stop() has been called
    thr,            \* thr[t]: what a thread of the pool does
    backlog,        \* clients the kernel has queued for accept
    conns,          \* accepted connections that will send a request
    clients, errors, \* clients that have connected, accepts that have failed
    received        \* the signals delivered to the signal_set, in order

service == <<wait, accept, ready, stopped>>
world == <<backlog, conns, clients, errors, received>>
vars == <<stage, alive, initialised, service, thr, world>>

Init ==
    /\ stage = "construct"
    /\ alive = {} /\ initialised = {}
    /\ wait = "none" /\ accept = "none" /\ ready = <<>> /\ stopped = FALSE
    /\ thr = [t \in Threads |-> "none"]
    /\ backlog = 0 /\ conns = 0 /\ clients = 0 /\ errors = 0
    /\ received = <<>>

\* The process has ended, by main's return or otherwise.
Over == stage \in {"exited", "killed"}

Kill == stage' = "killed" /\ UNCHANGED <<alive, initialised, service, thr>>

-----------------------------------------------------------------------------
(* main                                                                    *)

\* The constructors of log_, cfg, db and rd, and locator::put of each.
Construct ==
    /\ stage = "construct"
    /\ stage' = Head(InitOrder)
    /\ alive' = Services
    /\ UNCHANGED <<initialised, service, thr, world>>

\* mysql_library_init fails: db's constructor throws, outside the try block.
ConstructThrows ==
    /\ stage = "construct"
    /\ Kill /\ UNCHANGED world

\* The stage after init() of s.
Following(s) ==
    IF s = Last(InitOrder) THEN "server"
    ELSE InitOrder[CHOOSE i \in 2 .. Len(InitOrder) : InitOrder[i - 1] = s]

Succeeds(s) ==
    /\ stage = s
    /\ initialised' = initialised \cup {s}
    /\ stage' = Following(s)
    /\ UNCHANGED <<alive, service, thr, world>>

\* init() returns false or throws; main logs it and returns.
InitFails(s) ==
    /\ stage = s
    /\ stage' = "unwind"
    /\ UNCHANGED <<alive, initialised, service, thr, world>>

\* config::init reads the file; it fails if a section or an item is missing.
InitConfig == Succeeds("cfg") \/ InitFails("cfg")

\* The others ask the configuration for their section, and fail without it: the
\* logger if it does not know the level or the rotation, the databases and redis
\* if one of their pools cannot be filled.
InitLogger == ("cfg" \in initialised /\ Succeeds("log")) \/ InitFails("log")
InitDatabase == ("cfg" \in initialised /\ Succeeds("db")) \/ InitFails("db")
InitRedis == ("cfg" \in initialised /\ Succeeds("rd")) \/ InitFails("rd")

\* The server's constructor: the signals are registered, and the first wait
\* and the first accept started.
ServerUp ==
    /\ stage = "server"
    /\ stage' = "spawn"
    /\ alive' = alive \cup {"server"}
    /\ wait' = "armed" /\ accept' = "armed"
    /\ UNCHANGED <<initialised, ready, stopped, thr, world>>

\* The address does not resolve, or cannot be bound; caught by main.
ServerThrows ==
    /\ stage = "server"
    /\ stage' = "unwind"
    /\ UNCHANGED <<alive, initialised, service, thr, world>>

\* run(): a new thread calls io_service::run.
Spawn(t) ==
    /\ stage = "spawn" /\ thr[t] = "none"
    /\ thr' = [thr EXCEPT ![t] = "polling"]
    /\ UNCHANGED <<stage, alive, initialised, service, world>>

\* No more threads: std::system_error leaves run(), past the joins.
SpawnThrows ==
    /\ stage = "spawn" /\ \E t \in Threads : thr[t] = "none"
    /\ stage' = "unwind"
    /\ UNCHANGED <<alive, initialised, service, thr, world>>

SpawnDone ==
    /\ stage = "spawn" /\ \A t \in Threads : thr[t] # "none"
    /\ stage' = "join"
    /\ UNCHANGED <<alive, initialised, service, thr, world>>

\* Seeded fault: run() waits for one thread only.
JoinOne ==
    /\ stage = "join" /\ \E t \in Threads : thr[t] = "exited"
    /\ stage' = "unwind"
    /\ UNCHANGED <<alive, initialised, service, thr, world>>

Join ==
    /\ stage = "join" /\ \A t \in Threads : thr[t] = "exited"
    /\ stage' = "unwind"
    /\ UNCHANGED <<alive, initialised, service, thr, world>>

\* Scopes end: the youngest object is destroyed, the server with its
\* io_service and the handlers queued there.
Destroy ==
    /\ stage = "unwind" /\ alive # {}
    /\ LET youngest == Objects[CHOOSE i \in DOMAIN Objects :
                          /\ Objects[i] \in alive
                          /\ \A j \in i + 1 .. Len(Objects) : Objects[j] \notin alive] IN
       /\ alive' = alive \ {youngest}
       /\ initialised' = initialised \ {youngest}
       /\ IF youngest = "server"
          THEN wait' = "none" /\ accept' = "none" /\ ready' = <<>>
          ELSE UNCHANGED <<wait, accept, ready>>
    /\ UNCHANGED <<stage, stopped, thr, world>>

Exit ==
    /\ stage = "unwind" /\ alive = {}
    /\ stage' = "exited"
    /\ UNCHANGED <<alive, initialised, service, thr, world>>

-----------------------------------------------------------------------------
(* A thread of the pool                                                    *)

Running(t, what) == ~Over /\ thr[t] = what

\* io_service::run: the oldest completed operation.
Take(t) ==
    /\ Running(t, "polling") /\ "server" \in alive
    /\ ~stopped /\ ready # <<>>
    /\ thr' = [thr EXCEPT ![t] = Head(ready)]
    /\ ready' = Tail(ready)
    /\ UNCHANGED <<stage, alive, initialised, wait, accept, stopped, world>>

\* io_service::run returns after stop().
Leave(t) ==
    /\ Running(t, "polling") /\ stopped
    /\ thr' = [thr EXCEPT ![t] = "exited"]
    /\ UNCHANGED <<stage, alive, initialised, service, world>>

\* do_accept's handler without an error: the connection is started, and the
\* next accept.
Accepted(t) ==
    /\ Running(t, "accepted")
    /\ conns' = conns + 1
    /\ accept' = "armed"
    /\ thr' = [thr EXCEPT ![t] = "polling"]
    /\ UNCHANGED <<stage, alive, initialised, wait, ready, stopped, backlog,
                   clients, errors, received>>

\* Seeded fault: the handler returns on an error, as those of connection do.
AcceptErrorReturns(t) ==
    /\ Running(t, "accept_error")
    /\ thr' = [thr EXCEPT ![t] = "polling"]
    /\ UNCHANGED <<stage, alive, initialised, service, world>>

\* do_accept's handler with an error.
AcceptError(t) ==
    /\ Running(t, "accept_error")
    /\ accept' = "armed"
    /\ thr' = [thr EXCEPT ![t] = "polling"]
    /\ UNCHANGED <<stage, alive, initialised, wait, ready, stopped, world>>

\* A connection's handler, see HttpConnection.
Request(t) ==
    /\ Running(t, "request")
    /\ thr' = [thr EXCEPT ![t] = "polling"]
    /\ UNCHANGED <<stage, alive, initialised, service, world>>

\* An exception leaves the handler and the thread: std::terminate.
RequestEscapes(t) ==
    /\ Running(t, "request")
    /\ Kill /\ UNCHANGED world

\* Seeded fault: every signal is only logged.
SignalIgnored(t) ==
    /\ Running(t, "TERM")
    /\ thr' = [thr EXCEPT ![t] = "polling"]
    /\ UNCHANGED <<stage, alive, initialised, service, world>>

\* do_await_stop's handler: stop, whatever the other handlers are doing.
StopSignal(t) ==
    /\ Running(t, "TERM")
    /\ stopped' = TRUE
    /\ thr' = [thr EXCEPT ![t] = "polling"]
    /\ UNCHANGED <<stage, alive, initialised, wait, accept, ready, world>>

\* do_await_stop's handler on SIGHUP: it returns, and waits for no other.
HupSignal(t) ==
    /\ Running(t, "HUP")
    /\ thr' = [thr EXCEPT ![t] = "polling"]
    /\ UNCHANGED <<stage, alive, initialised, service, world>>

-----------------------------------------------------------------------------
(* The kernel and the clients                                              *)

Listening == ~Over /\ "server" \in alive

Connect ==
    /\ Listening /\ clients < MaxClients
    /\ clients' = clients + 1 /\ backlog' = backlog + 1
    /\ UNCHANGED <<stage, alive, initialised, service, thr, conns, errors, received>>

AcceptCompletes ==
    /\ Listening /\ accept = "armed" /\ backlog > 0
    /\ accept' = "done" /\ ready' = Append(ready, "accepted")
    /\ backlog' = backlog - 1
    /\ UNCHANGED <<stage, alive, initialised, wait, stopped, thr, conns,
                   clients, errors, received>>

\* For instance out of file descriptors; the client stays queued.
AcceptFails ==
    /\ Listening /\ accept = "armed" /\ backlog > 0 /\ errors < MaxErrors
    /\ accept' = "done" /\ ready' = Append(ready, "accept_error")
    /\ errors' = errors + 1
    /\ UNCHANGED <<stage, alive, initialised, wait, stopped, thr, backlog, conns,
                   clients, received>>

RequestArrives ==
    /\ Listening /\ conns > 0
    /\ conns' = conns - 1
    /\ ready' = Append(ready, "request")
    /\ UNCHANGED <<stage, alive, initialised, wait, accept, stopped, thr, backlog,
                   clients, errors, received>>

\* A signal the signal_set is registered for completes the wait, or is kept
\* for the next one.
Signal(s) ==
    /\ Listening /\ Len(received) < MaxSignals
    /\ received' = Append(received, s)
    /\ IF wait = "armed" THEN wait' = "done" /\ ready' = Append(ready, s)
                         ELSE UNCHANGED <<wait, ready>>
    /\ UNCHANGED <<stage, alive, initialised, accept, stopped, thr, backlog, conns,
                   clients, errors>>

\* Before the server and after it, the default action.
SignalKills ==
    /\ ~Over /\ "server" \notin alive /\ MaxSignals > 0
    /\ Kill /\ UNCHANGED world

-----------------------------------------------------------------------------
MainStep ==
    \/ Construct \/ ConstructThrows
    \/ InitConfig \/ InitLogger \/ InitDatabase \/ InitRedis
    \/ ServerUp \/ ServerThrows
    \/ \E t \in Threads : Spawn(t)
    \/ SpawnThrows \/ SpawnDone \/ Join \/ Destroy \/ Exit

Handler(t) ==
    \/ Accepted(t) \/ AcceptError(t) \/ Request(t) \/ RequestEscapes(t)
    \/ StopSignal(t) \/ HupSignal(t)

ThreadStep(t) == Take(t) \/ Leave(t) \/ Handler(t)

World ==
    \/ Connect \/ AcceptCompletes \/ AcceptFails \/ RequestArrives
    \/ \E s \in Signals : Signal(s)
    \/ SignalKills

Next == MainStep \/ (\E t \in Threads : ThreadStep(t)) \/ World

Spec == Init /\ [][Next]_vars

\* main and the threads of the pool are scheduled, their handlers return, and
\* the kernel completes an accept for which a client is queued.
FairSpec ==
    /\ Spec
    /\ WF_vars(MainStep)
    /\ \A t \in Threads : WF_vars(ThreadStep(t))
    /\ WF_vars(AcceptCompletes)

-----------------------------------------------------------------------------
(* Properties                                                              *)

Handlers == {"accepted", "accept_error", "request"} \cup Signals

\* The types of the variables.
TypeOK ==
    /\ stage \in {"construct", "server", "spawn", "join", "unwind", "exited", "killed"}
                 \cup Services
    /\ alive \subseteq Range(Objects) /\ initialised \subseteq alive
    /\ wait \in {"none", "armed", "done"} /\ accept \in {"none", "armed", "done"}
    /\ ready \in Seq(Handlers)
    /\ stopped \in BOOLEAN
    /\ thr \in [Threads -> {"none", "polling", "exited"} \cup Handlers]
    /\ backlog \in 0 .. MaxClients /\ conns \in 0 .. MaxClients
    /\ clients \in 0 .. MaxClients /\ errors \in 0 .. MaxErrors
    /\ received \in Seq(Signals) /\ Len(received) <= MaxSignals

\* A thread inside the io_service may be running a request, which finds the
\* server alive and every service alive and initialised.
Served(t) ==
    thr[t] \notin {"none", "exited"} =>
        alive = Range(Objects) /\ initialised = Services

\* Once the whole pool has been created, the locator's raw pointers and the
\* references a connection keeps are never stale: no thread is left in the
\* io_service when the first destructor runs, however the server is stopped.
ServicesOutliveThreads ==
    (~Over /\ (stage = "spawn" \/ \A t \in Threads : thr[t] # "none")) =>
        \A t \in Threads : Served(t)

\* A client in the backlog is accepted, unless the server stops: neither an
\* error nor a slow request ends the accept loop.
AcceptsForever == (Listening /\ backlog > 0) ~> (backlog = 0 \/ stopped \/ ~Listening)

\* If the first signal the server gets asks it to stop, the process ends,
\* through the joins and the destructors or by an escaped exception.
StopHonoured == (received # <<>> /\ Head(received) # "HUP") ~> Over

\* server.cpp: the registered signals "indicate when the server should exit";
\* bin/*_kill.sh sends SIGTERM and expects the process to be gone.
TermExits == ("TERM" \in Range(received)) ~> Over
=============================================================================
