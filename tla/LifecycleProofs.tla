--------------------------- MODULE LifecycleProofs --------------------------
(***************************************************************************)
(* Machine-checked proof that, for any pool of threads and any number of   *)
(* clients, errors and signals, the services outlive the threads that use  *)
(* them through the locator's raw pointers.                                *)
(*                                                                         *)
(* The services and the threads are never compared by the code: main's     *)
(* progress is all that relates them, so the invariant says what each      *)
(* stage of main implies for both.                                         *)
(***************************************************************************)
EXTENDS Lifecycle, TLAPS

-----------------------------------------------------------------------------
(* The inductive invariant                                                 *)

\* Services initialised before main reaches stage s.
Before(s) ==
    CASE s = "cfg" -> {}
      [] s = "log" -> {"cfg"}
      [] s = "db" -> {"cfg", "log"}
      [] s = "rd" -> {"cfg", "log", "db"}

All == {"log", "cfg", "db", "rd", "server"}

\* What main has constructed and initialised, stage by stage.
MainSound ==
    /\ stage = "construct" => initialised = {}
    /\ stage \in Services => alive = Services /\ initialised = Before(stage)
    /\ stage = "server" => alive = Services /\ initialised = Services
    /\ stage \in {"spawn", "join"} => alive = All /\ initialised = Services

\* Where the threads are, stage by stage: the destructors run after the last of
\* them has left, or one of them was never created.
PoolSound ==
    /\ stage \in {"construct", "server"} \cup Services => \A t \in Threads : thr[t] = "none"
    /\ stage = "join" => \A t \in Threads : thr[t] # "none"
    /\ stage = "unwind" /\ (\A t \in Threads : thr[t] # "none") =>
          \A t \in Threads : thr[t] = "exited"

Stages ==
    {"construct", "server", "spawn", "join", "unwind", "exited", "killed"} \cup Services

Typed ==
    /\ stage \in Stages
    /\ ready \in Seq(Handlers)
    /\ thr \in [Threads -> {"none", "polling", "exited"} \cup Handlers]

IInv == Typed /\ MainSound /\ PoolSound

-----------------------------------------------------------------------------
(* Operators                                                               *)

\* main's locals are the services and the server.
LEMMA ObjectsFacts == Range(Objects) = All /\ All = Services \cup {"server"}
  <1>1. DOMAIN Objects = 1 .. 5
    BY DEF Objects
  <1>2. /\ Objects[1] = "log" /\ Objects[2] = "cfg" /\ Objects[3] = "db"
        /\ Objects[4] = "rd" /\ Objects[5] = "server"
    BY DEF Objects
  <1>3. 1 .. 5 = {1, 2, 3, 4, 5}
    OBVIOUS
  <1> QED BY <1>1, <1>2, <1>3 DEF Range, All, Services

\* The order of the calls to init().
LEMMA FollowingFacts ==
    /\ Following("cfg") = "log" /\ Following("log") = "db"
    /\ Following("db") = "rd" /\ Following("rd") = "server"
    /\ Head(InitOrder) = "cfg"
  <1>1. /\ Len(InitOrder) = 4 /\ InitOrder[1] = "cfg" /\ InitOrder[2] = "log"
        /\ InitOrder[3] = "db" /\ InitOrder[4] = "rd" /\ Head(InitOrder) = "cfg"
    BY DEF InitOrder
  <1>2. Last(InitOrder) = "rd"
    BY <1>1 DEF Last
  <1>3. ASSUME NEW s, NEW n \in 2 .. 4, InitOrder[n - 1] = s, s # "rd",
               \A i \in 2 .. 4 : InitOrder[i - 1] = s => i = n
        PROVE  Following(s) = InitOrder[n]
    <2>1. (CHOOSE i \in 2 .. 4 : InitOrder[i - 1] = s) = n
      BY <1>3
    <2> QED BY <1>1, <1>2, <1>3, <2>1 DEF Following
  <1>4. \A i \in 2 .. 4 : i = 2 \/ i = 3 \/ i = 4
    OBVIOUS
  <1>5. 2 - 1 = 1 /\ 3 - 1 = 2 /\ 4 - 1 = 3
    OBVIOUS
  <1>6. Following("cfg") = "log"
    BY <1>1, <1>3, <1>4, <1>5
  <1>7. Following("log") = "db"
    BY <1>1, <1>3, <1>4, <1>5
  <1>8. Following("db") = "rd"
    BY <1>1, <1>3, <1>4, <1>5
  <1>9. Following("rd") = "server"
    BY <1>2 DEF Following
  <1> QED BY <1>1, <1>6, <1>7, <1>8, <1>9

-----------------------------------------------------------------------------
(* Every step keeps the invariant                                          *)

\* init() of one service, or its failure.
LEMMA InitStep ==
    ASSUME IInv, NEW s \in Services, Succeeds(s) \/ InitFails(s)
    PROVE  IInv'
  <1>1. s \in {"cfg", "log", "db", "rd"} /\ UNCHANGED <<alive, ready, thr>> /\ stage = s
    BY DEF Succeeds, InitFails, service, Services
  <1>2. alive = Services /\ initialised = Before(s) /\ \A t \in Threads : thr[t] = "none"
    BY <1>1 DEF IInv, MainSound, PoolSound, Services
  <1>3. CASE InitFails(s)
    <2>1. stage' = "unwind"
      BY <1>3 DEF InitFails
    <2> QED BY <1>1, <1>2, <2>1 DEF IInv, Typed, Stages, MainSound, PoolSound, Services
  <1>4. CASE Succeeds(s)
    <2>1. stage' = Following(s) /\ initialised' = Before(s) \cup {s}
      BY <1>2, <1>4 DEF Succeeds
    <2>2. \/ stage' = "server" /\ initialised' = Services
          \/ stage' \in Services /\ initialised' = Before(stage')
      BY <1>1, <2>1, FollowingFacts DEF Before, Services
    <2> QED BY <1>1, <1>2, <2>2 DEF IInv, Typed, Stages, MainSound, PoolSound, Services
  <1> QED BY <1>3, <1>4

\* The other steps of main.
LEMMA MainKeeps ==
    ASSUME IInv, MainStep
    PROVE  IInv'
  <1>1. CASE Construct
    <2>1. stage' = "cfg" /\ stage = "construct" /\ alive' = Services
          /\ UNCHANGED <<initialised, ready, thr>>
      BY <1>1, FollowingFacts DEF Construct, service
    <2>2. Before("cfg") = {}
      BY DEF Before
    <2> QED BY <2>1, <2>2 DEF IInv, Typed, Stages, MainSound, PoolSound, Services
  <1>2. CASE ConstructThrows
    BY <1>2 DEF ConstructThrows, Kill, service, IInv, Typed, Stages, MainSound, PoolSound, Services
  <1>3. CASE InitConfig \/ InitLogger \/ InitDatabase \/ InitRedis
    BY <1>3, InitStep DEF InitConfig, InitLogger, InitDatabase, InitRedis, Services
  <1>4. CASE ServerUp
    <2>1. stage' = "spawn" /\ alive' = All /\ initialised' = Services /\ UNCHANGED <<ready, thr>>
      BY <1>4, ObjectsFacts DEF ServerUp, IInv, MainSound
    <2> QED BY <2>1 DEF IInv, Typed, Stages, MainSound, PoolSound, Services
  <1>5. CASE ServerThrows
    BY <1>5 DEF ServerThrows, service, IInv, Typed, Stages, MainSound, PoolSound, Services
  <1>6. ASSUME NEW t \in Threads, Spawn(t)
        PROVE  IInv'
    <2>1. Typed'
      BY <1>6 DEF Spawn, service, IInv, Typed
    <2> QED BY <1>6, <2>1 DEF Spawn, IInv, MainSound, PoolSound, Services
  <1>7. CASE SpawnThrows
    BY <1>7 DEF SpawnThrows, service, IInv, Typed, Stages, MainSound, PoolSound, Services
  <1>8. CASE SpawnDone
    BY <1>8 DEF SpawnDone, service, IInv, Typed, Stages, MainSound, PoolSound, Services
  <1>9. CASE Join
    BY <1>9 DEF Join, service, IInv, Typed, Stages, MainSound, PoolSound, Services
  <1>10. CASE Destroy
    <2>1. stage = "unwind" /\ UNCHANGED <<stage, thr>> /\ ready' \in {ready, <<>>}
      BY <1>10 DEF Destroy
    <2>2. ready' \in Seq(Handlers)
      <3>1. <<>> \in Seq(Handlers)
        OBVIOUS
      <3>2. ready \in Seq(Handlers)
        BY DEF IInv, Typed
      <3> QED BY <2>1, <3>1, <3>2
    <2> QED BY <2>1, <2>2 DEF IInv, Typed, MainSound, PoolSound, Services
  <1>11. CASE Exit
    BY <1>11 DEF Exit, service, IInv, Typed, Stages, MainSound, PoolSound, Services
  <1> QED BY <1>1, <1>2, <1>3, <1>4, <1>5, <1>6, <1>7, <1>8, <1>9, <1>10, <1>11 DEF MainStep

\* A thread that runs a handler was created and has not left: it stays created,
\* and main does not move.
LEMMA ThreadKeeps ==
    ASSUME IInv, NEW t \in Threads, ThreadStep(t)
    PROVE  IInv'
  <1>1. CASE RequestEscapes(t)
    BY <1>1 DEF RequestEscapes, Kill, service, IInv, Typed, Stages, MainSound, PoolSound, Services
  <1>2. ASSUME NEW to \in {"polling", "exited"} \cup Handlers, thr' = [thr EXCEPT ![t] = to],
               thr[t] \notin {"none", "exited"}, ready' \in Seq(Handlers),
               UNCHANGED <<stage, alive, initialised>>
        PROVE  IInv'
    <2>1. Typed'
      BY <1>2 DEF IInv, Typed
    <2>2. to # "none"
      BY DEF Handlers, Signals
    <2>3. \A u \in Threads : thr'[u] = "none" <=> thr[u] = "none"
      BY <1>2, <2>2 DEF IInv, Typed
    <2>4. PoolSound'
      BY <1>2, <2>3 DEF IInv, PoolSound
    <2> QED BY <1>2, <2>1, <2>4 DEF IInv, MainSound
  <1>3. CASE Take(t)
    <2>1. Head(ready) \in Handlers /\ Tail(ready) \in Seq(Handlers)
      BY <1>3 DEF Take, IInv, Typed
    <2> QED BY <1>2, <1>3, <2>1 DEF Take, Running, Handlers
  <1>4. CASE Leave(t)
    BY <1>2, <1>4 DEF Leave, Running, service, IInv, Typed
  <1>5. CASE Accepted(t) \/ AcceptError(t) \/ Request(t) \/ StopSignal(t) \/ HupSignal(t)
    <2>1. /\ thr' = [thr EXCEPT ![t] = "polling"] /\ thr[t] \notin {"none", "exited"}
          /\ UNCHANGED <<ready, stage, alive, initialised>>
      BY <1>5 DEF Accepted, AcceptError, Request, StopSignal, HupSignal, Running, service
    <2> QED BY <1>2, <2>1 DEF IInv, Typed
  <1> QED BY <1>1, <1>3, <1>4, <1>5 DEF ThreadStep, Handler

\* The kernel only queues completed operations.
LEMMA WorldKeeps ==
    ASSUME IInv, World
    PROVE  IInv'
  <1>1. ASSUME ready' \in Seq(Handlers), UNCHANGED <<stage, alive, initialised, thr>>
        PROVE  IInv'
    BY <1>1 DEF IInv, Typed, MainSound, PoolSound
  <1>2. CASE Connect
    BY <1>1, <1>2 DEF Connect, service, IInv, Typed
  <1>3. \A h \in Handlers : Append(ready, h) \in Seq(Handlers)
    BY DEF IInv, Typed
  <1>4. CASE AcceptCompletes \/ AcceptFails \/ RequestArrives
    BY <1>1, <1>3, <1>4 DEF AcceptCompletes, AcceptFails, RequestArrives, Handlers
  <1>5. ASSUME NEW s \in Signals, Signal(s)
        PROVE  IInv'
    <2>1. ready' = Append(ready, s) \/ ready' = ready
      BY <1>5 DEF Signal
    <2> QED BY <1>1, <1>3, <1>5, <2>1 DEF Signal, Handlers, IInv, Typed
  <1>6. CASE SignalKills
    BY <1>6 DEF SignalKills, Kill, service, IInv, Typed, Stages, MainSound, PoolSound, Services
  <1> QED BY <1>2, <1>4, <1>5, <1>6 DEF World

\* Nothing is constructed and no thread exists in the first state.
LEMMA InitIInv == Init => IInv
  BY DEF Init, IInv, Typed, Stages, MainSound, PoolSound, Services

\* Every step keeps the invariant.
THEOREM Invariance == Spec => []IInv
  <1>1. IInv /\ [Next]_vars => IInv'
    <2>1. IInv /\ UNCHANGED vars => IInv'
      BY DEF vars, service, IInv, Typed, MainSound, PoolSound
    <2> QED BY <2>1, MainKeeps, ThreadKeeps, WorldKeeps DEF Next
  <1> QED BY <1>1, InitIInv, PTL DEF Spec

\* However the server is stopped, no thread of a complete pool is inside the
\* io_service once a destructor of main has run.
THEOREM ServicesOutlive == Spec => []ServicesOutliveThreads
  <1>1. IInv => ServicesOutliveThreads
    <2> SUFFICES ASSUME IInv, ~Over, stage = "spawn" \/ \A u \in Threads : thr[u] # "none",
                        NEW t \in Threads, thr[t] \notin {"none", "exited"}
                 PROVE  alive = Range(Objects) /\ initialised = Services
      BY DEF ServicesOutliveThreads, Served
    <2>1. stage \in {"spawn", "join"}
      BY DEF IInv, Typed, Stages, PoolSound, Over
    <2> QED BY <2>1, ObjectsFacts DEF IInv, MainSound
  <1> QED BY <1>1, Invariance, PTL
=============================================================================
