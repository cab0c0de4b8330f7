------------------------------- MODULE Logger -------------------------------
(***************************************************************************)
(* The logger: request threads stamp a line, decide whether the log file   *)
(* is due for rotation and post jobs to the logger's own io_service, whose *)
(* one thread opens, renames and writes the files.                         *)
(*                                                                         *)
(* rotate() runs in the thread that logs and reads rotation_, file_ and    *)
(* file_created_ (twice: to compare and to name the archive) while the     *)
(* logger's thread may be assigning them; each read is a step of its own.  *)
(* Lines below level_ leave no trace and are not modelled.  Files can be   *)
(* opened, renamed and written: no error of the file system is modelled.   *)
(***************************************************************************)
EXTENDS Integers, Sequences, FiniteSets, SequencesExt

CONSTANTS
    Threads,         \* threads that log
    Main,            \* the thread of main, which also logs while starting
    Rotation,        \* cfg "rotation"
    MinutesPerHour, HoursPerDay, DaysPerMonth,   \* the calendar
    MaxTime,         \* bound: minutes that pass
    MaxLines         \* bound: lines logged

RotationTypes == {"every_minute", "hourly", "daily"}

ASSUME MainAssumption == Main \in Threads
ASSUME RotationAssumption == Rotation \in RotationTypes
ASSUME CalendarAssumption ==
    {MinutesPerHour, HoursPerDay, DaysPerMonth} \subseteq Nat \ {0}
ASSUME BoundsAssumption == MaxTime \in Nat /\ MaxLines \in Nat

VARIABLES
    now,            \* the clock, in minutes
    boot,           \* progress of main
    work_,          \* the io_service has a work object
    jobs,           \* the logger's io_service: posted handlers, oldest first
    file_, file_created_, rotation_,   \* members of logger
    open,           \* ofstream_ is open
    inode,          \* inode: the file ofstream_ writes to
    files,          \* the directory: a function from file names to lines
    pc, line,       \* pc[t], line[t]: thread t in log() and write(), its line
    count,          \* how many lines have been logged
    posted          \* history: the lines handed to the logger

logger == <<file_, file_created_, rotation_, open, inode, files>>
callers == <<pc, line, count, posted>>
vars == <<now, boot, work_, jobs, logger, callers>>

-----------------------------------------------------------------------------
(* Rotation periods.  A period is compared by one field of struct tm, and  *)
(* named by the full date.                                                 *)

Unit(r) ==
    CASE r = "every_minute" -> 1
      [] r = "hourly" -> MinutesPerHour
      [] r = "daily" -> MinutesPerHour * HoursPerDay

Cycle(r) ==
    CASE r = "every_minute" -> MinutesPerHour
      [] r = "hourly" -> HoursPerDay
      [] r = "daily" -> DaysPerMonth

Period(r, m) == m \div Unit(r)

\* tm_min, tm_hour or tm_mday.
TmField(r, m) == Period(r, m) % Cycle(r)

\* The name strftime gives an archive of base, and the name of the log itself.
Archive(base, r, m) == [base |-> base, unit |-> r, period |-> Period(r, m)]
LogFile == [base |-> "log", unit |-> "none", period |-> 0]

NoLine == [n |-> 0, m |-> 0]

Init ==
    /\ now = 0
    /\ boot = "constructed"
    /\ work_ = TRUE
    /\ jobs = <<>>
    /\ file_ = "" /\ file_created_ = 0 /\ rotation_ = "every_minute"
    /\ open = FALSE /\ inode = LogFile
    /\ files = [f \in {} |-> <<>>]
    /\ pc = [t \in Threads |-> "idle"]
    /\ line = [t \in Threads |-> NoLine]
    /\ count = 0
    /\ posted = {}

Post(job) == jobs' = Append(jobs, job)

Tick ==
    /\ now < MaxTime /\ boot # "destroyed"
    /\ now' = now + 1
    /\ UNCHANGED <<boot, work_, jobs, logger, callers>>

-----------------------------------------------------------------------------
(* main: file(), init(), the server's threads, ~logger                     *)

PostFile ==
    /\ boot = "constructed"
    /\ boot' = "configuring"
    /\ Post([op |-> "open"])
    /\ UNCHANGED <<now, work_, logger, callers>>

\* init() after config::init; an unknown rotation or level never gets here.
PostInit ==
    /\ boot = "configuring" /\ pc[Main] = "idle"
    /\ boot' = "serving"
    /\ Post([op |-> "config"])
    /\ UNCHANGED <<now, work_, logger, callers>>

\* Seeded fault: the work object is kept until after the join.
StopKeepsWork ==
    /\ boot \in {"configuring", "serving"}
    /\ \A t \in Threads : pc[t] = "idle"
    /\ boot' = "stopping"
    /\ UNCHANGED <<now, work_, jobs, logger, callers>>

\* The end of main, also after a failed start; the server's threads have been
\* joined.  ~logger gives up the work object.
Stop ==
    /\ boot \in {"configuring", "serving"}
    /\ \A t \in Threads : pc[t] = "idle"
    /\ boot' = "stopping"
    /\ work_' = FALSE
    /\ UNCHANGED <<now, jobs, logger, callers>>

\* io_service::run returns once the queue is empty and no work is left; then
\* thread_->join() returns, and the stream is flushed and closed.
Join ==
    /\ boot = "stopping" /\ ~work_ /\ jobs = <<>>
    /\ boot' = "destroyed"
    /\ open' = FALSE
    /\ UNCHANGED <<now, work_, jobs, file_, file_created_, rotation_, inode, files, callers>>

-----------------------------------------------------------------------------
(* A thread that logs                                                      *)

\* The constructor of log: the line is stamped here, and written when the
\* statement that builds it ends, some time later.
Log(t) ==
    /\ pc[t] = "idle" /\ count < MaxLines
    /\ boot = "serving" \/ (boot = "configuring" /\ t = Main)
    /\ pc' = [pc EXCEPT ![t] = "compare"]
    /\ count' = count + 1
    /\ line' = [line EXCEPT ![t] = [n |-> count + 1, m |-> now]]
    /\ UNCHANGED <<now, boot, work_, jobs, logger, posted>>

\* rotate(): is the line of another period than the file?  If so, the branch that was
\* taken fixes the format of the archive's name.
Compare(t) ==
    /\ pc[t] = "compare"
    /\ LET due == TmField(rotation_, line[t].m) # TmField(rotation_, file_created_) IN
       pc' = [pc EXCEPT ![t] = IF due THEN rotation_ ELSE "write"]
    /\ UNCHANGED <<now, boot, work_, jobs, logger, line, count, posted>>

\* rotate(): name the archive, and post the rotation.
PostRotate(t) ==
    /\ pc[t] \in RotationTypes
    /\ pc' = [pc EXCEPT ![t] = "write"]
    /\ Post([op |-> "rotate", to |-> Archive(file_, pc[t], file_created_)])
    /\ UNCHANGED <<now, boot, work_, logger, line, count, posted>>

\* Seeded fault: the thread writes its line itself when the stream is open.
PostWriteDirectly(t) ==
    /\ pc[t] = "write"
    /\ pc' = [pc EXCEPT ![t] = "idle"]
    /\ line' = [line EXCEPT ![t] = NoLine]
    /\ IF open THEN files' = [files EXCEPT ![inode] = Append(@, line[t])] /\ UNCHANGED jobs
               ELSE Post([op |-> "write", line |-> line[t]]) /\ UNCHANGED files
    /\ posted' = posted \cup {line[t]}
    /\ UNCHANGED <<now, boot, work_, file_, file_created_, rotation_, open, inode, count>>

PostWrite(t) ==
    /\ pc[t] = "write"
    /\ pc' = [pc EXCEPT ![t] = "idle"]
    /\ line' = [line EXCEPT ![t] = NoLine]
    /\ Post([op |-> "write", line |-> line[t]])
    /\ posted' = posted \cup {line[t]}
    /\ UNCHANGED <<now, boot, work_, logger, count>>

-----------------------------------------------------------------------------
(* The logger's thread: it runs the oldest job.                            *)

Job(op) ==
    /\ boot # "destroyed" /\ jobs # <<>> /\ Head(jobs).op = op
    /\ jobs' = Tail(jobs)
    /\ UNCHANGED <<now, boot, work_, callers>>

\* f with the value v at x.
With(f, x, v) == [y \in DOMAIN f \cup {x} |-> IF y = x THEN v ELSE f[y]]

\* open(file_, app): an existing file is continued, a missing one created.
Opened(dir) == IF LogFile \in DOMAIN dir THEN dir ELSE With(dir, LogFile, <<>>)

OpenJob ==
    /\ Job("open")
    /\ file_' = "log"
    /\ file_created_' = now
    /\ files' = Opened(files)
    /\ open' = TRUE /\ inode' = LogFile
    /\ UNCHANGED rotation_

ConfigJob ==
    /\ Job("config")
    /\ rotation_' = Rotation
    /\ UNCHANGED <<file_, file_created_, open, inode, files>>

\* Another thread has asked for the same rotation before.
RotateJobSkips ==
    /\ Job("rotate")
    /\ Head(jobs).to \in DOMAIN files
    /\ UNCHANGED logger

\* close, rename, and a new log file from now on.
Rotate ==
    /\ files' = Opened([f \in (DOMAIN files \ {LogFile}) \cup {Head(jobs).to} |->
                           IF f = Head(jobs).to THEN files[LogFile] ELSE files[f]])
    /\ file_created_' = now
    /\ open' = TRUE /\ inode' = LogFile
    /\ UNCHANGED <<file_, rotation_>>

\* Seeded fault: no test whether the archive exists; rename replaces it.
RotateJobReplaces == Job("rotate") /\ Rotate

RotateJob ==
    /\ Job("rotate")
    /\ Head(jobs).to \notin DOMAIN files
    /\ Rotate

WriteJob ==
    /\ Job("write")
    /\ files' = IF open THEN [files EXCEPT ![inode] = Append(@, Head(jobs).line)]
                        ELSE files
    /\ UNCHANGED <<file_, file_created_, rotation_, open, inode>>

-----------------------------------------------------------------------------
Background == OpenJob \/ ConfigJob \/ RotateJobSkips \/ RotateJob \/ WriteJob

Caller(t) == Log(t) \/ Compare(t) \/ PostRotate(t) \/ PostWrite(t)

Destroyed == boot = "destroyed" /\ UNCHANGED vars

Next ==
    \/ Tick \/ PostFile \/ PostInit \/ Stop \/ Join
    \/ \E t \in Threads : Caller(t)
    \/ Background
    \/ Destroyed

Spec == Init /\ [][Next]_vars

\* The logger's thread runs what is posted, and join() returns when run() does.
FairSpec == Spec /\ WF_vars(Background) /\ WF_vars(Join)

-----------------------------------------------------------------------------
(* Properties                                                              *)

Lines == [n : 0 .. MaxLines, m : 0 .. MaxTime]
Names == [base : {"", "log"}, unit : RotationTypes \cup {"none"}, period : 0 .. MaxTime]
Jobs ==
    [op : {"open", "config"}] \cup [op : {"rotate"}, to : Names]
    \cup [op : {"write"}, line : Lines]

\* The types of the variables.
TypeOK ==
    /\ now \in 0 .. MaxTime /\ file_created_ \in 0 .. MaxTime
    /\ boot \in {"constructed", "configuring", "serving", "stopping", "destroyed"}
    /\ work_ \in BOOLEAN /\ open \in BOOLEAN
    /\ jobs \in Seq(Jobs)
    /\ file_ \in {"", "log"} /\ rotation_ \in RotationTypes
    /\ inode \in Names
    /\ DOMAIN files \subseteq Names /\ files \in [DOMAIN files -> Seq(Lines)]
    /\ pc \in [Threads -> {"idle", "compare", "write"} \cup RotationTypes]
    /\ line \in [Threads -> Lines]
    /\ count \in 0 .. MaxLines
    /\ posted \subseteq Lines

\* The job that writes line l, and how often l is in a file or waits to be
\* written.
WriteOf(l) == [op |-> "write", line |-> l]
Copies(l) ==
    Cardinality({j \in DOMAIN jobs : jobs[j] = WriteOf(l)})
    + Cardinality(UNION {{<<f, i>> : i \in {i \in DOMAIN files[f] : files[f][i] = l}} :
                            f \in DOMAIN files})

\* Through rotations, late jobs and shutdown, a line handed to the logger is
\* in exactly one file, once, or still queued; the destructor returns with
\* nothing queued.
NoLineLost ==
    /\ \A l \in posted : Copies(l) = 1
    /\ boot = "destroyed" => jobs = <<>>

\* An archive is complete when it gets its name: nothing is written to it, and
\* no later rotation replaces it.  (Part of what ImplementsLineLog says.)
ArchivesImmutable ==
    [][\A f \in DOMAIN files \ {LogFile} :
          f \in DOMAIN files' /\ files'[f] = files[f]]_vars

\* The lines that the jobs of a queue write, in their order.
LinesOf(queue) ==
    LET upTo[i \in 0 .. Len(queue)] ==
            IF i = 0 THEN <<>>
            ELSE IF queue[i].op = "write" THEN Append(upTo[i - 1], queue[i].line) ELSE upTo[i - 1]
    IN  upTo[Len(queue)]

\* The content of the log file, and the archives.
LogLines == IF LogFile \in DOMAIN files THEN files[LogFile] ELSE <<>>
Archived == [f \in DOMAIN files \ {LogFile} |-> files[f]]

Abstract == INSTANCE LineLog WITH
    pending <- LinesOf(jobs), current <- LogLines, archives <- Archived, closed <- boot = "destroyed"

\* For the threads that log, the logger is a LineLog: through rotations that are
\* posted twice or late, lines are written in the order in which write() was called,
\* each once, and the destructor returns when all are.
ImplementsLineLog == Abstract!LSpec

\* The destructor of the logger returns.
ShutdownCompletes == (boot = "stopping") ~> (boot = "destroyed")

\* cfg "rotation": when a period is over, the log file becomes the archive of
\* that period.  After its end a request to do so is dropped only if it has
\* been carried out, that is, if the log file belongs to a later period.
SkippedOnlyIfDone ==
    [][LET to == Head(jobs).to IN
       RotateJobSkips /\ Period(to.unit, now) > to.period =>
          Period(to.unit, file_created_) > to.period]_vars
=============================================================================
