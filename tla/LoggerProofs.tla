----------------------------- MODULE LoggerProofs -----------------------------
(***************************************************************************)
(* Machine-checked proofs about Logger, for any number of threads and      *)
(* lines, any calendar and any rotation.                                   *)
(***************************************************************************)
EXTENDS Logger, FiniteSetTheorems, WellFoundedInduction, TLAPS

-----------------------------------------------------------------------------
(* The inductive invariant                                                 *)

\* The stream writes to the log file, which exists, and is opened before
\* anything else is done; the destructor has waited for the jobs.
StreamSound ==
    /\ open => inode = LogFile /\ LogFile \in DOMAIN files
    /\ boot \in {"configuring", "serving", "stopping"} =>
          open \/ (jobs # <<>> /\ jobs[1] = [op |-> "open"])
    /\ boot \in {"constructed", "destroyed"} => jobs = <<>>
    /\ boot \in {"constructed", "stopping", "destroyed"} => \A t \in Threads : pc[t] = "idle"
    /\ \A j \in DOMAIN jobs : jobs[j].op = "rotate" => jobs[j].to # LogFile

\* The number of a line is its own: no other thread has it, and no line that
\* has been handed over.
NumbersSound ==
    /\ \A l \in posted : l.n \in 1 .. count
    /\ \A t \in Threads : pc[t] # "idle" =>
          line[t].n \in 1 .. count /\ \A l \in posted : l.n # line[t].n
    /\ \A t, u \in Threads :
          pc[t] # "idle" /\ pc[u] # "idle" /\ line[t].n = line[u].n => t = u

\* A line that was handed over is in one place, counted without cardinalities.
Queued(l, j) == j \in DOMAIN jobs /\ jobs[j] = WriteOf(l)
Written(l, f, i) == f \in DOMAIN files /\ i \in DOMAIN files[f] /\ files[f][i] = l

Kept(l) ==
    \/ \E j \in DOMAIN jobs : Queued(l, j)
    \/ \E f \in DOMAIN files : \E i \in DOMAIN files[f] : Written(l, f, i)

Once(l) ==
    /\ \A j, k \in DOMAIN jobs : Queued(l, j) /\ Queued(l, k) => j = k
    /\ \A f, g \in DOMAIN files : \A i \in DOMAIN files[f], k \in DOMAIN files[g] :
          Written(l, f, i) /\ Written(l, g, k) => f = g /\ i = k
    /\ \A j \in DOMAIN jobs : \A f \in DOMAIN files : \A i \in DOMAIN files[f] :
          ~(Queued(l, j) /\ Written(l, f, i))

LinesSound ==
    /\ \A l \in Lines \ posted : ~Kept(l)
    /\ \A l \in posted : Kept(l) /\ Once(l)

IInv == TypeOK /\ StreamSound /\ NumbersSound /\ LinesSound

-----------------------------------------------------------------------------
(* Types                                                                   *)

\* A period lies between zero and the minute it is of.
LEMMA PeriodBound ==
    ASSUME NEW r \in RotationTypes, NEW m \in 0 .. MaxTime
    PROVE  Period(r, m) \in 0 .. MaxTime
  <1>1. MinutesPerHour \in Nat /\ MinutesPerHour # 0 /\ HoursPerDay \in Nat /\ HoursPerDay # 0
    BY CalendarAssumption
  <1>2. ASSUME NEW a \in Nat, NEW b \in Nat, a # 0, b # 0
        PROVE  a * b \in Nat /\ a * b # 0
    BY <1>2
  <1>3. Unit(r) \in Nat /\ Unit(r) # 0
    BY <1>1, <1>2 DEF Unit, RotationTypes
  <1>4. ASSUME NEW u \in Nat, u # 0
        PROVE  m \div u \in 0 .. MaxTime
    <2>1. m \in Nat /\ MaxTime \in Nat /\ m <= MaxTime
      BY BoundsAssumption
    <2>2. m \div u \in Int
      BY <1>4, <2>1
    <2> DEFINE q == m \div u
    <2>3. u * q <= m /\ m < u * q + u
      BY <1>4, <2>1, <2>2
    <2> HIDE DEF q
    <2>4. q \in Int
      BY <2>2 DEF q
    <2>5. q >= 0
      BY <1>4, <2>1, <2>3, <2>4
    <2>6. q <= u * q
      BY <1>4, <2>4, <2>5
    <2>7. u * q \in Int
      BY <1>4, <2>4
    <2>8. q <= m
      BY <2>1, <2>3, <2>4, <2>6, <2>7
    <2>9. q \in 0 .. MaxTime
      BY <2>1, <2>4, <2>5, <2>8
    <2> QED BY <2>9 DEF q
  <1> QED BY <1>3, <1>4 DEF Period

\* The jobs have their types.
LEMMA JobTypes ==
    /\ [op |-> "open"] \in Jobs /\ [op |-> "config"] \in Jobs
    /\ \A f \in Names : [op |-> "rotate", to |-> f] \in Jobs
    /\ \A l \in Lines : WriteOf(l) \in Jobs
  BY DEF Jobs, WriteOf

\* What the oldest job says.
LEMMA HeadJob ==
    ASSUME TypeOK, jobs # <<>>
    PROVE  /\ Head(jobs) \in Jobs /\ Head(jobs) = jobs[1] /\ Tail(jobs) \in Seq(Jobs)
           /\ Head(jobs).op = "rotate" => Head(jobs).to \in Names
           /\ Head(jobs).op = "write" => Head(jobs).line \in Lines /\ Head(jobs) = WriteOf(Head(jobs).line)
           /\ Head(jobs).op = "open" <=> Head(jobs) = [op |-> "open"]
  <1>1. Head(jobs) \in Jobs /\ Head(jobs) = jobs[1] /\ Tail(jobs) \in Seq(Jobs)
    <2>1. jobs \in Seq(Jobs)
      BY DEF TypeOK
    <2> QED BY <2>1
  <1>2. ASSUME NEW j \in Jobs
        PROVE  /\ j.op = "rotate" => j.to \in Names
               /\ j.op = "write" => j.line \in Lines /\ j = WriteOf(j.line)
               /\ j.op = "open" <=> j = [op |-> "open"]
    BY DEF Jobs, WriteOf
  <1> QED BY <1>1, <1>2

\* The name of the log file is a name, and no archive has it.
LEMMA LogFileName == LogFile \in Names /\ \A b, r, m : r \in RotationTypes => Archive(b, r, m) # LogFile
  <1>1. LogFile \in Names
    BY BoundsAssumption DEF LogFile, Names
  <1>2. ASSUME NEW b, NEW r \in RotationTypes, NEW m
        PROVE  Archive(b, r, m) # LogFile
    <2>1. Archive(b, r, m).unit = r /\ LogFile.unit = "none" /\ r # "none"
      BY DEF Archive, LogFile, RotationTypes
    <2> QED BY <2>1
  <1> QED BY <1>1, <1>2

\* The directory after open(file_, app).
LEMMA OpenedFacts ==
    ASSUME NEW dir
    PROVE  /\ DOMAIN Opened(dir) = DOMAIN dir \cup {LogFile}
           /\ \A f \in DOMAIN dir : Opened(dir)[f] = dir[f]
           /\ LogFile \notin DOMAIN dir => Opened(dir)[LogFile] = <<>>
  <1>1. CASE LogFile \in DOMAIN dir
    BY <1>1 DEF Opened
  <1>2. CASE LogFile \notin DOMAIN dir
    BY <1>2 DEF Opened, With
  <1> QED BY <1>1, <1>2

\* It has its type.
LEMMA OpenedType ==
    ASSUME NEW S, NEW D, NEW dir \in [D -> Seq(S)]
    PROVE  Opened(dir) \in [D \cup {LogFile} -> Seq(S)]
  <1>1. CASE LogFile \in D
    <2>1. D \cup {LogFile} = D /\ Opened(dir) = dir
      BY <1>1 DEF Opened
    <2> QED BY <2>1
  <1>2. CASE LogFile \notin D
    <2>1. Opened(dir) = [y \in D \cup {LogFile} |-> IF y = LogFile THEN <<>> ELSE dir[y]]
      BY <1>2 DEF Opened, With
    <2> QED BY <1>2, <2>1
  <1> QED BY <1>1, <1>2

\* The directory after a rotation: the log file has the archive's name, and a
\* new one is empty.
LEMMA RotateFacts ==
    ASSUME TypeOK, StreamSound, RotateJob
    PROVE  LET to == Head(jobs).to IN
           /\ to \in Names /\ to # LogFile /\ to \notin DOMAIN files /\ LogFile \in DOMAIN files
           /\ DOMAIN files' = DOMAIN files \cup {to}
           /\ files' \in [DOMAIN files \cup {to} -> Seq(Lines)]
           /\ files'[to] = files[LogFile] /\ files'[LogFile] = <<>>
           /\ \A f \in DOMAIN files \ {LogFile} : files'[f] = files[f]
  <1>1. PICK to : to = Head(jobs).to
    OBVIOUS
  <1>2. jobs # <<>> /\ Head(jobs).op = "rotate" /\ boot # "destroyed" /\ to \notin DOMAIN files
    BY <1>1 DEF RotateJob, Job
  <1>3. to \in Names /\ Head(jobs) = jobs[1] /\ ~(Head(jobs) = [op |-> "open"])
    BY <1>1, <1>2, HeadJob
  <1>4. to # LogFile
    <2>1. 1 \in DOMAIN jobs
      <3>1. jobs \in Seq(Jobs)
        BY DEF TypeOK
      <3> QED BY <1>2, <3>1
    <2> QED BY <1>1, <1>2, <1>3, <2>1 DEF StreamSound
  <1>5. LogFile \in DOMAIN files
    <2>1. boot \in {"configuring", "serving", "stopping"}
      BY <1>2 DEF TypeOK, StreamSound
    <2> QED BY <1>3, <2>1 DEF StreamSound
  <1>6. PICK D : D = (DOMAIN files \ {LogFile}) \cup {to}
    OBVIOUS
  <1>7. PICK dir : dir = [f \in D |-> IF f = to THEN files[LogFile] ELSE files[f]]
    OBVIOUS
  <1>8. files' = Opened(dir)
    BY <1>1, <1>6, <1>7 DEF RotateJob, Rotate
  <1>9. dir \in [D -> Seq(Lines)] /\ LogFile \notin D
    BY <1>4, <1>5, <1>6, <1>7 DEF TypeOK
  <1>10. /\ DOMAIN files' = D \cup {LogFile} /\ files' \in [D \cup {LogFile} -> Seq(Lines)]
         /\ (\A f \in D : files'[f] = dir[f]) /\ files'[LogFile] = <<>>
    <2>1. DOMAIN dir = D
      BY <1>7
    <2> QED BY <1>8, <1>9, <2>1, OpenedFacts, OpenedType
  <1>11. D \cup {LogFile} = DOMAIN files \cup {to}
    BY <1>5, <1>6
  <1>12. to \in D /\ dir[to] = files[LogFile] /\ \A f \in DOMAIN files \ {LogFile} : f \in D /\ dir[f] = files[f]
    BY <1>2, <1>6, <1>7
  <1> QED BY <1>1, <1>2, <1>3, <1>4, <1>5, <1>10, <1>11, <1>12

\* A job is posted.
LEMMA PostFacts ==
    ASSUME TypeOK, NEW job \in Jobs, Post(job)
    PROVE  /\ jobs' \in Seq(Jobs) /\ jobs' # <<>> /\ Len(jobs) \in Nat
           /\ DOMAIN jobs = 1 .. Len(jobs) /\ DOMAIN jobs' = 1 .. Len(jobs) + 1
           /\ \A j \in DOMAIN jobs : jobs'[j] = jobs[j]
           /\ jobs'[Len(jobs) + 1] = job
  <1>1. jobs \in Seq(Jobs) /\ jobs' = Append(jobs, job)
    BY DEF TypeOK, Post
  <1> QED BY <1>1

\* Every step keeps the types.
LEMMA NextTypeOK ==
    ASSUME TypeOK, StreamSound, [Next]_vars
    PROVE  TypeOK'
  <1> USE BoundsAssumption
  <1>1. CASE Tick
    <2>1. now' \in 0 .. MaxTime
      <3>1. now \in 0 .. MaxTime /\ now < MaxTime /\ now' = now + 1
        BY <1>1 DEF Tick, TypeOK
      <3> QED BY <3>1
    <2> QED BY <1>1, <2>1 DEF Tick, TypeOK, logger, callers
  <1>2. CASE PostFile
    <2>1. jobs' \in Seq(Jobs)
      BY <1>2, JobTypes, PostFacts DEF PostFile
    <2> QED BY <1>2, <2>1 DEF PostFile, TypeOK, logger, callers
  <1>3. CASE PostInit
    <2>1. jobs' \in Seq(Jobs)
      BY <1>3, JobTypes, PostFacts DEF PostInit
    <2> QED BY <1>3, <2>1 DEF PostInit, TypeOK, logger, callers
  <1>4. CASE Stop
    BY <1>4 DEF Stop, TypeOK, logger, callers
  <1>5. CASE Join
    BY <1>5 DEF Join, TypeOK, callers
  <1>6. ASSUME NEW t \in Threads, Log(t)
        PROVE  TypeOK'
    <2>1. count + 1 \in 0 .. MaxLines
      <3>1. count \in 0 .. MaxLines /\ count < MaxLines
        BY <1>6 DEF Log, TypeOK
      <3> QED BY <3>1
    <2>2. [n |-> count + 1, m |-> now] \in Lines
      BY <2>1 DEF TypeOK, Lines
    <2> QED BY <1>6, <2>1, <2>2 DEF Log, TypeOK, logger
  <1>7. ASSUME NEW t \in Threads, Compare(t)
        PROVE  TypeOK'
    BY <1>7 DEF Compare, TypeOK, logger
  <1>8. ASSUME NEW t \in Threads, PostRotate(t)
        PROVE  TypeOK'
    <2>1. Archive(file_, pc[t], file_created_) \in Names
      BY <1>8, PeriodBound DEF PostRotate, Archive, Names, TypeOK
    <2>2. jobs' \in Seq(Jobs)
      BY <1>8, <2>1, JobTypes, PostFacts DEF PostRotate
    <2> QED BY <1>8, <2>2 DEF PostRotate, TypeOK, logger
  <1>9. ASSUME NEW t \in Threads, PostWrite(t)
        PROVE  TypeOK'
    <2>1. line[t] \in Lines /\ [op |-> "write", line |-> line[t]] \in Jobs
      BY JobTypes DEF TypeOK, WriteOf
    <2>2. NoLine \in Lines
      BY DEF NoLine, Lines
    <2>3. jobs' \in Seq(Jobs) /\ posted' \subseteq Lines
      BY <1>9, <2>1, PostFacts DEF PostWrite, TypeOK
    <2> QED BY <1>9, <2>2, <2>3 DEF PostWrite, TypeOK, logger
  <1>10. CASE OpenJob
    <2>1. jobs' \in Seq(Jobs) /\ UNCHANGED <<now, boot, work_, pc, line, count, posted>>
      BY <1>10, HeadJob DEF OpenJob, Job, callers
    <2>2. DOMAIN files' \subseteq Names /\ files' \in [DOMAIN files' -> Seq(Lines)]
      <3>1. DOMAIN files \subseteq Names /\ files \in [DOMAIN files -> Seq(Lines)] /\ files' = Opened(files)
        BY <1>10 DEF OpenJob, TypeOK
      <3>2. /\ DOMAIN Opened(files) = DOMAIN files \cup {LogFile}
            /\ Opened(files) \in [DOMAIN files \cup {LogFile} -> Seq(Lines)]
        BY <3>1, OpenedFacts, OpenedType
      <3> QED BY <3>1, <3>2, LogFileName
    <2> QED BY <1>10, <2>1, <2>2, LogFileName DEF OpenJob, TypeOK
  <1>11. CASE ConfigJob
    <2>1. jobs' \in Seq(Jobs) /\ UNCHANGED <<now, boot, work_, pc, line, count, posted>>
      BY <1>11, HeadJob DEF ConfigJob, Job, callers
    <2> QED BY <1>11, <2>1, RotationAssumption DEF ConfigJob, TypeOK
  <1>12. CASE RotateJobSkips
    <2>1. jobs' \in Seq(Jobs) /\ UNCHANGED <<now, boot, work_, pc, line, count, posted>>
      BY <1>12, HeadJob DEF RotateJobSkips, Job, callers
    <2> QED BY <1>12, <2>1 DEF RotateJobSkips, TypeOK, logger
  <1>13. CASE RotateJob
    <2>1. jobs' \in Seq(Jobs) /\ UNCHANGED <<now, boot, work_, pc, line, count, posted>>
      BY <1>13, HeadJob DEF RotateJob, Job, callers
    <2>2. DOMAIN files' \subseteq Names /\ files' \in [DOMAIN files' -> Seq(Lines)]
      BY <1>13, RotateFacts DEF TypeOK
    <2> QED BY <1>13, <2>1, <2>2, LogFileName DEF RotateJob, Rotate, TypeOK
  <1>14. CASE WriteJob
    <2>1. /\ jobs' \in Seq(Jobs) /\ UNCHANGED <<now, boot, work_, pc, line, count, posted>>
          /\ Head(jobs).line \in Lines
      BY <1>14, HeadJob DEF WriteJob, Job, callers
    <2>2. DOMAIN files' \subseteq Names /\ files' \in [DOMAIN files' -> Seq(Lines)]
      <3>1. DOMAIN files \subseteq Names /\ files \in [DOMAIN files -> Seq(Lines)]
        BY DEF TypeOK
      <3>2. ASSUME inode \in DOMAIN files
            PROVE  [files EXCEPT ![inode] = Append(@, Head(jobs).line)] \in [DOMAIN files -> Seq(Lines)]
        <4>1. Append(files[inode], Head(jobs).line) \in Seq(Lines)
          BY <2>1, <3>1, <3>2
        <4> QED BY <3>1, <4>1
      <3> QED BY <1>14, <3>1, <3>2 DEF WriteJob, StreamSound
    <2> QED BY <1>14, <2>1, <2>2 DEF WriteJob, TypeOK
  <1>15. CASE UNCHANGED vars
    BY <1>15 DEF vars, logger, callers, TypeOK
  <1> QED BY <1>1, <1>2, <1>3, <1>4, <1>5, <1>6, <1>7, <1>8, <1>9, <1>10, <1>11, <1>12, <1>13, <1>14, <1>15
          DEF Next, Caller, Background, Destroyed

-----------------------------------------------------------------------------
(* The stream                                                              *)

\* The oldest job is taken.
LEMMA JobFacts ==
    ASSUME TypeOK, NEW op, Job(op)
    PROVE  /\ boot # "destroyed" /\ jobs # <<>> /\ Head(jobs) = jobs[1] /\ jobs[1].op = op
           /\ UNCHANGED <<now, boot, work_, pc, line, count, posted>>
           /\ 1 \in DOMAIN jobs
           /\ \A j \in DOMAIN jobs' : j + 1 \in DOMAIN jobs /\ j + 1 # 1 /\ jobs'[j] = jobs[j + 1] /\ j \in Nat
           /\ \A j \in DOMAIN jobs : j # 1 => j - 1 \in DOMAIN jobs' /\ jobs'[j - 1] = jobs[j]
  <1>1. jobs \in Seq(Jobs) /\ jobs # <<>> /\ jobs' = Tail(jobs)
    BY DEF TypeOK, Job
  <1>2. 1 \in DOMAIN jobs /\ Head(jobs) = jobs[1] /\ Len(jobs) \in Nat /\ DOMAIN jobs = 1 .. Len(jobs)
    BY <1>1
  <1>3. /\ DOMAIN jobs' = 1 .. Len(jobs) - 1
        /\ \A j \in DOMAIN jobs' : j + 1 \in DOMAIN jobs /\ j + 1 # 1 /\ jobs'[j] = jobs[j + 1] /\ j \in Nat
    BY <1>1
  <1>4. ASSUME NEW j \in DOMAIN jobs, j # 1
        PROVE  j - 1 \in DOMAIN jobs' /\ jobs'[j - 1] = jobs[j]
    <2>1. j - 1 \in DOMAIN jobs' /\ (j - 1) + 1 = j
      BY <1>2, <1>3, <1>4
    <2> QED BY <1>3, <2>1
  <1> QED BY <1>1, <1>2, <1>3, <1>4 DEF Job, callers

\* A job is posted while main runs.
LEMMA PostStream ==
    ASSUME TypeOK, StreamSound, NEW job \in Jobs, Post(job), UNCHANGED <<open, inode, files>>,
           job.op = "rotate" => job.to # LogFile,
           boot' \in {"configuring", "serving"},
           \/ boot = "constructed" /\ job = [op |-> "open"]
           \/ boot \in {"configuring", "serving"}
    PROVE  StreamSound'
  <1>1. /\ jobs' # <<>> /\ Len(jobs) \in Nat
        /\ DOMAIN jobs = 1 .. Len(jobs) /\ DOMAIN jobs' = 1 .. Len(jobs) + 1
        /\ \A j \in DOMAIN jobs : jobs'[j] = jobs[j]
        /\ jobs'[Len(jobs) + 1] = job
    BY PostFacts
  <1>2. open \/ jobs'[1] = [op |-> "open"]
    <2>1. CASE boot = "constructed"
      <3>1. jobs = <<>>
        BY <2>1 DEF StreamSound
      <3>2. Len(jobs) + 1 = 1
        BY <3>1
      <3> QED BY <1>1, <2>1, <3>2
    <2>2. CASE boot # "constructed" /\ ~open
      <3>1. jobs # <<>> /\ jobs[1] = [op |-> "open"] /\ jobs \in Seq(Jobs)
        BY <2>2 DEF StreamSound, TypeOK
      <3>2. 1 \in DOMAIN jobs
        BY <3>1
      <3> QED BY <1>1, <3>1, <3>2
    <2> QED BY <2>1, <2>2
  <1>3. \A j \in DOMAIN jobs' : jobs'[j].op = "rotate" => jobs'[j].to # LogFile
    <2> SUFFICES ASSUME NEW j \in DOMAIN jobs', jobs'[j].op = "rotate"
                 PROVE  jobs'[j].to # LogFile
      OBVIOUS
    <2>1. j \in DOMAIN jobs \/ j = Len(jobs) + 1
      BY <1>1
    <2> QED BY <1>1, <2>1 DEF StreamSound
  <1> QED BY <1>1, <1>2, <1>3 DEF StreamSound

\* A job is done.
LEMMA JobStream ==
    ASSUME TypeOK, StreamSound, NEW op, Job(op),
           open' => inode' = LogFile /\ LogFile \in DOMAIN files',
           open' \/ (op # "open" /\ open' = open)
    PROVE  StreamSound'
  <1>1. /\ boot # "destroyed" /\ jobs # <<>> /\ jobs[1].op = op /\ UNCHANGED <<boot, pc>>
        /\ \A j \in DOMAIN jobs' : j + 1 \in DOMAIN jobs /\ jobs'[j] = jobs[j + 1]
    BY JobFacts
  <1>2. boot \in {"configuring", "serving", "stopping"}
    BY <1>1 DEF StreamSound, TypeOK
  <1>3. open'
    <2>1. jobs[1] # [op |-> "open"] \/ op = "open"
      BY <1>1
    <2> QED BY <1>2, <2>1 DEF StreamSound
  <1>4. \A j \in DOMAIN jobs' : jobs'[j].op = "rotate" => jobs'[j].to # LogFile
    BY <1>1 DEF StreamSound
  <1> QED BY <1>1, <1>2, <1>3, <1>4 DEF StreamSound

\* Every step keeps the stream on the log file.
LEMMA NextStream ==
    ASSUME TypeOK, StreamSound, [Next]_vars
    PROVE  StreamSound'
  <1>1. CASE Tick
    BY <1>1 DEF Tick, StreamSound, logger, callers
  <1>2. CASE PostFile
    <2>1. [op |-> "open"] \in Jobs /\ [op |-> "open"].op # "rotate"
      BY JobTypes
    <2> QED BY <1>2, <2>1, PostStream DEF PostFile, logger
  <1>3. CASE PostInit
    <2>1. [op |-> "config"] \in Jobs /\ [op |-> "config"].op # "rotate"
      BY JobTypes
    <2> QED BY <1>3, <2>1, PostStream DEF PostInit, logger
  <1>4. CASE Stop
    BY <1>4 DEF Stop, StreamSound, logger, callers
  <1>5. CASE Join
    BY <1>5 DEF Join, StreamSound, callers
  <1>6. ASSUME NEW t \in Threads, Log(t) \/ Compare(t)
        PROVE  StreamSound'
    <2>1. UNCHANGED <<boot, jobs, open, inode, files>>
      BY <1>6 DEF Log, Compare, logger
    <2>2. boot \notin {"constructed", "stopping", "destroyed"}
      BY <1>6 DEF Log, Compare, StreamSound
    <2> QED BY <2>1, <2>2 DEF StreamSound
  <1>7. ASSUME NEW t \in Threads, pc[t] # "idle"
        PROVE  boot \in {"configuring", "serving"}
    BY <1>7 DEF StreamSound, TypeOK
  <1>8. ASSUME NEW t \in Threads, PostRotate(t)
        PROVE  StreamSound'
    <2>1. PICK job : job = [op |-> "rotate", to |-> Archive(file_, pc[t], file_created_)]
      OBVIOUS
    <2>2. Archive(file_, pc[t], file_created_) \in Names
      BY <1>8, PeriodBound DEF PostRotate, Archive, Names, TypeOK
    <2>3. job \in Jobs
      BY <2>1, <2>2, JobTypes
    <2>4. job.to # LogFile
      BY <1>8, <2>1, LogFileName DEF PostRotate
    <2> QED BY <1>7, <1>8, <2>1, <2>3, <2>4, PostStream DEF PostRotate, logger, RotationTypes
  <1>9. ASSUME NEW t \in Threads, PostWrite(t)
        PROVE  StreamSound'
    <2>1. PICK job : job = [op |-> "write", line |-> line[t]]
      OBVIOUS
    <2>2. job \in Jobs /\ job.op # "rotate"
      BY <2>1, JobTypes DEF TypeOK, WriteOf
    <2> QED BY <1>7, <1>9, <2>1, <2>2, PostStream DEF PostWrite, logger
  <1>10. CASE OpenJob
    <2>1. LogFile \in DOMAIN files'
      BY <1>10, OpenedFacts DEF OpenJob
    <2> QED BY <1>10, <2>1, JobStream DEF OpenJob
  <1>11. CASE ConfigJob
    BY <1>11, JobStream DEF ConfigJob, StreamSound
  <1>12. CASE RotateJobSkips
    BY <1>12, JobStream DEF RotateJobSkips, StreamSound, logger
  <1>13. CASE RotateJob
    <2>1. LogFile \in DOMAIN files'
      BY <1>13, RotateFacts
    <2> QED BY <1>13, <2>1, JobStream DEF RotateJob, Rotate
  <1>14. CASE WriteJob
    <2>1. DOMAIN files' = DOMAIN files
      BY <1>14 DEF WriteJob, TypeOK
    <2> QED BY <1>14, <2>1, JobStream DEF WriteJob, StreamSound
  <1>15. CASE UNCHANGED vars
    BY <1>15 DEF vars, logger, callers, StreamSound
  <1> QED BY <1>1, <1>2, <1>3, <1>4, <1>5, <1>6, <1>8, <1>9, <1>10, <1>11, <1>12, <1>13, <1>14, <1>15
          DEF Next, Caller, Background, Destroyed

\* Every step keeps the numbers of the lines apart.
LEMMA NextNumbers ==
    ASSUME TypeOK, NumbersSound, [Next]_vars
    PROVE  NumbersSound'
  <1>1. CASE UNCHANGED <<pc, line, count, posted>>
    BY <1>1 DEF NumbersSound
  <1>2. ASSUME NEW t \in Threads, Log(t)
        PROVE  NumbersSound'
    <2>1. /\ count \in Nat /\ count' = count + 1 /\ posted' = posted /\ pc'[t] = "compare" /\ pc[t] = "idle"
          /\ line'[t] = [n |-> count + 1, m |-> now]
          /\ \A u \in Threads \ {t} : pc'[u] = pc[u] /\ line'[u] = line[u]
      <3>1. count \in Nat
        <4>1. count \in 0 .. MaxLines
          BY DEF TypeOK
        <4> QED BY <4>1, BoundsAssumption
      <3>2. pc \in [Threads -> {"idle", "compare", "write"} \cup RotationTypes] /\ line \in [Threads -> Lines]
        BY DEF TypeOK
      <3> QED BY <1>2, <3>1, <3>2 DEF Log
    <2>2. line'[t].n = count + 1
      BY <2>1
    <2>3. 1 .. count \subseteq 1 .. count + 1 /\ count + 1 \in 1 .. count + 1 /\ count + 1 \notin 1 .. count
      BY <2>1
    <2> QED BY <2>1, <2>2, <2>3 DEF NumbersSound
  <1>3. ASSUME NEW t \in Threads, Compare(t) \/ PostRotate(t)
        PROVE  NumbersSound'
    <2>1. /\ UNCHANGED <<line, count, posted>> /\ pc[t] # "idle"
          /\ \A u \in Threads \ {t} : pc'[u] = pc[u]
      BY <1>3 DEF Compare, PostRotate, TypeOK, RotationTypes
    <2> QED BY <2>1 DEF NumbersSound
  <1>4. ASSUME NEW t \in Threads, PostWrite(t)
        PROVE  NumbersSound'
    <2>1. /\ UNCHANGED count /\ pc[t] # "idle" /\ pc'[t] = "idle" /\ posted' = posted \cup {line[t]}
          /\ \A u \in Threads \ {t} : pc'[u] = pc[u] /\ line'[u] = line[u]
      BY <1>4 DEF PostWrite, TypeOK
    <2> QED BY <2>1 DEF NumbersSound
  <1>5. CASE Background
    BY <1>1, <1>5 DEF Background, OpenJob, ConfigJob, RotateJobSkips, RotateJob, WriteJob, Job, callers
  <1>6. CASE Tick \/ PostFile \/ PostInit \/ Stop \/ Join \/ UNCHANGED vars
    BY <1>1, <1>6 DEF Tick, PostFile, PostInit, Stop, Join, vars, callers
  <1> QED BY <1>2, <1>3, <1>4, <1>5, <1>6 DEF Next, Caller, Destroyed

-----------------------------------------------------------------------------
(* The lines                                                               *)

\* A job is posted that does not write line l: l stays where it is.
LEMMA PostOther ==
    ASSUME TypeOK, NEW job \in Jobs, Post(job), UNCHANGED files, NEW l, job # WriteOf(l)
    PROVE  (Kept(l)' <=> Kept(l)) /\ (Once(l) => Once(l)')
  <1>1. /\ Len(jobs) \in Nat /\ DOMAIN jobs = 1 .. Len(jobs) /\ DOMAIN jobs' = 1 .. Len(jobs) + 1
        /\ \A j \in DOMAIN jobs : jobs'[j] = jobs[j]
        /\ jobs'[Len(jobs) + 1] = job
    BY PostFacts
  <1>2. \A j \in DOMAIN jobs' : Queued(l, j)' => j \in DOMAIN jobs /\ Queued(l, j)
    <2> SUFFICES ASSUME NEW j \in DOMAIN jobs', Queued(l, j)'
                 PROVE  j \in DOMAIN jobs /\ Queued(l, j)
      OBVIOUS
    <2>1. jobs'[j] = WriteOf(l)
      BY DEF Queued
    <2>2. j \in DOMAIN jobs
      BY <1>1, <2>1
    <2> QED BY <1>1, <2>1, <2>2 DEF Queued
  <1>3. \A j \in DOMAIN jobs : Queued(l, j) => j \in DOMAIN jobs' /\ Queued(l, j)'
    <2>1. DOMAIN jobs \subseteq DOMAIN jobs'
      BY <1>1
    <2> QED BY <1>1, <2>1 DEF Queued
  <1>4. Kept(l)' <=> Kept(l)
    BY <1>2, <1>3 DEF Kept, Written
  <1>5. Once(l) => Once(l)'
    BY <1>2 DEF Once, Written
  <1> QED BY <1>4, <1>5

\* Line l is handed over for the first time.
LEMMA PostLine ==
    ASSUME TypeOK, NEW l \in Lines, Post(WriteOf(l)), UNCHANGED files, ~Kept(l)
    PROVE  Kept(l)' /\ Once(l)'
  <1>1. /\ Len(jobs) \in Nat /\ DOMAIN jobs = 1 .. Len(jobs) /\ DOMAIN jobs' = 1 .. Len(jobs) + 1
        /\ \A j \in DOMAIN jobs : jobs'[j] = jobs[j]
        /\ jobs'[Len(jobs) + 1] = WriteOf(l)
    BY PostFacts, JobTypes
  <1>2. PICK n : n = Len(jobs) + 1
    OBVIOUS
  <1>3. \A j \in DOMAIN jobs' : Queued(l, j)' <=> j = n
    <2>1. n \in DOMAIN jobs' /\ jobs'[n] = WriteOf(l)
      BY <1>1, <1>2
    <2>2. \A j \in DOMAIN jobs' : j \in DOMAIN jobs \/ j = n
      BY <1>1, <1>2
    <2>3. \A j \in DOMAIN jobs : jobs[j] # WriteOf(l)
      BY DEF Kept, Queued
    <2> QED BY <1>1, <2>1, <2>2, <2>3 DEF Queued
  <1>4. \A f \in DOMAIN files : \A i \in DOMAIN files[f] : ~Written(l, f, i)
    BY DEF Kept
  <1>5. Once(l)'
    BY <1>3, <1>4 DEF Once, Written
  <1>6. Kept(l)'
    BY <1>1, <1>2, <1>3 DEF Kept
  <1> QED BY <1>5, <1>6

\* Where line l is queued after the oldest job, which does not write it.
LEMMA JobOther ==
    ASSUME TypeOK, NEW op, Job(op), NEW l, Head(jobs) # WriteOf(l)
    PROVE  /\ \A j \in DOMAIN jobs' : Queued(l, j)' => j + 1 \in DOMAIN jobs /\ Queued(l, j + 1) /\ j \in Nat
           /\ \A j \in DOMAIN jobs : Queued(l, j) => j - 1 \in DOMAIN jobs' /\ \E k \in DOMAIN jobs' : Queued(l, k)'
  <1>1. /\ Head(jobs) = jobs[1]
        /\ \A j \in DOMAIN jobs' : j + 1 \in DOMAIN jobs /\ j + 1 # 1 /\ jobs'[j] = jobs[j + 1] /\ j \in Nat
        /\ \A j \in DOMAIN jobs : j # 1 => j - 1 \in DOMAIN jobs' /\ jobs'[j - 1] = jobs[j]
    BY JobFacts
  <1>2. ASSUME NEW j \in DOMAIN jobs', Queued(l, j)'
        PROVE  j + 1 \in DOMAIN jobs /\ Queued(l, j + 1) /\ j \in Nat
    BY <1>1, <1>2 DEF Queued
  <1>3. ASSUME NEW j \in DOMAIN jobs, Queued(l, j)
        PROVE  j - 1 \in DOMAIN jobs' /\ \E k \in DOMAIN jobs' : Queued(l, k)'
    <2>1. j # 1
      BY <1>1, <1>3 DEF Queued
    <2>2. PICK k : k = j - 1
      OBVIOUS
    <2>3. k \in DOMAIN jobs' /\ jobs'[k] = WriteOf(l)
      BY <1>1, <1>3, <2>1, <2>2 DEF Queued
    <2> QED BY <2>2, <2>3 DEF Queued
  <1> QED BY <1>2, <1>3

\* A job that leaves line l where it is written.
LEMMA JobKeeps ==
    ASSUME TypeOK, NEW op, Job(op), NEW l, Head(jobs) # WriteOf(l),
           \A f \in DOMAIN files : \A i \in DOMAIN files[f] : Written(l, f, i) =>
              f \in DOMAIN files' /\ i \in DOMAIN files'[f] /\ Written(l, f, i)',
           \A f \in DOMAIN files' : \A i \in DOMAIN files'[f] : Written(l, f, i)' =>
              f \in DOMAIN files /\ i \in DOMAIN files[f] /\ Written(l, f, i)
    PROVE  (Kept(l)' <=> Kept(l)) /\ (Once(l) => Once(l)')
  <1>1. /\ \A j \in DOMAIN jobs' : Queued(l, j)' => j + 1 \in DOMAIN jobs /\ Queued(l, j + 1) /\ j \in Nat
        /\ \A j \in DOMAIN jobs : Queued(l, j) => \E k \in DOMAIN jobs' : Queued(l, k)'
    BY JobOther
  <1>2. Kept(l)' <=> Kept(l)
    BY <1>1 DEF Kept
  <1>3. ASSUME Once(l), NEW j \in DOMAIN jobs', NEW k \in DOMAIN jobs', Queued(l, j)', Queued(l, k)'
        PROVE  j = k
    <2>1. j + 1 = k + 1 /\ j \in Nat /\ k \in Nat
      BY <1>1, <1>3 DEF Once
    <2> QED BY <2>1
  <1>4. Once(l) => Once(l)'
    BY <1>1, <1>3 DEF Once
  <1> QED BY <1>2, <1>4

\* A rotation: the lines of the log file are in the archive.
LEMMA RotateKeeps ==
    ASSUME TypeOK, StreamSound, RotateJob, NEW l
    PROVE  (Kept(l)' <=> Kept(l)) /\ (Once(l) => Once(l)')
  <1>1. PICK to : to = Head(jobs).to
    OBVIOUS
  <1>2. /\ to # LogFile /\ to \notin DOMAIN files /\ LogFile \in DOMAIN files
        /\ DOMAIN files' = DOMAIN files \cup {to}
        /\ files'[to] = files[LogFile] /\ files'[LogFile] = <<>>
        /\ \A f \in DOMAIN files \ {LogFile} : files'[f] = files[f]
    BY <1>1, RotateFacts
  <1>3. /\ \A j \in DOMAIN jobs' : Queued(l, j)' => j + 1 \in DOMAIN jobs /\ Queued(l, j + 1) /\ j \in Nat
        /\ \A j \in DOMAIN jobs : Queued(l, j) => \E k \in DOMAIN jobs' : Queued(l, k)'
    <2>1. Head(jobs) # WriteOf(l)
      BY DEF RotateJob, Job, WriteOf
    <2> QED BY <2>1, JobOther DEF RotateJob
  <1>4. ASSUME NEW f \in DOMAIN files', NEW i \in DOMAIN files'[f], Written(l, f, i)'
        PROVE  IF f = to THEN i \in DOMAIN files[LogFile] /\ Written(l, LogFile, i)
               ELSE f \in DOMAIN files \ {LogFile} /\ i \in DOMAIN files[f] /\ Written(l, f, i)
    <2>1. f # LogFile
      <3>1. DOMAIN <<>> = {}
        OBVIOUS
      <3> QED BY <1>2, <1>4, <3>1
    <2> QED BY <1>2, <1>4, <2>1 DEF Written
  <1>5. ASSUME NEW f \in DOMAIN files, NEW i \in DOMAIN files[f], Written(l, f, i)
        PROVE  \E g \in DOMAIN files' : \E k \in DOMAIN files'[g] : Written(l, g, k)'
    <2>1. CASE f = LogFile
      <3>1. i \in DOMAIN files'[to] /\ files'[to][i] = l
        BY <1>2, <1>5, <2>1 DEF Written
      <3> QED BY <1>2, <3>1 DEF Written
    <2>2. CASE f # LogFile
      <3>1. i \in DOMAIN files'[f] /\ files'[f][i] = l
        BY <1>2, <1>5, <2>2 DEF Written
      <3> QED BY <1>2, <3>1 DEF Written
    <2> QED BY <2>1, <2>2
  <1>6. Kept(l)' <=> Kept(l)
    BY <1>2, <1>3, <1>4, <1>5 DEF Kept
  <1>7. ASSUME Once(l)
        PROVE  Once(l)'
    <2>1. ASSUME NEW j \in DOMAIN jobs', NEW k \in DOMAIN jobs', Queued(l, j)', Queued(l, k)'
          PROVE  j = k
      <3>1. j + 1 = k + 1 /\ j \in Nat /\ k \in Nat
        BY <1>3, <1>7, <2>1 DEF Once
      <3> QED BY <3>1
    <2>2. ASSUME NEW f \in DOMAIN files', NEW g \in DOMAIN files',
                 NEW i \in DOMAIN files'[f], NEW k \in DOMAIN files'[g], Written(l, f, i)', Written(l, g, k)'
          PROVE  f = g /\ i = k
      BY <1>2, <1>4, <1>7, <2>2 DEF Once
    <2>3. ASSUME NEW j \in DOMAIN jobs', NEW f \in DOMAIN files', NEW i \in DOMAIN files'[f],
                 Queued(l, j)', Written(l, f, i)'
          PROVE  FALSE
      BY <1>2, <1>3, <1>4, <1>7, <2>3 DEF Once
    <2> QED BY <2>1, <2>2, <2>3 DEF Once
  <1> QED BY <1>6, <1>7

\* The line of the oldest job is appended to the log file.
LEMMA WriteFacts ==
    ASSUME TypeOK, StreamSound, WriteJob
    PROVE  LET m == Head(jobs).line IN
           /\ m \in Lines /\ Head(jobs) = WriteOf(m) /\ LogFile \in DOMAIN files
           /\ DOMAIN files' = DOMAIN files /\ Len(files[LogFile]) \in Nat
           /\ \A f \in DOMAIN files \ {LogFile} : files'[f] = files[f]
           /\ DOMAIN files[LogFile] = 1 .. Len(files[LogFile])
           /\ DOMAIN files'[LogFile] = 1 .. Len(files[LogFile]) + 1
           /\ \A i \in DOMAIN files[LogFile] : files'[LogFile][i] = files[LogFile][i]
           /\ files'[LogFile][Len(files[LogFile]) + 1] = m
           /\ files'[LogFile] = Append(files[LogFile], m) /\ files[LogFile] \in Seq(Lines)
  <1>1. PICK m : m = Head(jobs).line
    OBVIOUS
  <1>2. /\ jobs # <<>> /\ Head(jobs).op = "write" /\ boot # "destroyed"
        /\ files' = IF open THEN [files EXCEPT ![inode] = Append(@, m)] ELSE files
    BY <1>1 DEF WriteJob, Job
  <1>3. m \in Lines /\ Head(jobs) = WriteOf(m) /\ Head(jobs) = jobs[1] /\ Head(jobs) # [op |-> "open"]
    BY <1>1, <1>2, HeadJob
  <1>4. open /\ inode = LogFile /\ LogFile \in DOMAIN files
    <2>1. boot \in {"configuring", "serving", "stopping"}
      BY <1>2 DEF TypeOK, StreamSound
    <2> QED BY <1>3, <2>1 DEF StreamSound
  <1>5. files \in [DOMAIN files -> Seq(Lines)]
    BY DEF TypeOK
  <1>6. PICK old : old = files[LogFile]
    OBVIOUS
  <1>7. /\ DOMAIN files' = DOMAIN files /\ files'[LogFile] = Append(old, m)
        /\ \A f \in DOMAIN files \ {LogFile} : files'[f] = files[f]
    BY <1>2, <1>4, <1>5, <1>6
  <1>8. old \in Seq(Lines)
    BY <1>4, <1>5, <1>6
  <1>9. /\ Len(old) \in Nat /\ DOMAIN old = 1 .. Len(old) /\ DOMAIN Append(old, m) = 1 .. Len(old) + 1
        /\ \A i \in DOMAIN old : Append(old, m)[i] = old[i]
        /\ Append(old, m)[Len(old) + 1] = m
    BY <1>3, <1>8
  <1> QED BY <1>1, <1>3, <1>4, <1>6, <1>7, <1>8, <1>9

\* The line that was queued is written, and the others stay where they are.
LEMMA WriteKeeps ==
    ASSUME TypeOK, StreamSound, LinesSound, WriteJob, NEW l \in Lines
    PROVE  (Kept(l)' <=> Kept(l)) /\ (Once(l) => Once(l)')
  <1>1. PICK m : m = Head(jobs).line
    OBVIOUS
  <1>2. PICK n : n = Len(files[LogFile]) + 1
    OBVIOUS
  <1>3. /\ m \in Lines /\ Head(jobs) = WriteOf(m) /\ LogFile \in DOMAIN files
        /\ DOMAIN files' = DOMAIN files
        /\ \A f \in DOMAIN files \ {LogFile} : files'[f] = files[f]
        /\ n \notin DOMAIN files[LogFile]
        /\ DOMAIN files'[LogFile] = DOMAIN files[LogFile] \cup {n}
        /\ \A i \in DOMAIN files[LogFile] : files'[LogFile][i] = files[LogFile][i]
        /\ files'[LogFile][n] = m
    BY <1>1, <1>2, WriteFacts
  <1>4. Job("write")
    BY DEF WriteJob
  <1>5. \A a, b : WriteOf(a) = WriteOf(b) => a = b
    BY DEF WriteOf
  <1>6. ASSUME NEW f \in DOMAIN files, NEW i \in DOMAIN files[f], Written(l, f, i)
        PROVE  f \in DOMAIN files' /\ i \in DOMAIN files'[f] /\ Written(l, f, i)'
    BY <1>3, <1>6 DEF Written
  <1>7. ASSUME NEW f \in DOMAIN files', NEW i \in DOMAIN files'[f], Written(l, f, i)'
        PROVE  \/ f \in DOMAIN files /\ i \in DOMAIN files[f] /\ Written(l, f, i)
               \/ l = m /\ f = LogFile /\ i = n
    BY <1>3, <1>7 DEF Written
  <1>8. CASE l # m
    <2>1. Head(jobs) # WriteOf(l)
      BY <1>3, <1>5, <1>8
    <2> QED BY <1>4, <1>6, <1>7, <1>8, <2>1, JobKeeps
  <1>9. CASE l = m
    <2>1. /\ Head(jobs) = jobs[1] /\ 1 \in DOMAIN jobs
          /\ \A j \in DOMAIN jobs' : j + 1 \in DOMAIN jobs /\ j + 1 # 1 /\ jobs'[j] = jobs[j + 1]
      BY <1>4, JobFacts
    <2>2. Queued(l, 1)
      BY <1>3, <1>9, <2>1 DEF Queued
    <2>3. Kept(l)
      BY <2>1, <2>2 DEF Kept
    <2>4. Once(l)
      BY <2>3 DEF LinesSound
    <2>5. \A f \in DOMAIN files : \A i \in DOMAIN files[f] : ~Written(l, f, i)
      BY <2>1, <2>2, <2>4 DEF Once
    <2>6. \A j \in DOMAIN jobs' : ~Queued(l, j)'
      <3> SUFFICES ASSUME NEW j \in DOMAIN jobs', Queued(l, j)'
                   PROVE  FALSE
        OBVIOUS
      <3>1. j + 1 \in DOMAIN jobs /\ Queued(l, j + 1) /\ j + 1 # 1
        BY <2>1 DEF Queued
      <3> QED BY <2>1, <2>2, <2>4, <3>1 DEF Once
    <2>7. Kept(l)'
      <3>1. LogFile \in DOMAIN files' /\ n \in DOMAIN files'[LogFile] /\ files'[LogFile][n] = l
        BY <1>3, <1>9
      <3> QED BY <3>1 DEF Kept, Written
    <2>8. Once(l)'
      BY <1>7, <2>5, <2>6 DEF Once
    <2> QED BY <2>3, <2>7, <2>8
  <1> QED BY <1>8, <1>9

\* Every step keeps every line that was handed over in one place.
LEMMA NextLines ==
    ASSUME TypeOK, StreamSound, NumbersSound, LinesSound, [Next]_vars
    PROVE  LinesSound'
  <1>1. ASSUME UNCHANGED posted,
               \A l \in Lines : (Kept(l)' <=> Kept(l)) /\ (Once(l) => Once(l)')
        PROVE  LinesSound'
    <2>1. posted \subseteq Lines
      BY DEF TypeOK
    <2> QED BY <1>1, <2>1 DEF LinesSound
  <1>2. CASE UNCHANGED <<jobs, files, posted>>
    BY <1>1, <1>2 DEF Kept, Once, Queued, Written
  <1>3. CASE PostFile
    <2>1. [op |-> "open"] \in Jobs /\ \A l : [op |-> "open"] # WriteOf(l)
      BY JobTypes DEF WriteOf
    <2> QED BY <1>1, <1>3, <2>1, PostOther DEF PostFile, logger, callers
  <1>4. CASE PostInit
    <2>1. [op |-> "config"] \in Jobs /\ \A l : [op |-> "config"] # WriteOf(l)
      BY JobTypes DEF WriteOf
    <2> QED BY <1>1, <1>4, <2>1, PostOther DEF PostInit, logger, callers
  <1>5. ASSUME NEW t \in Threads, PostRotate(t)
        PROVE  LinesSound'
    <2>1. PICK job : job = [op |-> "rotate", to |-> Archive(file_, pc[t], file_created_)]
      OBVIOUS
    <2>2. Archive(file_, pc[t], file_created_) \in Names
      BY <1>5, PeriodBound DEF PostRotate, Archive, Names, TypeOK
    <2>3. job \in Jobs /\ \A l : job # WriteOf(l)
      BY <2>1, <2>2, JobTypes DEF WriteOf
    <2> QED BY <1>1, <1>5, <2>1, <2>3, PostOther DEF PostRotate, logger
  <1>6. ASSUME NEW t \in Threads, PostWrite(t)
        PROVE  LinesSound'
    <2>1. PICK m : m = line[t]
      OBVIOUS
    <2>2. /\ m \in Lines /\ pc[t] # "idle" /\ Post(WriteOf(m)) /\ posted' = posted \cup {m} /\ UNCHANGED files
          /\ posted \subseteq Lines
      BY <1>6, <2>1 DEF PostWrite, WriteOf, TypeOK, logger
    <2>3. m \notin posted
      BY <2>1, <2>2 DEF NumbersSound
    <2>4. Kept(m)' /\ Once(m)'
      BY <2>2, <2>3, PostLine DEF LinesSound
    <2>5. ASSUME NEW l \in Lines, l # m
          PROVE  (Kept(l)' <=> Kept(l)) /\ (Once(l) => Once(l)')
      <3>1. WriteOf(m) \in Jobs /\ WriteOf(m) # WriteOf(l)
        BY <2>2, <2>5, JobTypes DEF WriteOf
      <3> QED BY <2>2, <3>1, PostOther
    <2> QED BY <2>2, <2>4, <2>5 DEF LinesSound
  <1>7. CASE OpenJob
    <2>1. files' = Opened(files) /\ Job("open") /\ UNCHANGED posted
      BY <1>7 DEF OpenJob, Job, callers
    <2>2. /\ DOMAIN files' = DOMAIN files \cup {LogFile} /\ (\A f \in DOMAIN files : files'[f] = files[f])
          /\ LogFile \notin DOMAIN files => DOMAIN files'[LogFile] = {}
      <3>1. DOMAIN <<>> = {}
        OBVIOUS
      <3> QED BY <2>1, <3>1, OpenedFacts
    <2>3. ASSUME NEW l
          PROVE  Head(jobs) # WriteOf(l)
      BY <2>1 DEF Job, WriteOf
    <2>4. ASSUME NEW l, NEW f \in DOMAIN files, NEW i \in DOMAIN files[f], Written(l, f, i)
          PROVE  f \in DOMAIN files' /\ i \in DOMAIN files'[f] /\ Written(l, f, i)'
      BY <2>2, <2>4 DEF Written
    <2>5. ASSUME NEW l, NEW f \in DOMAIN files', NEW i \in DOMAIN files'[f], Written(l, f, i)'
          PROVE  f \in DOMAIN files /\ i \in DOMAIN files[f] /\ Written(l, f, i)
      BY <2>2, <2>5 DEF Written
    <2> QED BY <1>1, <2>1, <2>3, <2>4, <2>5, JobKeeps
  <1>8. CASE ConfigJob \/ RotateJobSkips
    <2>1. PICK op : op # "write" /\ Job(op)
      BY <1>8 DEF ConfigJob, RotateJobSkips
    <2>2. UNCHANGED <<files, posted>>
      BY <1>8 DEF ConfigJob, RotateJobSkips, Job, logger, callers
    <2>3. ASSUME NEW l
          PROVE  Head(jobs) # WriteOf(l)
      BY <2>1 DEF Job, WriteOf
    <2>4. \A l : \A f, i : Written(l, f, i)' <=> Written(l, f, i)
      BY <2>2 DEF Written
    <2> QED BY <1>1, <2>1, <2>2, <2>3, <2>4, JobKeeps
  <1>9. CASE RotateJob
    BY <1>1, <1>9, RotateKeeps DEF RotateJob, Job, callers
  <1>10. CASE WriteJob
    BY <1>1, <1>10, WriteKeeps DEF WriteJob, Job, callers
  <1>11. CASE Tick \/ Stop \/ Join \/ UNCHANGED vars
    BY <1>2, <1>11 DEF Tick, Stop, Join, vars, logger, callers
  <1>12. ASSUME NEW t \in Threads, Log(t) \/ Compare(t)
         PROVE  LinesSound'
    BY <1>2, <1>12 DEF Log, Compare, logger
  <1> QED BY <1>3, <1>4, <1>5, <1>6, <1>7, <1>8, <1>9, <1>10, <1>11, <1>12
          DEF Next, Caller, Background, Destroyed

-----------------------------------------------------------------------------
(* The theorems                                                            *)

\* The invariant holds in the beginning.
LEMMA InitIInv == Init => IInv
  <1> SUFFICES ASSUME Init
               PROVE  IInv
    OBVIOUS
  <1>1. TypeOK
    <2>1. NoLine \in Lines /\ 0 \in 0 .. MaxTime /\ 0 \in 0 .. MaxLines
      BY BoundsAssumption DEF NoLine, Lines
    <2>2. jobs \in Seq(Jobs)
      <3>1. jobs = <<>>
        BY DEF Init
      <3> QED BY <3>1
    <2>3. DOMAIN files = {}
      <3>1. \A e : DOMAIN [f \in {} |-> e] = {}
        OBVIOUS
      <3> QED BY <3>1 DEF Init
    <2>4. files \in [DOMAIN files -> Seq(Lines)]
      BY <2>3 DEF Init
    <2> QED BY <2>1, <2>2, <2>3, <2>4, LogFileName DEF Init, TypeOK, RotationTypes
  <1>2. DOMAIN jobs = {} /\ DOMAIN files = {}
    <2>1. DOMAIN jobs = {}
      <3>1. jobs = <<>>
        BY DEF Init
      <3> QED BY <3>1
    <2>2. DOMAIN files = {}
      <3>1. \A e : DOMAIN [f \in {} |-> e] = {}
        OBVIOUS
      <3> QED BY <3>1 DEF Init
    <2> QED BY <2>1, <2>2
  <1>3. StreamSound
    BY <1>2 DEF Init, StreamSound
  <1>4. NumbersSound
    BY DEF Init, NumbersSound
  <1>5. LinesSound
    BY <1>2 DEF Init, LinesSound, Kept
  <1> QED BY <1>1, <1>3, <1>4, <1>5 DEF IInv

\* Every reachable state satisfies IInv, however the threads that log and the
\* logger's own interleave.
THEOREM Invariance == Spec => []IInv
  <1>1. Init => IInv
    BY InitIInv
  <1>2. IInv /\ [Next]_vars => IInv'
    BY NextTypeOK, NextStream, NextNumbers, NextLines DEF IInv
  <1> QED BY <1>1, <1>2, PTL DEF Spec

\* Every variable keeps its type; the names of archives stay within the time
\* that has passed, for any calendar.
THEOREM LoggerTyped == Spec => []TypeOK
  <1>1. IInv => TypeOK
    BY DEF IInv
  <1> QED BY <1>1, Invariance, PTL

\* A line handed to the logger is in exactly one place, and nothing is queued
\* when the destructor returns.
THEOREM LinesAreKept == Spec => []NoLineLost
  <1>1. ASSUME IInv, NEW l \in posted
        PROVE  Copies(l) = 1
    <2>1. Kept(l) /\ Once(l)
      BY <1>1 DEF IInv, LinesSound
    <2>2. PICK Q : Q = {j \in DOMAIN jobs : jobs[j] = WriteOf(l)}
      OBVIOUS
    <2>3. PICK W : W = UNION {{<<f, i>> : i \in {i \in DOMAIN files[f] : files[f][i] = l}} : f \in DOMAIN files}
      OBVIOUS
    <2>4. Copies(l) = Cardinality(Q) + Cardinality(W)
      BY <2>2, <2>3 DEF Copies
    <2>5. Cardinality({}) = 0 /\ \A x : Cardinality({x}) = 1
      BY FS_EmptySet, FS_Singleton
    <2>6. \A x : x \in W <=> \E f \in DOMAIN files : \E i \in DOMAIN files[f] : x = <<f, i>> /\ files[f][i] = l
      BY <2>3
    <2>7. ASSUME NEW j \in DOMAIN jobs, Queued(l, j)
          PROVE  Q = {j} /\ W = {}
      <3>1. Q = {j}
        BY <2>1, <2>2, <2>7 DEF Once, Queued
      <3>2. W = {}
        BY <2>1, <2>6, <2>7 DEF Once, Written
      <3> QED BY <3>1, <3>2
    <2>8. ASSUME NEW f \in DOMAIN files, NEW i \in DOMAIN files[f], Written(l, f, i)
          PROVE  Q = {} /\ W = {<<f, i>>}
      <3>1. Q = {}
        BY <2>1, <2>2, <2>8 DEF Once, Queued
      <3>2. ASSUME NEW x \in W
            PROVE  x = <<f, i>>
        <4>1. PICK g \in DOMAIN files : \E k \in DOMAIN files[g] : x = <<g, k>> /\ files[g][k] = l
          BY <2>6
        <4>2. PICK k \in DOMAIN files[g] : x = <<g, k>> /\ files[g][k] = l
          BY <4>1
        <4>3. Written(l, g, k)
          BY <4>2 DEF Written
        <4>4. g = f /\ k = i
          BY <2>1, <2>8, <4>3 DEF Once
        <4> QED BY <4>2, <4>4
      <3>3. <<f, i>> \in W
        BY <2>6, <2>8 DEF Written
      <3> QED BY <3>1, <3>2, <3>3
    <2>9. CASE \E j \in DOMAIN jobs : Queued(l, j)
      BY <2>4, <2>5, <2>7, <2>9
    <2>10. CASE \E f \in DOMAIN files : \E i \in DOMAIN files[f] : Written(l, f, i)
      <3>1. PICK f \in DOMAIN files : \E i \in DOMAIN files[f] : Written(l, f, i)
        BY <2>10
      <3>2. PICK i \in DOMAIN files[f] : Written(l, f, i)
        BY <3>1
      <3>3. Q = {} /\ W = {<<f, i>>}
        BY <2>8, <3>2
      <3>4. PICK x : x = <<f, i>>
        OBVIOUS
      <3>5. Q = {} /\ W = {x}
        BY <3>3, <3>4
      <3>6. Cardinality(Q) = 0
        BY <2>5, <3>5
      <3>7. Cardinality(W) = 1
        BY <2>5, <3>5
      <3> QED BY <2>4, <3>6, <3>7
    <2> QED BY <2>1, <2>9, <2>10 DEF Kept
  <1>2. IInv => NoLineLost
    <2> SUFFICES ASSUME IInv
                 PROVE  NoLineLost
      OBVIOUS
    <2>1. boot = "destroyed" => jobs = <<>>
      BY DEF IInv, StreamSound
    <2> QED BY <1>1, <2>1 DEF NoLineLost
  <1> QED BY <1>2, Invariance, PTL

\* No step writes to an archive, replaces it or removes it.
THEOREM ArchivesStay == Spec => ArchivesImmutable
  <1> DEFINE Stay == \A f \in DOMAIN files \ {LogFile} : f \in DOMAIN files' /\ files'[f] = files[f]
  <1>1. ASSUME IInv, [Next]_vars
        PROVE  Stay
    <2>1. TypeOK /\ StreamSound
      BY <1>1 DEF IInv
    <2>2. CASE UNCHANGED files
      BY <2>2
    <2>3. CASE OpenJob
      BY <2>3, OpenedFacts DEF OpenJob
    <2>4. CASE RotateJob
      BY <2>1, <2>4, RotateFacts
    <2>5. CASE WriteJob
      BY <2>1, <2>5, WriteFacts
    <2>6. CASE Tick \/ PostFile \/ PostInit \/ Stop \/ Join \/ UNCHANGED vars
      BY <2>2, <2>6 DEF Tick, PostFile, PostInit, Stop, Join, vars, logger
    <2>7. CASE (\E t \in Threads : Caller(t)) \/ ConfigJob \/ RotateJobSkips
      BY <2>2, <2>7 DEF Caller, Log, Compare, PostRotate, PostWrite, ConfigJob, RotateJobSkips, logger
    <2> QED BY <1>1, <2>3, <2>4, <2>5, <2>6, <2>7 DEF Next, Background, Destroyed
  <1>2. IInv /\ [Next]_vars => [Stay]_vars
    BY <1>1
  <1> QED BY <1>2, Invariance, PTL DEF Spec, ArchivesImmutable

-----------------------------------------------------------------------------
(* Recursion over positions                                                *)

\* Every non-empty set of naturals has a least element.
LEMMA LeastNatural ==
    ASSUME NEW S, S \subseteq Nat, S # {}
    PROVE  \E n \in S : \A m \in S : n <= m
  <1> DEFINE R == OpToRel(<, Nat)
  <1>1. IsWellFoundedOn(R, Nat)
    BY NatLessThanWellFounded
  <1>2. \A m, n \in Nat : m < n => <<m, n>> \in R
    BY DEF OpToRel
  <1> HIDE DEF R
  <1>3. PICK n \in S : \A m \in S : ~(<<m, n>> \in R)
    BY <1>1, WFMin
  <1>4. ASSUME NEW m \in S
        PROVE  n <= m
    <2>1. m \in Nat /\ n \in Nat
      OBVIOUS
    <2>2. ~(m < n)
      BY <1>2, <1>3, <2>1
    <2> QED BY <2>1, <2>2
  <1> QED BY <1>4

\* Induction over the naturals up to a bound.
LEMMA InductionTo ==
    ASSUME NEW n \in Nat, NEW S, 0 \in S, \A k \in 1 .. n : k - 1 \in S => k \in S
    PROVE  \A k \in 0 .. n : k \in S
  <1> DEFINE B == {k \in 0 .. n : k \notin S}
  <1> SUFFICES ASSUME B # {}
               PROVE  FALSE
    OBVIOUS
  <1>1. B \subseteq Nat
    OBVIOUS
  <1>2. PICK m \in B : \A k \in B : m <= k
    BY <1>1, LeastNatural
  <1>3. m \in 0 .. n /\ m \notin S
    OBVIOUS
  <1>4. m # 0 /\ m \in 1 .. n /\ m - 1 \in 0 .. n
    BY <1>3
  <1>5. m - 1 \in S
    BY <1>2, <1>3, <1>4
  <1> QED BY <1>3, <1>4, <1>5

\* A function that a recursion over the positions up to n determines.
Solves(f, n, T, base, step) ==
    f \in [0 .. n -> T] /\ f[0] = base /\ \A i \in 1 .. n : f[i] = step[<<i, f[i - 1]>>]

\* Two functions that start the same and take the same steps, and two with the
\* same values.
InStep(f, g, n) == f[0] = g[0] /\ \A i \in 1 .. n : f[i - 1] = g[i - 1] => f[i] = g[i]
Alike(f, g, n) == \A i \in 0 .. n : f[i] = g[i]

\* A recursion over positions, with its step as a function, has a solution.
LEMMA Recursion ==
    ASSUME NEW n \in Nat, NEW T, NEW base \in T, NEW step \in [(1 .. n) \X T -> T]
    PROVE  \E f : Solves(f, n, T, base, step)
  <1> DEFINE Partial(m, f) == f \in [0 .. m -> T] /\ f[0] = base /\ \A i \in 1 .. m : f[i] = step[<<i, f[i - 1]>>]
  <1> DEFINE Some == {m \in 0 .. n : \E f : Partial(m, f)}
  <1>1. 0 \in Some
    <2>1. PICK f : f = [i \in 0 .. 0 |-> base]
      OBVIOUS
    <2>2. Partial(0, f)
      BY <2>1
    <2> QED BY <2>2
  <1>2. ASSUME NEW m \in 1 .. n, m - 1 \in Some
        PROVE  m \in Some
    <2>1. PICK f : Partial(m - 1, f)
      BY <1>2
    <2>2. m - 1 \in 0 .. m - 1 /\ f[m - 1] \in T
      BY <2>1
    <2>3. PICK g : g = [i \in 0 .. m |-> IF i = m THEN step[<<m, f[m - 1]>>] ELSE f[i]]
      OBVIOUS
    <2>4. step[<<m, f[m - 1]>>] \in T
      BY <2>2
    <2>5. \A i \in 0 .. m - 1 : g[i] = f[i] /\ f[i] \in T
      BY <2>1, <2>3
    <2>6. g \in [0 .. m -> T]
      <3>1. ASSUME NEW i \in 0 .. m
            PROVE  g[i] \in T
        <4>1. i = m \/ i \in 0 .. m - 1
          OBVIOUS
        <4> QED BY <2>3, <2>4, <2>5, <4>1
      <3> QED BY <2>3, <3>1
    <2>7. ASSUME NEW i \in 1 .. m
          PROVE  g[i] = step[<<i, g[i - 1]>>]
      <3>1. i - 1 \in 0 .. m - 1 /\ g[i - 1] = f[i - 1]
        BY <2>5
      <3>2. CASE i = m
        <4>1. g[m] = step[<<m, f[m - 1]>>]
          BY <2>3
        <4>2. g[m - 1] = f[m - 1]
          BY <3>1, <3>2, Zenon
        <4> QED BY <3>2, <4>1, <4>2, Zenon
      <3>3. CASE i # m
        <4>1. i \in 1 .. m - 1 /\ i \in 0 .. m - 1
          BY <3>3
        <4> QED BY <2>1, <2>5, <3>1, <4>1
      <3> QED BY <3>2, <3>3
    <2>8. g[0] = base
      BY <2>1, <2>5
    <2> QED BY <2>6, <2>7, <2>8
  <1>3. n \in Some
    <2> HIDE DEF Some
    <2>1. \A k \in 0 .. n : k \in Some
      BY <1>1, <1>2, InductionTo
    <2> QED BY <2>1
  <1> QED BY <1>3 DEF Solves

\* Two functions that follow the same recursion agree.
LEMMA Agreement ==
    ASSUME NEW n \in Nat, NEW f, NEW g, InStep(f, g, n)
    PROVE  Alike(f, g, n)
  <1> DEFINE Same == {i \in 0 .. n : f[i] = g[i]}
  <1>1. 0 \in Same /\ \A k \in 1 .. n : k - 1 \in Same => k \in Same
    BY DEF InStep
  <1> HIDE DEF Same
  <1>2. \A k \in 0 .. n : k \in Same
    BY <1>1, InductionTo
  <1> QED BY <1>2 DEF Same, Alike

-----------------------------------------------------------------------------
(* The lines of a queue                                                    *)

\* A queue's lines after one more job.
Grown(s, job) == IF job.op = "write" THEN Append(s, job.line) ELSE s

\* The lines that a queue is going to write are among S.
WritesOnly(q, S) == \A i \in 1 .. Len(q) : q[i].op = "write" => q[i].line \in S

\* What LinesOf computes, job by job.
LEMMA LinesOfDef ==
    ASSUME NEW q \in Seq(Jobs), NEW S, WritesOnly(q, S)
    PROVE  \E f \in [0 .. Len(q) -> Seq(S)] :
              /\ f[0] = <<>> /\ (\A i \in 1 .. Len(q) : f[i] = Grown(f[i - 1], q[i]))
              /\ LinesOf(q) = f[Len(q)]
  <1>1. PICK n : n = Len(q)
    OBVIOUS
  <1>2. n \in Nat /\ \A i \in 1 .. n : q[i].op = "write" => q[i].line \in S
    BY <1>1 DEF WritesOnly
  <1>3. PICK T : T = Seq(S)
    OBVIOUS
  <1>4. PICK b : b = <<>>
    OBVIOUS
  <1>5. b \in T /\ \A t \in T, i \in 1 .. n : Grown(t, q[i]) \in T
    <2>1. b \in T
      BY <1>3, <1>4
    <2>2. ASSUME NEW t \in T, NEW i \in 1 .. n
          PROVE  Grown(t, q[i]) \in T
      <3>1. \A x \in S : Append(t, x) \in T
        BY <1>3
      <3> QED BY <1>2, <3>1 DEF Grown
    <2> QED BY <2>1, <2>2
  <1>6. PICK step : step = [x \in (1 .. n) \X T |-> Grown(x[2], q[x[1]])]
    OBVIOUS
  <1>7. step \in [(1 .. n) \X T -> T] /\ \A i \in 1 .. n, t \in T : step[<<i, t>>] = Grown(t, q[i])
    <2>1. ASSUME NEW x \in (1 .. n) \X T
          PROVE  step[x] \in T
      <3>1. x[1] \in 1 .. n /\ x[2] \in T
        OBVIOUS
      <3> QED BY <1>5, <1>6, <3>1
    <2> QED BY <1>6, <2>1
  <1>8. PICK h : Solves(h, n, T, b, step)
    BY <1>2, <1>5, <1>7, Recursion, Zenon
  <1>9. h \in [0 .. n -> T] /\ h[0] = b /\ \A i \in 1 .. n : h[i] = Grown(h[i - 1], q[i])
    <2>1. h \in [0 .. n -> T] /\ h[0] = b /\ \A i \in 1 .. n : h[i] = step[<<i, h[i - 1]>>]
      BY <1>8 DEF Solves
    <2>2. ASSUME NEW i \in 1 .. n
          PROVE  h[i] = Grown(h[i - 1], q[i])
      <3>1. i - 1 \in 0 .. n
        BY <1>2
      <3> QED BY <1>7, <2>1, <3>1
    <2> QED BY <2>1, <2>2
  <1> DEFINE Full(g) ==
          [i \in 0 .. Len(q) |->
              IF i = 0 THEN <<>> ELSE IF q[i].op = "write" THEN Append(g[i - 1], q[i].line) ELSE g[i - 1]]
  <1>10. ASSUME NEW g
         PROVE  Full(g) = [i \in 0 .. n |-> IF i = 0 THEN b ELSE Grown(g[i - 1], q[i])]
    BY <1>1, <1>4, Zenon DEF Grown
  <1>11. PICK f : f = CHOOSE g : g = Full(g)
    OBVIOUS
  <1>12. LinesOf(q) = f[Len(q)]
    BY <1>11 DEF LinesOf
  <1> HIDE DEF Full
  <1>13. h = Full(h)
    <2>1. ASSUME NEW i \in 0 .. n
          PROVE  h[i] = IF i = 0 THEN b ELSE Grown(h[i - 1], q[i])
      <3>1. i # 0 => i \in 1 .. n
        BY <1>2
      <3> QED BY <1>9, <3>1
    <2>2. h = [i \in 0 .. n |-> IF i = 0 THEN b ELSE Grown(h[i - 1], q[i])]
      BY <1>9, <2>1
    <2> QED BY <1>10, <2>2
  <1>14. f = Full(f)
    BY <1>11, <1>13
  <1>15. f = [i \in 0 .. n |-> IF i = 0 THEN b ELSE Grown(f[i - 1], q[i])]
    BY <1>10, <1>14
  <1>16. f[0] = b /\ f = [i \in 0 .. n |-> f[i]] /\ \A i \in 1 .. n : f[i] = Grown(f[i - 1], q[i])
    <2>1. PICK e : e = [i \in 0 .. n |-> IF i = 0 THEN b ELSE Grown(f[i - 1], q[i])]
      OBVIOUS
    <2>2. e[0] = b /\ e = [i \in 0 .. n |-> e[i]] /\ \A i \in 1 .. n : e[i] = Grown(f[i - 1], q[i])
      BY <1>2, <2>1
    <2> QED BY <1>15, <2>1, <2>2
  <1>17. Alike(f, h, n)
    <2>1. InStep(f, h, n)
      BY <1>9, <1>16 DEF InStep
    <2> QED BY <1>2, <2>1, Agreement, Zenon
  <1>18. f = h
    BY <1>9, <1>16, <1>17 DEF Alike
  <1> QED BY <1>1, <1>3, <1>4, <1>9, <1>12, <1>18

\* One more job adds its line, if it writes one.
LEMMA LinesOfAppend ==
    ASSUME NEW q \in Seq(Jobs), NEW job \in Jobs, NEW S, WritesOnly(Append(q, job), S)
    PROVE  LinesOf(q) \in Seq(S) /\ LinesOf(Append(q, job)) = Grown(LinesOf(q), job)
  <1>1. PICK n : n = Len(q)
    OBVIOUS
  <1>2. PICK r : r = Append(q, job)
    OBVIOUS
  <1>3. n \in Nat /\ r \in Seq(Jobs) /\ Len(r) = n + 1 /\ r[n + 1] = job /\ \A i \in 1 .. n : r[i] = q[i]
    BY <1>1, <1>2
  <1>4. WritesOnly(r, S) /\ WritesOnly(q, S)
    <2>1. WritesOnly(r, S)
      BY <1>2
    <2>2. ASSUME NEW i \in 1 .. n
          PROVE  i \in 1 .. n + 1 /\ r[i] = q[i]
      BY <1>3
    <2> QED BY <1>1, <1>3, <2>1, <2>2 DEF WritesOnly
  <1>5. PICK f \in [0 .. n -> Seq(S)] :
            f[0] = <<>> /\ (\A i \in 1 .. n : f[i] = Grown(f[i - 1], q[i])) /\ LinesOf(q) = f[n]
    BY <1>1, <1>4, LinesOfDef
  <1>6. PICK g \in [0 .. n + 1 -> Seq(S)] :
            g[0] = <<>> /\ (\A i \in 1 .. n + 1 : g[i] = Grown(g[i - 1], r[i])) /\ LinesOf(r) = g[n + 1]
    BY <1>3, <1>4, LinesOfDef
  <1>7. Alike(f, g, n)
    <2>1. ASSUME NEW i \in 1 .. n, f[i - 1] = g[i - 1]
          PROVE  f[i] = g[i]
      <3>1. i \in 1 .. n + 1 /\ r[i] = q[i]
        BY <1>3
      <3> QED BY <1>5, <1>6, <2>1, <3>1
    <2>2. InStep(f, g, n)
      BY <1>5, <1>6, <2>1 DEF InStep
    <2> QED BY <1>3, <2>2, Agreement, Zenon
  <1>8. n \in 0 .. n /\ n + 1 \in 1 .. n + 1 /\ (n + 1) - 1 = n
    BY <1>3
  <1>9. f[n] = g[n] /\ f[n] \in Seq(S)
    BY <1>5, <1>7, <1>8 DEF Alike
  <1>10. LinesOf(r) = Grown(g[n], job)
    BY <1>3, <1>6, <1>8
  <1> QED BY <1>2, <1>5, <1>9, <1>10

\* A job adds its line at the end, whatever is before it.
LEMMA GrownAfter ==
    ASSUME NEW S, NEW p \in Seq(S), NEW s \in Seq(S), NEW job, job.op = "write" => job.line \in S
    PROVE  Grown(p \o s, job) = p \o Grown(s, job)
  <1>1. \A x \in S : Append(p \o s, x) = p \o Append(s, x)
    OBVIOUS
  <1> QED BY <1>1 DEF Grown

\* The oldest job writes the oldest line, or none.
LEMMA LinesOfTail ==
    ASSUME NEW q \in Seq(Jobs), q # <<>>, NEW S, WritesOnly(q, S)
    PROVE  /\ LinesOf(q) \in Seq(S) /\ LinesOf(Tail(q)) \in Seq(S)
           /\ LinesOf(q) = Grown(<<>>, q[1]) \o LinesOf(Tail(q))
           /\ Grown(<<>>, q[1]) \in Seq(S)
  <1>1. PICK r : r = Tail(q)
    OBVIOUS
  <1>2. PICK n : n = Len(r)
    OBVIOUS
  <1>3. n \in Nat /\ r \in Seq(Jobs) /\ Len(q) = n + 1 /\ \A i \in 1 .. n : r[i] = q[i + 1]
    BY <1>1, <1>2
  <1>4. WritesOnly(r, S)
    <2>1. ASSUME NEW i \in 1 .. n
          PROVE  i + 1 \in 1 .. n + 1 /\ r[i] = q[i + 1]
      BY <1>3
    <2> QED BY <1>2, <1>3, <2>1 DEF WritesOnly
  <1>5. PICK f \in [0 .. n + 1 -> Seq(S)] :
            f[0] = <<>> /\ (\A i \in 1 .. n + 1 : f[i] = Grown(f[i - 1], q[i])) /\ LinesOf(q) = f[n + 1]
    BY <1>3, LinesOfDef
  <1>6. PICK g \in [0 .. n -> Seq(S)] :
            g[0] = <<>> /\ (\A i \in 1 .. n : g[i] = Grown(g[i - 1], r[i])) /\ LinesOf(r) = g[n]
    BY <1>2, <1>3, <1>4, LinesOfDef
  <1>7. PICK p : p = Grown(<<>>, q[1])
    OBVIOUS
  <1>8. f[1] = p /\ p \in Seq(S)
    <2>1. 1 \in 1 .. n + 1 /\ 1 - 1 = 0 /\ 1 \in 0 .. n + 1
      BY <1>3
    <2> QED BY <1>5, <1>7, <2>1
  <1>9. PICK a : a = [i \in 0 .. n |-> f[i + 1]]
    OBVIOUS
  <1>10. PICK b : b = [i \in 0 .. n |-> p \o g[i]]
    OBVIOUS
  <1>11. Alike(a, b, n)
    <2>1. a[0] = b[0]
      <3>1. 0 \in 0 .. n /\ p \o <<>> = p /\ 0 + 1 = 1
        BY <1>3, <1>8
      <3> QED BY <1>6, <1>8, <1>9, <1>10, <3>1
    <2>2. ASSUME NEW i \in 1 .. n, a[i - 1] = b[i - 1]
          PROVE  a[i] = b[i]
      <3>1. /\ i \in 0 .. n /\ i - 1 \in 0 .. n /\ i + 1 \in 1 .. n + 1
            /\ (i + 1) - 1 = i /\ (i - 1) + 1 = i /\ i \in 1 .. n + 1
        BY <1>3
      <3>2. a[i] = f[i + 1] /\ a[i - 1] = f[i] /\ b[i] = p \o g[i] /\ b[i - 1] = p \o g[i - 1] /\ g[i - 1] \in Seq(S)
        BY <1>6, <1>9, <1>10, <3>1
      <3>3. f[i + 1] = Grown(f[i], q[i + 1]) /\ g[i] = Grown(g[i - 1], q[i + 1])
        BY <1>3, <1>5, <1>6, <3>1
      <3>4. q[i + 1].op = "write" => q[i + 1].line \in S
        BY <1>3, <3>1 DEF WritesOnly
      <3>5. Grown(p \o g[i - 1], q[i + 1]) = p \o Grown(g[i - 1], q[i + 1])
        <4>1. ASSUME NEW s \in Seq(S), NEW job, job.op = "write" => job.line \in S
              PROVE  Grown(p \o s, job) = p \o Grown(s, job)
          <5>1. p \in Seq(S)
            BY <1>8
          <5> QED BY <4>1, <5>1, GrownAfter
        <4>2. g[i - 1] \in Seq(S)
          BY <3>2
        <4> QED BY <3>4, <4>1, <4>2
      <3> QED BY <2>2, <3>2, <3>3, <3>5
    <2>3. InStep(a, b, n)
      BY <2>1, <2>2 DEF InStep
    <2> QED BY <1>3, <2>3, Agreement, Zenon
  <1>12. n \in 0 .. n /\ n + 1 \in 0 .. n + 1
    BY <1>3
  <1>13. f[n + 1] = p \o g[n] /\ f[n + 1] \in Seq(S) /\ g[n] \in Seq(S)
    BY <1>5, <1>6, <1>9, <1>10, <1>11, <1>12 DEF Alike
  <1> QED BY <1>1, <1>5, <1>6, <1>7, <1>8, <1>13

-----------------------------------------------------------------------------
(* Refinement of LineLog                                                   *)

\* The jobs write lines, and not l unless it is queued.
LEMMA QueueLines ==
    ASSUME TypeOK
    PROVE  /\ WritesOnly(jobs, Lines)
           /\ \A l \in Lines : (\A j \in DOMAIN jobs : ~Queued(l, j)) => WritesOnly(jobs, Lines \ {l})
  <1>1. jobs \in Seq(Jobs)
    BY DEF TypeOK
  <1>2. \A j \in Jobs : j.op = "write" => j.line \in Lines /\ j = WriteOf(j.line)
    BY DEF Jobs, WriteOf
  <1>3. ASSUME NEW i \in 1 .. Len(jobs)
        PROVE  i \in DOMAIN jobs /\ jobs[i] \in Jobs
    BY <1>1
  <1> QED BY <1>2, <1>3 DEF WritesOnly, Queued

\* Nothing is written by no jobs.
LEMMA NoLines == LinesOf(<<>>) = <<>>
  <1>1. PICK q : q = <<>>
    OBVIOUS
  <1>2. q \in Seq(Jobs) /\ Len(q) = 0
    BY <1>1
  <1>3. WritesOnly(q, {})
    BY <1>2 DEF WritesOnly
  <1>4. \E f \in [0 .. Len(q) -> Seq({})] : f[0] = <<>> /\ LinesOf(q) = f[Len(q)]
    BY <1>2, <1>3, LinesOfDef
  <1> QED BY <1>1, <1>2, <1>4

\* A posted job adds its line to those that wait.
LEMMA PostPending ==
    ASSUME TypeOK, NEW job \in Jobs, Post(job)
    PROVE  LinesOf(jobs)' = Grown(LinesOf(jobs), job)
  <1>1. jobs \in Seq(Jobs) /\ jobs' = Append(jobs, job)
    BY DEF TypeOK, Post
  <1>2. WritesOnly(jobs', Lines)
    <2>1. jobs' \in Seq(Jobs)
      BY <1>1
    <2>2. \A j \in Jobs : j.op = "write" => j.line \in Lines
      BY DEF Jobs
    <2>3. \A i \in 1 .. Len(jobs') : jobs'[i] \in Jobs
      BY <2>1
    <2> QED BY <2>2, <2>3 DEF WritesOnly
  <1>3. WritesOnly(Append(jobs, job), Lines)
    BY <1>1, <1>2
  <1>4. LinesOf(Append(jobs, job)) = Grown(LinesOf(jobs), job)
    BY <1>1, <1>3, LinesOfAppend
  <1> QED BY <1>1, <1>4

\* The oldest job takes the oldest line, or none.
LEMMA JobPending ==
    ASSUME TypeOK, NEW op, Job(op)
    PROVE  /\ op # "write" => LinesOf(jobs)' = LinesOf(jobs)
           /\ op = "write" => /\ LinesOf(jobs) # <<>> /\ Head(LinesOf(jobs)) = Head(jobs).line
                              /\ LinesOf(jobs)' = Tail(LinesOf(jobs))
  <1>1. jobs \in Seq(Jobs) /\ jobs # <<>> /\ jobs' = Tail(jobs) /\ jobs[1].op = op /\ Head(jobs) = jobs[1]
    BY JobFacts DEF TypeOK, Job
  <1>2. PICK s : s = LinesOf(Tail(jobs))
    OBVIOUS
  <1>3. PICK p : p = Grown(<<>>, jobs[1])
    OBVIOUS
  <1>4. s \in Seq(Lines) /\ LinesOf(jobs) = p \o s /\ p \in Seq(Lines)
    BY <1>1, <1>2, <1>3, QueueLines, LinesOfTail
  <1>5. LinesOf(jobs)' = s
    BY <1>1, <1>2
  <1>6. CASE op # "write"
    <2>1. p = <<>>
      BY <1>1, <1>3, <1>6 DEF Grown
    <2>2. p \o s = s
      BY <1>4, <2>1
    <2> QED BY <1>4, <1>5, <1>6, <2>2
  <1>7. CASE op = "write"
    <2>1. PICK m : m = Head(jobs).line
      OBVIOUS
    <2>2. m \in Lines
      BY <1>1, <1>7, <2>1, HeadJob
    <2>3. p = <<m>>
      <3>1. p = Append(<<>>, m)
        BY <1>1, <1>3, <1>7, <2>1 DEF Grown
      <3>2. Append(<<>>, m) = <<m>>
        BY <2>2
      <3> QED BY <3>1, <3>2
    <2>4. <<m>> \o s # <<>> /\ Head(<<m>> \o s) = m /\ Tail(<<m>> \o s) = s
      BY <1>4, <2>2
    <2> QED BY <1>4, <1>5, <1>7, <2>1, <2>3, <2>4
  <1> QED BY <1>6, <1>7

\* A line that was not handed over is not in the log.
LEMMA NewLine ==
    ASSUME TypeOK, NEW l \in Lines, ~Kept(l)
    PROVE  l \notin Abstract!Known
  <1>1. l \notin Range(LinesOf(jobs))
    <2>1. WritesOnly(jobs, Lines \ {l})
      BY QueueLines DEF Kept
    <2>2. PICK S : S = Lines \ {l}
      OBVIOUS
    <2>3. jobs \in Seq(Jobs)
      BY DEF TypeOK
    <2>4. LinesOf(jobs) \in Seq(S)
      <3>1. CASE jobs = <<>>
        <4>1. LinesOf(jobs) = <<>>
          BY <3>1, NoLines
        <4> QED BY <4>1
      <3>2. CASE jobs # <<>>
        BY <2>1, <2>2, <2>3, <3>2, LinesOfTail
      <3> QED BY <3>1, <3>2
    <2>5. PICK s : s = LinesOf(jobs)
      OBVIOUS
    <2>6. s \in Seq(S) /\ l \notin S
      BY <2>2, <2>4, <2>5
    <2>7. l \notin Range(s)
      BY <2>6 DEF Range
    <2> QED BY <2>5, <2>7
  <1>2. \A f \in DOMAIN files : l \notin Range(files[f])
    BY DEF Kept, Written, Range
  <1>3. l \notin Range(LogLines)
    <2>1. Range(<<>>) = {}
      BY DEF Range
    <2> QED BY <1>2, <2>1 DEF LogLines
  <1>4. DOMAIN Archived \subseteq DOMAIN files /\ \A f \in DOMAIN Archived : Archived[f] = files[f]
    BY DEF Archived
  <1>5. \A s : Abstract!Range(s) = Range(s)
    BY DEF Range, Abstract!Range
  <1> QED BY <1>1, <1>2, <1>3, <1>4, <1>5 DEF Abstract!Known

\* The steps after which the log is the same: none is written and no file has
\* another content.
LEMMA SameLog ==
    ASSUME UNCHANGED files, LinesOf(jobs)' = LinesOf(jobs), (boot' = "destroyed") <=> (boot = "destroyed")
    PROVE  UNCHANGED Abstract!lvars
  <1>1. LogLines' = LogLines /\ Archived' = Archived
    BY DEF LogLines, Archived
  <1>2. (boot = "destroyed")' = (boot = "destroyed")
    OBVIOUS
  <1> QED BY <1>1, <1>2 DEF Abstract!lvars

\* A thread hands a line over.
LEMMA PostWriteRefines ==
    ASSUME IInv, NEW t \in Threads, PostWrite(t)
    PROVE  \E l \in Lines : Abstract!Accept(l)
  <1>1. PICK l : l = line[t]
    OBVIOUS
  <1>2. /\ l \in Lines /\ pc[t] # "idle" /\ Post(WriteOf(l)) /\ UNCHANGED <<boot, files>>
        /\ TypeOK /\ StreamSound /\ NumbersSound /\ LinesSound
    BY <1>1 DEF PostWrite, WriteOf, IInv, TypeOK, logger
  <1>3. l \notin posted
    BY <1>1, <1>2 DEF NumbersSound
  <1>4. l \notin Abstract!Known
    BY <1>2, <1>3, NewLine DEF LinesSound
  <1>5. LinesOf(jobs)' = Append(LinesOf(jobs), l)
    <2>1. WriteOf(l) \in Jobs
      BY <1>2, JobTypes
    <2>2. LinesOf(jobs)' = Grown(LinesOf(jobs), WriteOf(l))
      BY <1>2, <2>1, PostPending
    <2> QED BY <2>2 DEF Grown, WriteOf
  <1>6. boot # "destroyed" /\ boot' # "destroyed"
    BY <1>2 DEF StreamSound
  <1>7. LogLines' = LogLines /\ Archived' = Archived
    BY <1>2 DEF LogLines, Archived
  <1>8. Abstract!Accept(l)
    BY <1>4, <1>5, <1>6, <1>7 DEF Abstract!Accept
  <1> QED BY <1>2, <1>8

\* The logger's thread writes the oldest line.
LEMMA WriteRefines ==
    ASSUME IInv, WriteJob
    PROVE  Abstract!Write
  <1>1. TypeOK /\ StreamSound /\ Job("write")
    BY DEF IInv, WriteJob
  <1>2. PICK m : m = Head(jobs).line
    OBVIOUS
  <1>3. LinesOf(jobs) # <<>> /\ Head(LinesOf(jobs)) = m /\ LinesOf(jobs)' = Tail(LinesOf(jobs))
    BY <1>1, <1>2, JobPending
  <1>4. /\ LogFile \in DOMAIN files /\ DOMAIN files' = DOMAIN files /\ files'[LogFile] = Append(files[LogFile], m)
        /\ \A f \in DOMAIN files \ {LogFile} : files'[f] = files[f]
    BY <1>1, <1>2, WriteFacts
  <1>5. LogLines' = Append(LogLines, m)
    BY <1>4 DEF LogLines
  <1>6. Archived' = Archived
    BY <1>4 DEF Archived
  <1>7. boot # "destroyed" /\ boot' # "destroyed"
    BY <1>1 DEF Job
  <1> QED BY <1>3, <1>5, <1>6, <1>7 DEF Abstract!Write

\* A rotation cuts the log.
LEMMA RotateRefines ==
    ASSUME IInv, RotateJob
    PROVE  \E f \in Names : Abstract!Cut(f)
  <1>1. TypeOK /\ StreamSound /\ Job("rotate")
    BY DEF IInv, RotateJob
  <1>2. PICK to : to = Head(jobs).to
    OBVIOUS
  <1>3. /\ to \in Names /\ to # LogFile /\ to \notin DOMAIN files /\ LogFile \in DOMAIN files
        /\ DOMAIN files' = DOMAIN files \cup {to}
        /\ files'[to] = files[LogFile] /\ files'[LogFile] = <<>>
        /\ \A f \in DOMAIN files \ {LogFile} : files'[f] = files[f]
    BY <1>1, <1>2, RotateFacts
  <1>4. to \notin DOMAIN Archived
    BY <1>3 DEF Archived
  <1>5. LogLines' = <<>> /\ LogLines = files[LogFile]
    BY <1>3 DEF LogLines
  <1>6. Archived' = [g \in DOMAIN Archived \cup {to} |-> IF g = to THEN LogLines ELSE Archived[g]]
    <2>1. DOMAIN files' \ {LogFile} = (DOMAIN files \ {LogFile}) \cup {to}
      BY <1>3
    <2>2. Archived' = [g \in (DOMAIN files \ {LogFile}) \cup {to} |-> files'[g]]
      BY <2>1 DEF Archived
    <2>3. DOMAIN Archived = DOMAIN files \ {LogFile} /\ \A g \in DOMAIN Archived : Archived[g] = files[g]
      BY DEF Archived
    <2> QED BY <1>3, <1>5, <2>2, <2>3
  <1>7. LinesOf(jobs)' = LinesOf(jobs)
    BY <1>1, JobPending
  <1>8. boot # "destroyed" /\ boot' # "destroyed"
    BY <1>1 DEF Job
  <1>9. Abstract!Cut(to)
    BY <1>4, <1>5, <1>6, <1>7, <1>8 DEF Abstract!Cut
  <1> QED BY <1>3, <1>9

\* The other jobs change nothing of the log.
LEMMA OtherJobs ==
    ASSUME IInv, OpenJob \/ ConfigJob \/ RotateJobSkips
    PROVE  UNCHANGED Abstract!lvars
  <1>1. TypeOK
    BY DEF IInv
  <1>2. PICK op : op # "write" /\ Job(op)
    BY DEF OpenJob, ConfigJob, RotateJobSkips
  <1>3. LinesOf(jobs)' = LinesOf(jobs) /\ UNCHANGED boot
    BY <1>1, <1>2, JobPending DEF Job
  <1>4. CASE ConfigJob \/ RotateJobSkips
    BY <1>3, <1>4, SameLog DEF ConfigJob, RotateJobSkips, logger
  <1>5. CASE OpenJob
    <2>1. /\ DOMAIN files' = DOMAIN files \cup {LogFile} /\ (\A f \in DOMAIN files : files'[f] = files[f])
          /\ LogFile \notin DOMAIN files => files'[LogFile] = <<>>
      BY <1>5, OpenedFacts DEF OpenJob
    <2>2. LogLines' = LogLines
      BY <2>1 DEF LogLines
    <2>3. Archived' = Archived
      <3>1. DOMAIN files' \ {LogFile} = DOMAIN files \ {LogFile}
        BY <2>1
      <3> QED BY <2>1, <3>1 DEF Archived
    <2> QED BY <1>3, <2>2, <2>3 DEF Abstract!lvars
  <1> QED BY <1>4, <1>5

\* The destructor closes the log.
LEMMA JoinRefines ==
    ASSUME IInv, Join
    PROVE  Abstract!Close
  <1>1. jobs = <<>> /\ UNCHANGED <<jobs, files>> /\ boot # "destroyed" /\ boot' = "destroyed"
    BY DEF Join
  <1>2. LinesOf(jobs) = <<>> /\ LinesOf(jobs)' = LinesOf(jobs)
    BY <1>1, NoLines
  <1>3. LogLines' = LogLines /\ Archived' = Archived
    BY <1>1 DEF LogLines, Archived
  <1> QED BY <1>1, <1>2, <1>3 DEF Abstract!Close

\* Every step is one of LineLog or changes nothing of it.
LEMMA NextRefines ==
    ASSUME IInv, [Next]_vars
    PROVE  [Abstract!LNext]_(Abstract!lvars)
  <1>1. TypeOK /\ StreamSound
    BY DEF IInv
  <1>2. ASSUME UNCHANGED <<jobs, files>>, (boot' = "destroyed") <=> (boot = "destroyed")
        PROVE  UNCHANGED Abstract!lvars
    BY <1>2, SameLog
  <1>3. ASSUME NEW job \in Jobs, job.op # "write", Post(job), UNCHANGED files,
               (boot' = "destroyed") <=> (boot = "destroyed")
        PROVE  UNCHANGED Abstract!lvars
    <2>1. LinesOf(jobs)' = LinesOf(jobs)
      BY <1>1, <1>3, PostPending DEF Grown
    <2> QED BY <1>3, <2>1, SameLog
  <1>4. CASE Tick \/ Stop \/ UNCHANGED vars
    BY <1>2, <1>4 DEF Tick, Stop, vars, logger
  <1>5. CASE PostFile \/ PostInit
    BY <1>3, <1>5, JobTypes DEF PostFile, PostInit, logger
  <1>6. CASE Join
    BY <1>6, JoinRefines DEF Abstract!LNext
  <1>7. ASSUME NEW t \in Threads, Log(t) \/ Compare(t)
        PROVE  UNCHANGED Abstract!lvars
    BY <1>2, <1>7 DEF Log, Compare, logger
  <1>8. ASSUME NEW t \in Threads, PostRotate(t)
        PROVE  UNCHANGED Abstract!lvars
    <2>1. PICK job : job = [op |-> "rotate", to |-> Archive(file_, pc[t], file_created_)]
      OBVIOUS
    <2>2. Archive(file_, pc[t], file_created_) \in Names
      BY <1>1, <1>8, PeriodBound DEF PostRotate, Archive, Names, TypeOK
    <2>3. job \in Jobs /\ job.op # "write"
      BY <2>1, <2>2, JobTypes
    <2> QED BY <1>3, <1>8, <2>1, <2>3 DEF PostRotate, logger
  <1>9. ASSUME NEW t \in Threads, PostWrite(t)
        PROVE  Abstract!LNext
    BY <1>9, PostWriteRefines DEF Abstract!LNext
  <1>10. CASE OpenJob \/ ConfigJob \/ RotateJobSkips
    BY <1>10, OtherJobs
  <1>11. CASE RotateJob
    BY <1>11, RotateRefines DEF Abstract!LNext
  <1>12. CASE WriteJob
    BY <1>12, WriteRefines DEF Abstract!LNext
  <1> QED BY <1>4, <1>5, <1>6, <1>7, <1>8, <1>9, <1>10, <1>11, <1>12
          DEF Next, Caller, Background, Destroyed

\* The logger implements LineLog: what the threads hand over is written in the order
\* of their calls to write(), each line once, through every rotation and shutdown.
THEOREM RefinesLineLog == Spec => ImplementsLineLog
  <1>1. Init => Abstract!LInit
    <2> SUFFICES ASSUME Init
                 PROVE  Abstract!LInit
      OBVIOUS
    <2>1. LinesOf(jobs) = <<>> /\ (boot = "destroyed") = FALSE
      BY NoLines DEF Init
    <2>2. DOMAIN files = {}
      <3>1. \A e : DOMAIN [f \in {} |-> e] = {}
        OBVIOUS
      <3> QED BY <3>1 DEF Init
    <2>3. LogLines = <<>>
      BY <2>2 DEF LogLines
    <2>4. Archived = [f \in {} |-> <<>>]
      BY <2>2 DEF Archived
    <2> QED BY <2>1, <2>3, <2>4 DEF Abstract!LInit
  <1>2. IInv /\ [Next]_vars => [Abstract!LNext]_(Abstract!lvars)
    BY NextRefines
  <1> QED BY <1>1, <1>2, Invariance, PTL DEF Spec, ImplementsLineLog, Abstract!LSpec
===============================================================================
