--------------------------- MODULE ConnPoolProofs ---------------------------
(***************************************************************************)
(* Machine-checked proofs about ConnPool, for any finite set of threads,   *)
(* any set of addresses and any pool_size.                                 *)
(***************************************************************************)
EXTENDS ConnPool, FiniteSetTheorems, SequenceTheorems, TLAPS

-----------------------------------------------------------------------------
(* The vector: what push_back and pop_back do to the set of its elements.  *)

\* push_back keeps the elements where they are and adds one at the back.
LEMMA AppendFacts ==
    ASSUME NEW S, NEW s \in Seq(S), NEW e \in S
    PROVE  /\ Append(s, e) \in Seq(S)
           /\ Len(Append(s, e)) = Len(s) + 1
           /\ \A i \in 1 .. Len(s) : Append(s, e)[i] = s[i]
           /\ Append(s, e)[Len(s) + 1] = e
           /\ Range(Append(s, e)) = Range(s) \cup {e}
  <1>1. /\ Append(s, e) \in Seq(S)
        /\ Len(Append(s, e)) = Len(s) + 1
        /\ \A i \in 1 .. Len(s) : Append(s, e)[i] = s[i]
        /\ Append(s, e)[Len(s) + 1] = e
    OBVIOUS
  <1>2. DOMAIN s = 1 .. Len(s) /\ DOMAIN Append(s, e) = 1 .. Len(s) + 1
        /\ Len(s) \in Nat
    OBVIOUS
  <1>3. Range(Append(s, e)) = Range(s) \cup {e}
    BY <1>1, <1>2, SMT DEF Range
  <1> QED BY <1>1, <1>3

\* pop_back keeps all elements but the last.
LEMMA FrontFacts ==
    ASSUME NEW S, NEW s \in Seq(S), s # <<>>
    PROVE  /\ Front(s) \in Seq(S)
           /\ Len(s) \in Nat \ {0}
           /\ Len(Front(s)) = Len(s) - 1
           /\ Last(s) \in S
           /\ \A i \in 1 .. Len(s) - 1 : Front(s)[i] = s[i]
           /\ Range(s) = Range(Front(s)) \cup {Last(s)}
  <1>1. Len(s) \in Nat \ {0}
    OBVIOUS
  <1>2. /\ Front(s) \in Seq(S)
        /\ Len(Front(s)) = Len(s) - 1
        /\ \A i \in 1 .. Len(s) - 1 : Front(s)[i] = s[i]
    <2> DEFINE n == Len(s) - 1
    <2>1. n \in Int /\ \A i \in 1 .. n : s[i] \in S
      BY <1>1
    <2>2. /\ SubSeq(s, 1, n) \in Seq(S)
          /\ Len(SubSeq(s, 1, n)) = IF 1 <= n THEN n - 1 + 1 ELSE 0
          /\ \A i \in 1 .. n - 1 + 1 : SubSeq(s, 1, n)[i] = s[1 + i - 1]
      <3>1. 1 \in Int
        OBVIOUS
      <3> HIDE DEF n
      <3> QED BY <2>1, <3>1, SubSeqProperties
    <2>3. Front(s) = SubSeq(s, 1, n)
      BY Zenon DEF Front
    <2> DEFINE f == SubSeq(s, 1, n)
    <2>4. f \in Seq(S) /\ Len(f) = n /\ \A i \in 1 .. n : f[i] = s[i]
      <3> HIDE DEF f
      <3>1. n \in Nat
        BY <1>1
      <3>2. /\ f \in Seq(S)
            /\ Len(f) = IF 1 <= n THEN n - 1 + 1 ELSE 0
            /\ \A i \in 1 .. n - 1 + 1 : f[i] = s[1 + i - 1]
        BY <2>2, Zenon DEF f
      <3> HIDE DEF n
      <3> QED BY <3>1, <3>2, SMT
    <2> QED BY <2>3, <2>4, Zenon
  <1>3. Last(s) \in S
    BY <1>1 DEF Last
  <1>4. DOMAIN s = 1 .. Len(s) /\ DOMAIN Front(s) = 1 .. Len(s) - 1
    BY <1>1, <1>2
  <1>5. Range(s) = Range(Front(s)) \cup {Last(s)}
    BY <1>1, <1>2, <1>4, SMT DEF Range, Last
  <1> QED BY <1>1, <1>2, <1>3, <1>5

\* An element of the vector has an index, and conversely.
LEMMA RangeFacts ==
    ASSUME NEW S, NEW s \in Seq(S)
    PROVE  /\ \A x : x \in Range(s) <=> \E i \in 1 .. Len(s) : s[i] = x
           /\ Range(s) \subseteq S
           /\ Range(<<>>) = {}
  <1>1. DOMAIN s = 1 .. Len(s) /\ \A i \in 1 .. Len(s) : s[i] \in S
    OBVIOUS
  <1>2. Range(<<>>) = {}
    BY DEF Range
  <1> QED BY <1>1, <1>2 DEF Range

-----------------------------------------------------------------------------
(* Type correctness                                                        *)

\* The empty pool, before fill_pool, is well typed.
LEMMA InitTypeOK == Init => TypeOK
  BY PoolSizeAssumption DEF Init, TypeOK, PCs

\* Every step of main, of a thread and of the network keeps the types.
LEMMA NextTypeOK == TypeOK /\ ExclusiveUse /\ [Next]_vars => TypeOK'
  <1> SUFFICES ASSUME TypeOK, ExclusiveUse, [Next]_vars
               PROVE  TypeOK'
    OBVIOUS
  <1>1. CASE FillPush
    BY <1>1, AppendFacts DEF FillPush, New, TypeOK, PCs
  <1>2. CASE FillFails \/ FillThrows \/ FillDone
    BY <1>2 DEF FillFails, FillThrows, FillDone, TypeOK, PCs
  <1>3. CASE Destroy
    <2>1. pool' \in Seq(Conns) /\ boot' = "destroyed"
      BY <1>3 DEF Destroy
    <2>2. heap' \in [Conns -> {"free", "pooled", "unpooled"}]
      BY <1>3, Zenon DEF Destroy, TypeOK
    <2>3. link' \in [Conns -> BOOLEAN] /\ busy' \in [Conns -> BOOLEAN]
      BY <1>3, Zenon DEF Destroy, TypeOK
    <2> QED BY <1>3, <2>1, <2>2, <2>3 DEF Destroy, TypeOK
  <1>4. ASSUME NEW t \in Threads, Step(t)
        PROVE  TypeOK'
    <2>1. CASE GetDbconn(t) \/ FindEmpty(t) \/ ConnectThrows(t) \/ Reuse(t)
               \/ SetReleased(t)
      BY <2>1 DEF GetDbconn, FindEmpty, ConnectThrows, Reuse, SetReleased,
                  Goto, TypeOK, PCs
    <2>2. CASE LockGet(t) \/ LockPut(t)
      BY <2>2 DEF LockGet, LockPut, Lock, Goto, TypeOK, PCs
    <2>3. CASE UnlockEmpty(t) \/ UnlockGet(t) \/ UnlockPut(t)
      BY <2>3 DEF UnlockEmpty, UnlockGet, UnlockPut, Unlock, Goto, TypeOK, PCs
    <2>4. CASE ReadBack(t)
      BY <2>4, FrontFacts DEF ReadBack, Goto, TypeOK, PCs
    <2>5. CASE PopBack(t)
      BY <2>5, FrontFacts DEF PopBack, Goto, TypeOK, PCs
    <2>6. CASE ConnectUnpooled(t) \/ Reconnect(t)
      <3>1. PICK c \in Conns, kind \in {"pooled", "unpooled"} :
               New(c, kind) /\ dbconn' = [dbconn EXCEPT ![t] = c]
        BY <2>6, Zenon DEF ConnectUnpooled, Reconnect
      <3>2. heap' \in [Conns -> {"free", "pooled", "unpooled"}]
        BY <3>1 DEF New, TypeOK
      <3>3. link' \in [Conns -> BOOLEAN] /\ busy' \in [Conns -> BOOLEAN]
        BY <3>1 DEF New, TypeOK
      <3> QED BY <2>6, <3>1, <3>2, <3>3
              DEF ConnectUnpooled, Reconnect, Goto, TypeOK, PCs
    <2>7. CASE DeleteStale(t) \/ DeleteUnpooled(t)
      BY <2>7 DEF DeleteStale, DeleteUnpooled, Delete, Goto, TypeOK, PCs
    <2>8. CASE ReconnectThrows(t)
      BY <2>8 DEF ReconnectThrows, Goto, TypeOK, PCs
    <2>9. CASE Query(t) \/ Clear(t)
      BY <2>9 DEF Query, Clear, Goto, TypeOK, PCs
    <2>10. CASE PushBack(t)
      BY <2>10, AppendFacts DEF PushBack, Goto, TypeOK, PCs, ExclusiveUse, Owning
    <2> QED BY <1>4, <2>1, <2>2, <2>3, <2>4, <2>5, <2>6, <2>7, <2>8, <2>9, <2>10 DEF Step
  <1>5. ASSUME NEW c \in Conns, LinkDown(c)
        PROVE  TypeOK'
    BY <1>5 DEF LinkDown, TypeOK, PCs
  <1>6. CASE Terminated \/ UNCHANGED vars
    BY <1>6 DEF Terminated, vars, TypeOK, PCs
  <1> QED BY <1>1, <1>2, <1>3, <1>4, <1>5, <1>6 DEF Next


-----------------------------------------------------------------------------
(* Mutual exclusion                                                        *)

\* The lock word alone decides who enters a critical section.
LEMMA NextMutex == TypeOK /\ MutualExclusion /\ Quiet /\ [Next]_vars => MutualExclusion'
  <1> SUFFICES ASSUME TypeOK, MutualExclusion, Quiet, [Next]_vars
               PROVE  MutualExclusion'
    OBVIOUS
  <1> USE DEF MutualExclusion, Critical
  <1>1. CASE UNCHANGED <<pc, state_>>
    BY <1>1
  <1>2. ASSUME NEW t \in Threads, NEW from \in Critical, NEW to \in Critical,
               pc[t] = from, pc' = [pc EXCEPT ![t] = to], UNCHANGED state_
        PROVE  MutualExclusion'
    BY <1>2 DEF TypeOK
  <1>3. ASSUME NEW t \in Threads, pc[t] \notin Critical,
               NEW to \in PCs \ Critical,
               pc' = [pc EXCEPT ![t] = to], UNCHANGED state_
        PROVE  MutualExclusion'
    BY <1>3 DEF TypeOK
  <1>4. ASSUME NEW t \in Threads, NEW from, NEW to \in Critical, Lock(t, from, to)
        PROVE  MutualExclusion'
    BY <1>4 DEF TypeOK, Lock, Goto
  <1>5. ASSUME NEW t \in Threads, NEW from \in Critical, NEW to \in PCs \ Critical,
               Unlock(t, from, to)
        PROVE  MutualExclusion'
    BY <1>5 DEF TypeOK, Unlock, Goto
  <1> HIDE DEF MutualExclusion
  <1>6. CASE FillPush \/ FillFails \/ FillThrows \/ FillDone \/ Destroy
             \/ Terminated \/ UNCHANGED vars \/ \E c \in Conns : LinkDown(c)
    BY <1>6, <1>1 DEF FillPush, FillFails, FillThrows, FillDone, Destroy,
                      Terminated, vars, LinkDown
  <1>7. ASSUME NEW t \in Threads, Step(t)
        PROVE  MutualExclusion'
    <2>1. CASE FindEmpty(t) \/ ReadBack(t) \/ PopBack(t) \/ PushBack(t)
      BY <1>2, <2>1 DEF FindEmpty, ReadBack, PopBack, PushBack, Goto
    <2>2. CASE GetDbconn(t) \/ ConnectUnpooled(t) \/ ConnectThrows(t) \/ Reuse(t)
               \/ DeleteStale(t) \/ Reconnect(t) \/ ReconnectThrows(t)
               \/ Clear(t) \/ DeleteUnpooled(t) \/ SetReleased(t)
      BY <1>3, <2>2 DEF GetDbconn, ConnectUnpooled, ConnectThrows, Reuse,
           DeleteStale, Reconnect, ReconnectThrows, Clear, DeleteUnpooled,
           SetReleased, Goto, PCs
    <2>3. CASE Query(t)
      BY <1>1, <2>3 DEF Query
    <2>4. CASE LockGet(t) \/ LockPut(t)
      BY <1>4, <2>4 DEF LockGet, LockPut
    <2>5. CASE UnlockEmpty(t) \/ UnlockGet(t) \/ UnlockPut(t)
      BY <1>5, <2>5 DEF UnlockEmpty, UnlockGet, UnlockPut, PCs
    <2> QED BY <1>7, <2>1, <2>2, <2>3, <2>4, <2>5 DEF Step
  <1> QED BY <1>6, <1>7 DEF Next

-----------------------------------------------------------------------------
(* Who owns which connection                                               *)

\* The part of the inductive invariant that speaks of pointers.
Data == ExclusiveUse /\ PoolSound /\ NoLeak /\ PopReads /\ Kinds /\ Clean /\ Quiet

\* A step that only moves a thread between control points that say nothing
\* of its pointer.
LEMMA DataMove ==
    ASSUME IInv, NEW t \in Threads, NEW to \in PCs,
           boot = "ready", boot' = boot,
           pc' = [pc EXCEPT ![t] = to],
           UNCHANGED <<pool, dbconn, heap, busy>>,
           \/ pc[t] \notin Owning /\ to \notin Owning \cup {"pop"}
           \/ pc[t] = "unlock_get" /\ to = "probe"
           \/ pc[t] = "probe" /\ to = "holding"
           \/ pc[t] = "release" /\ to = "lock_put" /\ heap[dbconn[t]] = "pooled"
           \/ pc[t] = "lock_put" /\ to = "push"
    PROVE  Data'
  <1> USE DEF IInv, Data, TypeOK, Owning, PCs
  <1>1. ExclusiveUse'
    BY DEF ExclusiveUse
  <1>2. PoolSound' /\ Quiet'
    BY DEF PoolSound, Quiet
  <1>3. NoLeak'
    BY DEF NoLeak
  <1>4. PopReads' /\ Kinds' /\ Clean'
    BY DEF PopReads, Kinds, Clean
  <1> QED BY <1>1, <1>2, <1>3, <1>4

\* A thread that owns nothing gets a new object at a free address.
LEMMA DataNew ==
    ASSUME IInv, NEW t \in Threads, NEW c \in Conns, NEW kind \in {"pooled", "unpooled"},
           boot = "ready", boot' = boot,
           pc[t] \in {"connect_unpooled", "reconnect"},
           pc' = [pc EXCEPT ![t] = "holding"],
           New(c, kind), dbconn' = [dbconn EXCEPT ![t] = c], UNCHANGED pool
    PROVE  Data'
  <1> USE DEF IInv, TypeOK, Owning, PCs, New
  <1>0. c \notin Range(pool) /\ \A s \in Threads : pc[s] \in Owning => dbconn[s] # c
    BY RangeFacts DEF PoolSound, ExclusiveUse
  <1>1. ExclusiveUse'
    BY <1>0 DEF ExclusiveUse
  <1>2. PoolSound' /\ Quiet'
    BY <1>0, RangeFacts DEF PoolSound, Quiet
  <1>3. NoLeak'
    BY DEF NoLeak
  <1>4. PopReads'
    BY DEF PopReads
  <1>5. Kinds' /\ Clean'
    BY <1>0 DEF Kinds, Clean
  <1> QED BY <1>1, <1>2, <1>3, <1>4, <1>5 DEF Data

\* A thread deletes the connection it owns.
LEMMA DataDelete ==
    ASSUME IInv, NEW t \in Threads, NEW to \in {"idle", "reconnect"},
           boot = "ready", boot' = boot,
           pc[t] \in Owning, pc' = [pc EXCEPT ![t] = to],
           Delete(dbconn[t]), dbconn' = [dbconn EXCEPT ![t] = NoConn],
           UNCHANGED pool
    PROVE  Data'
  <1> USE DEF IInv, TypeOK, Owning, PCs, Delete
  <1> DEFINE c == dbconn[t]
  <1>0. /\ c \in Conns /\ c \notin Range(pool)
        /\ \A s \in Threads : pc[s] \in Owning /\ dbconn[s] = c => s = t
    BY DEF ExclusiveUse
  <1>1. ExclusiveUse'
    BY <1>0 DEF ExclusiveUse
  <1>2. PoolSound' /\ Quiet'
    BY <1>0, RangeFacts DEF PoolSound, Quiet
  <1>3. NoLeak'
    BY <1>0 DEF NoLeak
  <1>4. PopReads'
    BY DEF PopReads
  <1>5. Kinds' /\ Clean'
    BY <1>0 DEF Kinds, Clean
  <1> QED BY <1>1, <1>2, <1>3, <1>4, <1>5 DEF Data

\* pool.back(), pool.pop_back() and pool.push_back(), under the lock.
LEMMA DataVector ==
    ASSUME IInv, NEW t \in Threads, boot = "ready",
           ReadBack(t) \/ PopBack(t) \/ PushBack(t)
    PROVE  Data'
  <1> USE DEF IInv, TypeOK, Owning, PCs, Goto
  <1>0. \A s \in Threads : s # t => pc[s] \notin Critical
    BY DEF MutualExclusion, Critical, ReadBack, PopBack, PushBack
  <1>1. CASE ReadBack(t)
    <2> USE <1>1 DEF ReadBack
    <2>1. ExclusiveUse' /\ PoolSound' /\ Quiet'
      BY DEF ExclusiveUse, PoolSound, Quiet
    <2>2. NoLeak'
      BY DEF NoLeak
    <2>3. PopReads' /\ Kinds' /\ Clean'
      BY <1>0 DEF PopReads, Kinds, Clean, Critical
    <2> QED BY <2>1, <2>2, <2>3 DEF Data
  <1>2. CASE PopBack(t)
    <2> USE <1>2 DEF PopBack
    <2>1. /\ dbconn[t] = pool[Len(pool)] /\ Len(pool) \in Nat \ {0}
          /\ dbconn[t] \in Conns
          /\ pool' \in Seq(Conns) /\ Len(pool') = Len(pool) - 1
          /\ \A i \in 1 .. Len(pool') : pool'[i] = pool[i]
          /\ Range(pool) = Range(pool') \cup {dbconn[t]}
      BY FrontFacts DEF PopReads, Last
    <2>2. heap[dbconn[t]] = "pooled" /\ ~busy[dbconn[t]]
      BY <2>1 DEF PoolSound
    <2>3. dbconn[t] \notin Range(pool')
      BY <2>1, RangeFacts DEF PoolSound
    <2>4. \A s \in Threads : pc[s] \in Owning => dbconn[s] # dbconn[t]
      BY <2>1 DEF ExclusiveUse
    <2>5. ExclusiveUse'
      BY <2>1, <2>2, <2>3, <2>4 DEF ExclusiveUse
    <2>6. PoolSound' /\ Quiet'
      BY <2>1 DEF PoolSound, Quiet
    <2>7. NoLeak'
      BY <2>1 DEF NoLeak
    <2>8. PopReads' /\ Kinds' /\ Clean'
      BY <1>0, <2>2 DEF PopReads, Kinds, Clean, Critical
    <2> QED BY <2>5, <2>6, <2>7, <2>8 DEF Data
  <1>3. CASE PushBack(t)
    <2> USE <1>3 DEF PushBack
    <2>1. /\ dbconn[t] \in Conns /\ dbconn[t] \notin Range(pool)
          /\ heap[dbconn[t]] = "pooled" /\ ~busy[dbconn[t]]
          /\ \A s \in Threads : pc[s] \in Owning /\ dbconn[s] = dbconn[t] => s = t
      BY DEF ExclusiveUse, Kinds, Clean
    <2>2. /\ pool' \in Seq(Conns) /\ Len(pool') = Len(pool) + 1 /\ Len(pool) \in Nat
          /\ \A i \in 1 .. Len(pool) : pool'[i] = pool[i]
          /\ pool'[Len(pool) + 1] = dbconn[t]
          /\ Range(pool') = Range(pool) \cup {dbconn[t]}
      BY <2>1, AppendFacts
    <2>3. ExclusiveUse'
      BY <2>1, <2>2 DEF ExclusiveUse
    <2>4. PoolSound'
      <3>1. \A i \in 1 .. Len(pool) : pool[i] # dbconn[t]
        BY <2>1, RangeFacts
      <3> QED BY <2>1, <2>2, <3>1 DEF PoolSound
    <2>5. NoLeak' /\ Quiet'
      BY <2>1, <2>2 DEF NoLeak, Quiet
    <2>6. PopReads' /\ Kinds' /\ Clean'
      BY <1>0, <2>1 DEF PopReads, Kinds, Clean, Critical
    <2> QED BY <2>3, <2>4, <2>5, <2>6 DEF Data
  <1> QED BY <1>1, <1>2, <1>3

\* The route uses and clears the lists of its own connection only.
LEMMA DataLists ==
    ASSUME IInv, NEW t \in Threads, boot = "ready", Query(t) \/ Clear(t)
    PROVE  Data'
  <1> USE DEF IInv, TypeOK, Owning, PCs, Goto, Query, Clear
  <1>1. /\ pc[t] = "holding"
        /\ dbconn[t] \in Conns /\ dbconn[t] \notin Range(pool)
        /\ \A s \in Threads : pc[s] \in Owning /\ dbconn[s] = dbconn[t] => s = t
    BY DEF ExclusiveUse
  <1>2. ExclusiveUse'
    BY <1>1 DEF ExclusiveUse
  <1>3. PoolSound' /\ Quiet'
    BY <1>1, RangeFacts DEF PoolSound, Quiet
  <1>4. NoLeak'
    BY <1>1 DEF NoLeak
  <1>5. PopReads' /\ Kinds'
    BY <1>1 DEF PopReads, Kinds
  <1>6. Clean'
    <2> SUFFICES ASSUME NEW s \in Threads, pc'[s] \in Owning \ {"holding"}
                 PROVE  ~busy'[dbconn[s]]
      BY DEF Clean
    <2>1. CASE s = t
      <3>1. Clear(t)
        BY <1>1, <2>1
      <3> QED BY <1>1, <2>1, <3>1
    <2>2. CASE s # t
      <3>1. dbconn[s] # dbconn[t] /\ dbconn[s] \in Conns /\ ~busy[dbconn[s]]
        BY <1>1, <2>2 DEF ExclusiveUse, Clean
      <3> QED BY <1>1, <2>2, <3>1
    <2> QED BY <2>1, <2>2
  <1> QED BY <1>2, <1>3, <1>4, <1>5, <1>6 DEF Data

\* Filling and destroying the pool, while no thread runs.
LEMMA DataMain ==
    ASSUME IInv, FillPush \/ FillFails \/ FillThrows \/ FillDone \/ Destroy
    PROVE  Data'
  <1> USE DEF IInv, TypeOK, Owning, PCs
  <1>0. (\A t \in Threads : pc[t] = "idle") /\ UNCHANGED pc
    BY DEF Quiet, FillPush, FillFails, FillThrows, FillDone, Destroy
  <1>1. ExclusiveUse' /\ PopReads' /\ Kinds' /\ Clean' /\ Quiet'
    BY <1>0 DEF ExclusiveUse, PopReads, Kinds, Clean, Quiet
  <1>2. CASE FillPush
    <2>1. PICK c \in Conns : New(c, "pooled") /\ pool' = Append(pool, c)
      BY <1>2 DEF FillPush
    <2>2. c \notin Range(pool)
      BY <2>1, RangeFacts DEF PoolSound, New
    <2>3. /\ pool' \in Seq(Conns) /\ Len(pool') = Len(pool) + 1 /\ Len(pool) \in Nat
          /\ \A i \in 1 .. Len(pool) : pool'[i] = pool[i]
          /\ pool'[Len(pool) + 1] = c
          /\ Range(pool') = Range(pool) \cup {c}
      BY <2>1, AppendFacts
    <2>4. PoolSound'
      <3>1. \A i \in 1 .. Len(pool) : pool[i] # c /\ pool[i] \in Conns
        BY <2>2, RangeFacts
      <3> QED BY <2>1, <2>3, <3>1 DEF PoolSound, New
    <2>5. NoLeak'
      BY <1>0, <2>1, <2>3 DEF NoLeak, New
    <2> QED BY <1>1, <2>4, <2>5 DEF Data
  <1>3. CASE FillFails \/ FillThrows \/ FillDone
    BY <1>0, <1>1, <1>3 DEF FillFails, FillThrows, FillDone, Data, PoolSound, NoLeak
  <1>4. CASE Destroy
    <2>1. PoolSound'
      BY <1>4 DEF Destroy, PoolSound
    <2>2. NoLeak'
      BY <1>0, <1>4 DEF Destroy, NoLeak
    <2> QED BY <1>1, <2>1, <2>2 DEF Data
  <1> QED BY <1>2, <1>3, <1>4

\* What a step of thread t can do to the control state: it moves t only, it
\* happens while serving, and it touches the vector only at "pop" and "push".
LEMMA StepControl ==
    ASSUME TypeOK, Quiet, NEW t \in Threads, Step(t)
    PROVE  /\ boot = "ready" /\ boot' = boot
           /\ \A s \in Threads : s # t => pc'[s] = pc[s]
           /\ pc[t] \notin {"pop", "push"} => pool' = pool
           /\ pc'[t] = "unlock_empty" => pool = <<>> /\ pool' = pool
           /\ pc'[t] = "connect_unpooled" => pc[t] = "unlock_empty"
           /\ lost' = lost \/ lost' = lost + 1
  <1> USE DEF TypeOK, Goto
  <1>1. CASE GetDbconn(t) \/ FindEmpty(t) \/ ReadBack(t) \/ PopBack(t)
             \/ PushBack(t) \/ Query(t) \/ Clear(t) \/ SetReleased(t)
    BY <1>1 DEF Quiet, GetDbconn, FindEmpty, ReadBack, PopBack, PushBack,
                Query, Clear, SetReleased
  <1>2. CASE LockGet(t) \/ LockPut(t)
    BY <1>2 DEF Quiet, LockGet, LockPut, Lock
  <1>3. CASE UnlockEmpty(t) \/ UnlockGet(t) \/ UnlockPut(t)
    BY <1>3 DEF Quiet, UnlockEmpty, UnlockGet, UnlockPut, Unlock
  <1>4. CASE ConnectUnpooled(t) \/ ConnectThrows(t) \/ Reuse(t) \/ DeleteStale(t)
             \/ Reconnect(t) \/ ReconnectThrows(t) \/ DeleteUnpooled(t)
    BY <1>4 DEF Quiet, ConnectUnpooled, ConnectThrows, Reuse, DeleteStale,
                Reconnect, ReconnectThrows, DeleteUnpooled
  <1> QED BY <1>1, <1>2, <1>3, <1>4 DEF Step

\* The invariant holds initially.
LEMMA InitIInv == Init => IInv
  <1> SUFFICES ASSUME Init PROVE IInv
    OBVIOUS
  <1>1. MutualExclusion /\ ExclusiveUse /\ PopReads /\ Kinds /\ Clean /\ Quiet
    BY DEF Init, MutualExclusion, Critical, ExclusiveUse, Owning, PopReads,
           Kinds, Clean, Quiet
  <1>2. PoolSound /\ NoLeak
    BY DEF Init, PoolSound, NoLeak
  <1> QED BY InitTypeOK, <1>1, <1>2 DEF IInv

\* Every step preserves the invariant.
LEMMA NextIInv == IInv /\ [Next]_vars => IInv'
  <1> SUFFICES ASSUME IInv, [Next]_vars
               PROVE  IInv'
    OBVIOUS
  <1>1. TypeOK' /\ MutualExclusion'
    BY NextTypeOK, NextMutex DEF IInv
  <1>2. CASE FillPush \/ FillFails \/ FillThrows \/ FillDone \/ Destroy
    BY <1>1, <1>2, DataMain DEF IInv, Data
  <1>3. ASSUME NEW t \in Threads, Step(t)
        PROVE  Data'
    <2>0. boot = "ready"
      BY <1>3, StepControl DEF IInv
    <2>1. CASE GetDbconn(t) \/ FindEmpty(t) \/ ConnectThrows(t) \/ Reuse(t)
               \/ ReconnectThrows(t) \/ SetReleased(t)
      BY <2>0, <2>1, DataMove DEF GetDbconn, FindEmpty, ConnectThrows, Reuse,
         ReconnectThrows, SetReleased, Goto, Owning, PCs
    <2>2. CASE LockGet(t) \/ LockPut(t)
      BY <2>0, <2>2, DataMove DEF LockGet, LockPut, Lock, Goto, Owning, PCs
    <2>3. CASE UnlockEmpty(t) \/ UnlockGet(t) \/ UnlockPut(t)
      BY <2>0, <2>3, DataMove
         DEF UnlockEmpty, UnlockGet, UnlockPut, Unlock, Goto, Owning, PCs
    <2>4. CASE ReadBack(t) \/ PopBack(t) \/ PushBack(t)
      BY <2>0, <2>4, DataVector
    <2>5. CASE ConnectUnpooled(t) \/ Reconnect(t)
      BY <2>0, <2>5, DataNew DEF ConnectUnpooled, Reconnect, Goto
    <2>6. CASE DeleteStale(t) \/ DeleteUnpooled(t)
      BY <2>0, <2>6, DataDelete DEF DeleteStale, DeleteUnpooled, Goto, Owning
    <2>7. CASE Query(t) \/ Clear(t)
      BY <2>0, <2>7, DataLists
    <2> QED BY <1>3, <2>1, <2>2, <2>3, <2>4, <2>5, <2>6, <2>7 DEF Step
  <1>4. CASE Terminated \/ UNCHANGED vars \/ \E c \in Conns : LinkDown(c)
    <2>1. UNCHANGED <<pool, pc, dbconn, heap, busy, boot>>
      BY <1>4 DEF Terminated, vars, LinkDown
    <2>2. ExclusiveUse' /\ PoolSound' /\ NoLeak'
      BY <2>1 DEF IInv, ExclusiveUse, PoolSound, NoLeak
    <2>3. PopReads' /\ Kinds' /\ Clean' /\ Quiet'
      BY <2>1 DEF IInv, PopReads, Kinds, Clean, Quiet
    <2> QED BY <1>1, <2>2, <2>3 DEF IInv
  <1> QED BY <1>1, <1>2, <1>3, <1>4 DEF Next, IInv, Data

\* The invariant holds in every reachable state.
LEMMA InvariantHolds == Spec => []IInv
  BY InitIInv, NextIInv, PTL DEF Spec

\* The variables keep their types.
THEOREM TypeCorrect == Spec => []TypeOK
  BY InvariantHolds, PTL DEF IInv

\* The spinlock excludes: the lock word is set exactly while one thread is
\* in a critical section of get_dbconn or release_dbconn.
THEOREM MutualExclusionHolds == Spec => []MutualExclusion
  BY InvariantHolds, PTL DEF IInv

\* A route works on a live connection that is neither in the pool nor in the
\* hands of another thread.
THEOREM ExclusiveUseHolds == Spec => []ExclusiveUse
  BY InvariantHolds, PTL DEF IInv

\* The vector holds each of its connections once, alive and with empty lists.
THEOREM PoolSoundHolds == Spec => []PoolSound
  BY InvariantHolds, PTL DEF IInv

\* No connection object becomes unreachable.
THEOREM NoLeakHolds == Spec => []NoLeak
  BY InvariantHolds, PTL DEF IInv

-----------------------------------------------------------------------------
(* Counting connections                                                    *)

\* The set of borrowers is finite, and its cardinality a natural number.
LEMMA BorrowersFinite ==
    IsFiniteSet(Borrowers) /\ Cardinality(Borrowers) \in Nat
  BY ThreadsAssumption, FS_Subset, FS_CardinalityType DEF Borrowers

\* How each step changes the length of the vector, the borrowers and the
\* number of lost connections.
LEMMA StepCounts ==
    ASSUME IInv, NEW t \in Threads, Step(t)
    PROVE  \/ /\ Borrowers' = Borrowers
              /\ Len(pool') = Len(pool) /\ lost' = lost
           \/ /\ Borrowers' = Borrowers \cup {t} /\ t \notin Borrowers
              /\ Len(pool') = Len(pool) - 1 /\ lost' = lost
           \/ /\ Borrowers' = Borrowers \ {t} /\ t \in Borrowers
              /\ \/ Len(pool') = Len(pool) + 1 /\ lost' = lost
                 \/ Len(pool') = Len(pool) /\ lost' = lost + 1
  <1> USE DEF IInv, TypeOK, Owning, Borrowers, Goto
  <1>1. CASE GetDbconn(t) \/ FindEmpty(t) \/ ConnectThrows(t) \/ Reuse(t)
             \/ SetReleased(t) \/ ReadBack(t) \/ Query(t) \/ Clear(t)
    BY <1>1 DEF GetDbconn, FindEmpty, ConnectThrows, Reuse, SetReleased,
                ReadBack, Query, Clear
  <1>2. CASE LockGet(t) \/ LockPut(t)
    BY <1>2 DEF LockGet, LockPut, Lock
  <1>3. CASE UnlockEmpty(t) \/ UnlockGet(t) \/ UnlockPut(t)
    BY <1>3 DEF UnlockEmpty, UnlockGet, UnlockPut, Unlock
  <1>4. CASE PopBack(t)
    <2>1. Last(pool) \in Conns /\ dbconn[t] = Last(pool) /\ Len(pool') = Len(pool) - 1
      BY <1>4, FrontFacts DEF PopBack, PopReads
    <2>2. heap[dbconn[t]] = "pooled"
      BY <1>4, <2>1, FrontFacts DEF PopBack, PoolSound, Last
    <2> QED BY <1>4, <2>1, <2>2 DEF PopBack
  <1>5. CASE PushBack(t)
    <2>1. dbconn[t] \in Conns /\ heap[dbconn[t]] = "pooled"
      BY <1>5 DEF PushBack, ExclusiveUse, Kinds
    <2>2. Len(pool') = Len(pool) + 1
      BY <1>5, <2>1, AppendFacts DEF PushBack
    <2> QED BY <1>5, <2>1, <2>2 DEF PushBack
  <1>6. CASE ReconnectThrows(t)
    BY <1>6 DEF ReconnectThrows
  <1>7. CASE ConnectUnpooled(t) \/ Reconnect(t)
    <2>1. PICK c \in Conns, kind \in {"pooled", "unpooled"} :
             /\ New(c, kind) /\ dbconn' = [dbconn EXCEPT ![t] = c]
             /\ kind = "pooled" <=> pc[t] = "reconnect"
             /\ pc[t] \in {"connect_unpooled", "reconnect"}
             /\ pc' = [pc EXCEPT ![t] = "holding"] /\ UNCHANGED <<pool, lost>>
      BY <1>7 DEF ConnectUnpooled, Reconnect
    <2>2. \A s \in Threads : pc[s] \in Owning => dbconn[s] # c
      BY <2>1 DEF ExclusiveUse, New
    <2> QED BY <2>1, <2>2 DEF New, ExclusiveUse
  <1>8. CASE DeleteStale(t) \/ DeleteUnpooled(t)
    <2>1. \A s \in Threads : s # t /\ pc[s] \in Owning => dbconn[s] # dbconn[t]
      BY <1>8 DEF ExclusiveUse, DeleteStale, DeleteUnpooled
    <2>2. dbconn[t] \in Conns
      BY <1>8 DEF ExclusiveUse, DeleteStale, DeleteUnpooled
    <2> QED BY <1>8, <2>1, <2>2
            DEF ExclusiveUse, Kinds, DeleteStale, DeleteUnpooled, Delete
  <1> QED BY <1>1, <1>2, <1>3, <1>4, <1>5, <1>6, <1>7, <1>8 DEF Step

Counting == Conservation /\ WithinCapacity /\ NothingLostYet /\ EmptyStays
            /\ FallbackOnlyAfterLoss

\* The counts are kept by every step of a thread.
LEMMA StepCounting ==
    ASSUME IInv, IInv', Counting, NEW t \in Threads, Step(t)
    PROVE  Counting'
  <1>0. boot = "ready" /\ boot' = boot
    BY StepControl DEF IInv
  <1>1. Conservation'
    <2>1. Len(pool) \in Nat /\ lost \in Nat
      BY DEF IInv, TypeOK
    <2>2. Len(pool) + Cardinality(Borrowers) + lost = PoolSize
      BY <1>0 DEF Counting, Conservation
    <2>3. CASE /\ Borrowers' = Borrowers
               /\ Len(pool') = Len(pool) /\ lost' = lost
      BY <2>2, <2>3 DEF Conservation
    <2>4. CASE /\ Borrowers' = Borrowers \cup {t} /\ t \notin Borrowers
               /\ Len(pool') = Len(pool) - 1 /\ lost' = lost
      <3>1. Cardinality(Borrowers') = Cardinality(Borrowers) + 1
        BY <2>4, BorrowersFinite, FS_AddElement
      <3> QED BY <2>1, <2>2, <2>4, <3>1, BorrowersFinite DEF Conservation
    <2>5. CASE /\ Borrowers' = Borrowers \ {t} /\ t \in Borrowers
               /\ \/ Len(pool') = Len(pool) + 1 /\ lost' = lost
                  \/ Len(pool') = Len(pool) /\ lost' = lost + 1
      <3>1. Cardinality(Borrowers') = Cardinality(Borrowers) - 1
        BY <2>5, BorrowersFinite, FS_RemoveElement
      <3> QED BY <2>1, <2>2, <2>5, <3>1, BorrowersFinite DEF Conservation
    <2> QED BY <2>3, <2>4, <2>5, StepCounts
  <1>2. WithinCapacity'
    <2>1. Len(pool') \in Nat /\ lost' \in Nat
      BY DEF IInv, TypeOK
    <2>2. Cardinality(Borrowers') \in Nat
      <3>1. Borrowers' \subseteq Threads
        BY DEF Borrowers
      <3> QED BY <3>1, ThreadsAssumption, FS_Subset, FS_CardinalityType
    <2> QED BY <1>0, <1>1, <2>1, <2>2, PoolSizeAssumption
            DEF Conservation, WithinCapacity
  <1>3. EmptyStays'
    <2> SUFFICES ASSUME NEW s \in Threads, pc'[s] = "unlock_empty"
                 PROVE  pool' = <<>>
      BY DEF EmptyStays
    <2>1. CASE s = t
      BY <2>1, StepControl DEF IInv
    <2>2. CASE s # t
      <3>1. pc[s] = "unlock_empty"
        BY <2>2, StepControl DEF IInv
      <3>2. pc[t] \notin {"pop", "push"}
        BY <2>2, <3>1 DEF IInv, MutualExclusion, Critical
      <3> QED BY <3>1, <3>2, StepControl DEF IInv, Counting, EmptyStays
    <2> QED BY <2>1, <2>2
  <1>4. FallbackOnlyAfterLoss'
    <2> SUFFICES ASSUME PoolSize >= Cardinality(Threads), lost' = 0,
                        NEW s \in Threads
                 PROVE  pc'[s] # "unlock_empty" /\ pc'[s] # "connect_unpooled"
      BY DEF FallbackOnlyAfterLoss
    <2>0. Cardinality(Threads) \in Nat
      BY ThreadsAssumption, FS_CardinalityType
    <2>1. pc'[s] # "unlock_empty"
      <3> SUFFICES ASSUME pc'[s] = "unlock_empty" PROVE FALSE
        OBVIOUS
      <3>1. Len(pool') = 0
        BY <1>3 DEF EmptyStays
      <3>2. Borrowers' \subseteq Threads \ {s}
        BY DEF Borrowers, Owning
      <3>3. IsFiniteSet(Threads \ {s})
            /\ Cardinality(Threads \ {s}) = Cardinality(Threads) - 1
        BY ThreadsAssumption, FS_RemoveElement
      <3>4. Cardinality(Borrowers') <= Cardinality(Threads \ {s})
        BY <3>2, <3>3, FS_Subset
      <3>5. Cardinality(Borrowers') \in Nat
        BY <3>2, <3>3, FS_Subset, FS_CardinalityType
      <3>6. Len(pool') + Cardinality(Borrowers') + lost' = PoolSize
        BY <1>0, <1>1 DEF Conservation
      <3> QED BY <2>0, <3>1, <3>3, <3>4, <3>5, <3>6, PoolSizeAssumption
    <2>2. pc'[s] # "connect_unpooled"
      <3>1. lost = 0
        BY StepControl DEF IInv, TypeOK
      <3>2. pc[s] # "unlock_empty" /\ pc[s] # "connect_unpooled"
        BY <3>1 DEF Counting, FallbackOnlyAfterLoss
      <3> QED BY <3>2, StepControl DEF IInv
    <2> QED BY <2>1, <2>2
  <1>5. NothingLostYet'
    BY <1>0 DEF NothingLostYet
  <1> QED BY <1>1, <1>2, <1>3, <1>4, <1>5 DEF Counting

\* So are they by main and by the network.
LEMMA NextCounting == IInv /\ IInv' /\ Counting /\ [Next]_vars => Counting'
  <1> SUFFICES ASSUME IInv, IInv', Counting, [Next]_vars
               PROVE  Counting'
    OBVIOUS
  <1> USE PoolSizeAssumption DEF Counting
  <1>1. ASSUME boot' # "ready", boot # "ready", UNCHANGED <<pc, lost>>,
               WithinCapacity', boot' = "filling" => boot = "filling"
        PROVE  Counting'
    <2>1. \A t \in Threads : pc'[t] = "idle"
      BY <1>1 DEF IInv, Quiet
    <2> QED BY <1>1, <2>1 DEF Conservation, NothingLostYet, EmptyStays,
                               FallbackOnlyAfterLoss
  <1>2. CASE FillPush
    <2>1. Len(pool') = Len(pool) + 1 /\ Len(pool) \in Nat
      BY <1>2, AppendFacts DEF FillPush, IInv, TypeOK
    <2>2. WithinCapacity'
      BY <1>2, <2>1 DEF FillPush, WithinCapacity
    <2> QED BY <1>1, <1>2, <2>2 DEF FillPush
  <1>3. CASE FillFails \/ FillThrows
    BY <1>1, <1>3 DEF FillFails, FillThrows, WithinCapacity
  <1>4. CASE FillDone
    <2>1. \A t \in Threads : pc'[t] = "idle" /\ UNCHANGED pc
      BY <1>4 DEF FillDone, IInv, Quiet
    <2>2. Borrowers' = {}
      BY <2>1 DEF Borrowers, Owning
    <2>3. Conservation'
      BY <1>4, <2>2, FS_EmptySet DEF FillDone, NothingLostYet, Conservation
    <2> QED BY <1>4, <2>1, <2>3 DEF FillDone, NothingLostYet, EmptyStays,
               WithinCapacity, FallbackOnlyAfterLoss
  <1>5. CASE Destroy
    <2>1. \A t \in Threads : pc'[t] = "idle"
      BY <1>5 DEF Destroy, IInv, Quiet
    <2>2. WithinCapacity' /\ boot' = "destroyed"
      BY <1>5 DEF Destroy, WithinCapacity
    <2> QED BY <2>1, <2>2 DEF Conservation, NothingLostYet, EmptyStays,
               FallbackOnlyAfterLoss
  <1>6. ASSUME NEW t \in Threads, Step(t)
        PROVE  Counting'
    BY <1>6, StepCounting
  <1>7. CASE Terminated \/ UNCHANGED vars \/ \E c \in Conns : LinkDown(c)
    <2>1. UNCHANGED <<pool, pc, dbconn, heap, boot, lost>>
      BY <1>7 DEF Terminated, vars, LinkDown
    <2>2. Borrowers' = Borrowers
      BY <2>1 DEF Borrowers
    <2> QED BY <2>1, <2>2 DEF Conservation, WithinCapacity, NothingLostYet,
               EmptyStays, FallbackOnlyAfterLoss
  <1> QED BY <1>2, <1>3, <1>4, <1>5, <1>6, <1>7 DEF Next

\* The counts hold before fill_pool has made a connection.
LEMMA InitCounting == Init => Counting
  BY PoolSizeAssumption DEF Init, Counting, Conservation, WithinCapacity,
     NothingLostYet, EmptyStays, FallbackOnlyAfterLoss

\* The counts hold in every reachable state.
LEMMA CountingHolds == Spec => []Counting
  BY InvariantHolds, InitCounting, NextCounting, PTL DEF Spec

\* While serving, the connections in the vector, the borrowed ones and the
\* lost ones add up to pool_size.
THEOREM ConservationHolds == Spec => []Conservation
  BY CountingHolds, PTL DEF Counting

\* push_back under the spinlock never makes the vector longer than fill_pool
\* made it, so it does not reallocate.
THEOREM WithinCapacityHolds == Spec => []WithinCapacity
  BY CountingHolds, PTL DEF Counting

\* With one pooled connection per thread, a thread opens a connection outside
\* the pool only after some reconnection has failed.
THEOREM FallbackOnlyAfterLossHolds == Spec => []FallbackOnlyAfterLoss
  BY CountingHolds, PTL DEF Counting

-----------------------------------------------------------------------------
(* Refinement of ResourcePool                                              *)

\* The pool starts as ResourcePool does: nothing idle, nothing leased.
LEMMA InitRefines == Init => Abstract!AInit
  <1> SUFFICES ASSUME Init PROVE Abstract!AInit
    OBVIOUS
  <1>1. Range(pool) = {}
    BY DEF Init, Range
  <1>2. LeasedConn = [t \in Threads |-> NoConn]
    BY DEF Init, LeasedConn, Owning
  <1> QED BY <1>1, <1>2 DEF Abstract!AInit

\* A connection that is not allocated is neither idle nor leased.
LEMMA FreeIsUnused ==
    ASSUME IInv, NEW c \in Conns, heap[c] = "free"
    PROVE  c \in Conns \ (Range(pool) \cup Abstract!Leased)
  <1>1. c \notin Range(pool)
    BY RangeFacts DEF IInv, TypeOK, PoolSound
  <1>2. c \notin Abstract!Leased
    BY DEF IInv, TypeOK, ExclusiveUse, LeasedConn, Abstract!Leased
  <1> QED BY <1>1, <1>2

\* Every step of a thread is a step of ResourcePool or leaves it unchanged.
LEMMA StepRefines ==
    ASSUME IInv, IInv', NEW t \in Threads, Step(t)
    PROVE  [Abstract!ANext]_(Abstract!avars)
  <1> USE DEF IInv, TypeOK, LeasedConn, Owning, Goto
  <1> USE NoConnAssumption
  <1>1. CASE UNCHANGED <<Range(pool), LeasedConn>>
    BY <1>1 DEF Abstract!avars
  <1>2. CASE GetDbconn(t) \/ FindEmpty(t) \/ ReadBack(t) \/ ConnectThrows(t)
             \/ Reuse(t) \/ ReconnectThrows(t) \/ Query(t) \/ Clear(t)
             \/ SetReleased(t)
    <2>1. Range(pool)' = Range(pool)
      BY <1>2 DEF GetDbconn, FindEmpty, ReadBack, ConnectThrows, Reuse,
                  ReconnectThrows, Query, Clear, SetReleased
    <2>2. LeasedConn' = LeasedConn
      BY <1>2 DEF GetDbconn, FindEmpty, ReadBack, ConnectThrows, Reuse,
                  ReconnectThrows, Query, Clear, SetReleased
    <2> QED BY <1>1, <2>1, <2>2
  <1>3. CASE LockGet(t) \/ LockPut(t) \/ UnlockEmpty(t) \/ UnlockGet(t) \/ UnlockPut(t)
    <2>1. Range(pool)' = Range(pool)
      BY <1>3 DEF LockGet, LockPut, Lock, UnlockEmpty, UnlockGet, UnlockPut, Unlock
    <2>2. LeasedConn' = LeasedConn
      BY <1>3 DEF LockGet, LockPut, Lock, UnlockEmpty, UnlockGet, UnlockPut, Unlock
    <2> QED BY <1>1, <2>1, <2>2
  <1>4. CASE PopBack(t)
    <2>1. /\ dbconn[t] = Last(pool) /\ dbconn[t] \in Conns
          /\ Range(pool) = Range(pool') \cup {dbconn[t]}
      BY <1>4, FrontFacts DEF PopBack, PopReads
    <2>2. dbconn[t] \notin Range(pool')
      BY <1>4 DEF PopBack, ExclusiveUse
    <2>3. LeasedConn[t] = NoConn /\ LeasedConn' = [LeasedConn EXCEPT ![t] = dbconn[t]]
      BY <1>4 DEF PopBack
    <2>4. dbconn[t] \in Range(pool) /\ Range(pool') = Range(pool) \ {dbconn[t]}
      BY <2>1, <2>2
    <2>5. Abstract!Lease(t)
      BY <2>3, <2>4, Zenon DEF Abstract!Lease
    <2> QED BY <2>5 DEF Abstract!ANext
  <1>5. CASE PushBack(t)
    <2>1. dbconn[t] \in Conns
      BY <1>5 DEF PushBack, ExclusiveUse
    <2>2. Range(pool') = Range(pool) \cup {dbconn[t]}
      BY <1>5, <2>1, AppendFacts DEF PushBack
    <2>3. LeasedConn[t] = dbconn[t] /\ LeasedConn' = [LeasedConn EXCEPT ![t] = NoConn]
      BY <1>5 DEF PushBack
    <2>4. Abstract!Return(t)
      BY <2>1, <2>2, <2>3 DEF Abstract!Return
    <2> QED BY <2>4 DEF Abstract!ANext
  <1>6. CASE ConnectUnpooled(t) \/ Reconnect(t)
    <2>1. PICK c \in Conns : heap[c] = "free" /\ dbconn' = [dbconn EXCEPT ![t] = c]
      BY <1>6 DEF ConnectUnpooled, Reconnect, New
    <2>2. c \in Conns \ (Range(pool) \cup Abstract!Leased)
      BY <2>1, FreeIsUnused
    <2>3. LeasedConn[t] = NoConn /\ LeasedConn' = [LeasedConn EXCEPT ![t] = c]
      BY <1>6, <2>1 DEF ConnectUnpooled, Reconnect
    <2>4. Range(pool)' = Range(pool)
      BY <1>6 DEF ConnectUnpooled, Reconnect
    <2>5. Abstract!Open(t)
      BY <2>2, <2>3, <2>4 DEF Abstract!Open
    <2> QED BY <2>5 DEF Abstract!ANext
  <1>7. CASE DeleteStale(t) \/ DeleteUnpooled(t)
    <2>1. LeasedConn[t] # NoConn /\ LeasedConn' = [LeasedConn EXCEPT ![t] = NoConn]
      BY <1>7 DEF DeleteStale, DeleteUnpooled, ExclusiveUse
    <2>2. Range(pool)' = Range(pool)
      BY <1>7 DEF DeleteStale, DeleteUnpooled
    <2>3. Abstract!Discard(t)
      BY <2>1, <2>2 DEF Abstract!Discard
    <2> QED BY <2>3 DEF Abstract!ANext
  <1> QED BY <1>2, <1>3, <1>4, <1>5, <1>6, <1>7 DEF Step

\* Every step of main, too: filling adds idle connections, destruction
\* closes the pool while nobody leases.
LEMMA NextRefines == IInv /\ IInv' /\ [Next]_vars => [Abstract!ANext]_(Abstract!avars)
  <1> SUFFICES ASSUME IInv, IInv', [Next]_vars
               PROVE  [Abstract!ANext]_(Abstract!avars)
    OBVIOUS
  <1>1. CASE FillPush
    <2>1. PICK c \in Conns : heap[c] = "free" /\ pool' = Append(pool, c)
      BY <1>1 DEF FillPush, New
    <2>2. Range(pool') = Range(pool) \cup {c}
      BY <2>1, AppendFacts DEF IInv, TypeOK
    <2>3. LeasedConn' = LeasedConn
      BY <1>1 DEF FillPush, LeasedConn
    <2>4. Abstract!Add
      BY <2>1, <2>2, <2>3, FreeIsUnused DEF Abstract!Add
    <2> QED BY <2>4 DEF Abstract!ANext
  <1>2. CASE Destroy
    <2>1. (\A t \in Threads : pc[t] = "idle") /\ UNCHANGED <<pc, dbconn>> /\ pool' = <<>>
      BY <1>2 DEF Destroy, IInv, Quiet
    <2>2. LeasedConn' = LeasedConn /\ Abstract!Leased = {}
      BY <2>1 DEF LeasedConn, Owning, Abstract!Leased
    <2>3. Range(pool') = {}
      BY <2>1 DEF Range
    <2>4. Abstract!Close
      BY <2>2, <2>3 DEF Abstract!Close
    <2> QED BY <2>4 DEF Abstract!ANext
  <1>3. CASE FillFails \/ FillThrows \/ FillDone \/ Terminated \/ UNCHANGED vars
             \/ \E c \in Conns : LinkDown(c)
    <2>1. UNCHANGED <<pool, pc, dbconn>>
      BY <1>3 DEF FillFails, FillThrows, FillDone, Terminated, vars, LinkDown
    <2> QED BY <2>1 DEF Abstract!avars, LeasedConn
  <1>4. ASSUME NEW t \in Threads, Step(t)
        PROVE  [Abstract!ANext]_(Abstract!avars)
    BY <1>4, StepRefines
  <1> QED BY <1>1, <1>2, <1>3, <1>4 DEF Next

\* The pool, with its spinlock, vector and reused addresses, implements the
\* abstract one: a connection is always absent, idle or leased to one thread.
THEOREM RefinesResourcePool == Spec => ImplementsResourcePool
  BY InvariantHolds, InitRefines, NextRefines, PTL
     DEF Spec, ImplementsResourcePool, Abstract!ASpec
=============================================================================
