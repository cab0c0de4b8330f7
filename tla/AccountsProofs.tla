--------------------------- MODULE AccountsProofs ---------------------------
(***************************************************************************)
(* Machine-checked proofs about Accounts, for any threads, names, shards,  *)
(* counts of keys and number of requests.                                  *)
(*                                                                         *)
(* No route holds a lock from one statement to the next.  What makes the   *)
(* accounts unique is local to a shard: its keys are congruent to its      *)
(* number, a name belongs to one shard, and the table has two unique keys. *)
(***************************************************************************)
EXTENDS Accounts, FiniteSetTheorems, TLAPS

-----------------------------------------------------------------------------
(* The inductive invariant                                                 *)

\* k is one of the keys of shard s.
KeyOf(k, s) == \E q \in Nat : k = s + IncrAmount * q

\* The rows of a shard have its keys and its names, and none of them twice.
TableSound ==
    \A s \in Shards :
        /\ KeyOf(last_key[s], s)
        /\ \A u \in users[s] : KeyOf(u.userid, s) /\ ShardOf[u.username] = s
        /\ \A u, v \in users[s] : u.userid = v.userid \/ u.username = v.username => u = v

\* The account of a name is on the shard of the name.
Registered(name) == \E u \in users[ShardOf[name]] : u.username = name

\* What the routes remember of the statements they have run still holds.
RoutesSound ==
    \A w \in Workers :
        /\ pc[w] = "insert" => KeyOf(userid[w], PostShard(w))
        /\ pc[w] = "check" => \E u \in users[AuthShard(w)] :
                                 u.userid = userid[w] /\ u.username = job[w].name
        /\ \A name \in job[w].known : Registered(name)

\* Answers stay true.
Stored(a) == [userid |-> a.userid, username |-> a.name, passwd |-> a.passwd] \in users[ShardOf[a.name]]

ToldSound ==
    /\ \A a \in told :
          /\ a.answer \in {"signin_page", "signed_in"} => Stored(a)
          /\ a.answer = "not_found" /\ a.name \in a.known => ShardOf[a.name] # ShardOf[a.key]
    /\ \A a, b \in told :
          a.answer = "signin_page" /\ b.answer = "signin_page" /\ a.name = b.name => a = b

IInv == TypeOK /\ TableSound /\ RoutesSound /\ ToldSound

-----------------------------------------------------------------------------
(* Keys                                                                    *)

\* There is a shard for every number below incr_amount.
LEMMA ShardFacts ==
    /\ IncrAmount \in Nat
    /\ Shards = 0 .. IncrAmount - 1
    /\ \A key \in Keys : ShardOf[key] \in Shards
    /\ \A name \in Names : ShardOf[name] \in Shards
  <1>1. IncrAmount \in Nat
    BY ShardsAssumption, FS_CardinalityType DEF IncrAmount
  <1> QED BY <1>1, ShardsAssumption, ShardOfAssumption DEF IncrAmount, Keys

\* auth() looks on one of the shards.
LEMMA AuthShardFacts ==
    ASSUME TypeOK
    PROVE  \A w \in Workers : AuthShard(w) \in Shards
  BY ShardFacts DEF TypeOK, Jobs, AuthShard

\* Two shards have no key in common: keys that are equal are congruent.
LEMMA KeysDisjoint ==
    ASSUME NEW s \in Shards, NEW t \in Shards, NEW k, KeyOf(k, s), KeyOf(k, t)
    PROVE  s = t
  <1>1. PICK q \in Nat : k = s + IncrAmount * q
    BY DEF KeyOf
  <1>2. PICK r \in Nat : k = t + IncrAmount * r
    BY DEF KeyOf
  <1> DEFINE n == IncrAmount
  <1>3. n \in Nat /\ s \in 0 .. n - 1 /\ t \in 0 .. n - 1 /\ s + n * q = t + n * r
    BY <1>1, <1>2, ShardFacts
  <1> HIDE DEF n
  <1>4. CASE q > r
    <2>1. n * (q - r) >= n
      BY <1>3, <1>4
    <2> QED BY <1>3, <1>4, <2>1
  <1>5. CASE q < r
    <2>1. n * (r - q) >= n
      BY <1>3, <1>5
    <2> QED BY <1>3, <1>5, <2>1
  <1> QED BY <1>3, <1>4, <1>5

\* USP_GET_UNIQUE_KEYS goes from a key of the shard to a key of the shard, by
\* whatever count it is given.
LEMMA NextKey ==
    ASSUME NEW s \in Shards, NEW k \in Nat, KeyOf(k, s), NEW amount \in Nat
    PROVE  k + IncrAmount * amount \in Nat /\ KeyOf(k + IncrAmount * amount, s)
  <1>1. PICK q \in Nat : k = s + IncrAmount * q
    BY DEF KeyOf
  <1> DEFINE n == IncrAmount
  <1>2. n \in Nat /\ s \in Nat
    BY ShardFacts
  <1> HIDE DEF n
  <1>3. k + n * amount = s + n * (q + amount) /\ k + n * amount \in Nat
    BY <1>1, <1>2 DEF n
  <1>4. q + amount \in Nat
    OBVIOUS
  <1> QED BY <1>3, <1>4 DEF KeyOf, n

-----------------------------------------------------------------------------
(* Every step keeps the invariant                                          *)

\* What a route is told when it ends.
Reply(w, answer) == [name |-> job[w].name, passwd |-> job[w].passwd, key |-> job[w].key,
                     known |-> job[w].known, userid |-> userid[w], answer |-> answer]

\* The answer a route ends with: it is recorded, and the thread is idle.
LEMMA AnswerFacts ==
    ASSUME TypeOK, NEW w \in Workers, NEW answer \in Outcomes, Answer(w, answer)
    PROVE  /\ told' = told \cup {Reply(w, answer)}
           /\ pc'[w] = "idle" /\ job'[w] = NoJob
           /\ \A v \in Workers \ {w} : pc'[v] = pc[v] /\ job'[v] = job[v] /\ userid'[v] = userid[v]
  BY DEF TypeOK, Answer, Reply

\* The answer has its type.
LEMMA AnswerTypeOK ==
    ASSUME TypeOK, NEW w \in Workers, pc[w] # "idle", NEW answer \in Outcomes,
           Answer(w, answer), users' \in [Shards -> SUBSET Users],
           UNCHANGED <<last_key, count>>
    PROVE  TypeOK'
  <1>1. pc' \in [Workers -> {"idle", "post", "get_key", "insert", "auth", "check"}]
    BY DEF TypeOK, Answer
  <1>2. job' \in [Workers -> Jobs] /\ userid' \in [Workers -> Nat]
    BY DEF TypeOK, Answer, NoJob, Jobs, Keys
  <1>3. \A v \in Workers : pc'[v] # "idle" => job'[v].name \in Names /\ job'[v].passwd \in Passwds
    BY DEF TypeOK, Answer
  <1>4. job[w] \in Jobs /\ userid[w] \in Nat /\ job[w].name \in Names /\ job[w].passwd \in Passwds
    BY DEF TypeOK
  <1>5. Reply(w, answer) \in Answers
    BY <1>4 DEF Reply, Answers, Jobs
  <1>6. told' \subseteq Answers
    BY <1>5, AnswerFacts DEF TypeOK
  <1> QED BY <1>1, <1>2, <1>3, <1>6 DEF TypeOK

\* A key that was read and a row that was made have their types.
LEMMA NextTypeOK == TypeOK /\ TableSound /\ [Next]_vars => TypeOK'
  <1> SUFFICES ASSUME TypeOK, TableSound, [Next]_vars
               PROVE  TypeOK'
    OBVIOUS
  <1>1. ASSUME NEW w \in Workers, NEW name \in Names, NEW passwd \in Passwds,
               NEW route \in {"post", "auth"}, NEW key \in Keys, Start(w, route, name, passwd, key)
        PROVE  TypeOK'
    <2>1. Confirmed \subseteq Names
      BY DEF Confirmed, TypeOK, Answers
    <2>2. pc' \in [Workers -> {"idle", "post", "get_key", "insert", "auth", "check"}]
      BY <1>1 DEF Start, TypeOK
    <2>3. userid' \in [Workers -> Nat]
      BY <1>1 DEF Start, TypeOK
    <2>4. count' \in 0 .. MaxRequests
      BY <1>1, AmountsAssumption DEF Start, TypeOK
    <2>5. job' \in [Workers -> Jobs]
      BY <1>1, <2>1 DEF Start, TypeOK, Jobs
    <2>6. \A v \in Workers : pc'[v] # "idle" => job'[v].name \in Names /\ job'[v].passwd \in Passwds
      BY <1>1 DEF Start, TypeOK
    <2> QED BY <1>1, <2>2, <2>3, <2>4, <2>5, <2>6 DEF Start, TypeOK
  <1>2. ASSUME NEW w \in Workers, Step(w)
        PROVE  TypeOK'
    <2>1. CASE SelectTaken(w) \/ GetUniqueKeyFails(w) \/ InsertDuplicate(w)
               \/ SelectNoUser(w) \/ SelectPasswd(w)
      BY <2>1, AnswerTypeOK DEF SelectTaken, GetUniqueKeyFails, InsertDuplicate,
                                SelectNoUser, SelectPasswd, TypeOK, Outcomes
    <2>2. CASE SelectFree(w)
      BY <2>2 DEF SelectFree, Goto, TypeOK
    <2>3. CASE GetUniqueKey(w)
      <3>1. PICK amount \in Amounts :
               last_key' = [last_key EXCEPT ![PostShard(w)] = @ + IncrAmount * amount]
        BY <2>3 DEF GetUniqueKey
      <3>2. PostShard(w) \in Shards /\ last_key[PostShard(w)] \in Nat /\ amount \in Nat
        BY <2>3, ShardFacts, AmountsAssumption DEF GetUniqueKey, Goto, PostShard, TypeOK
      <3>3. last_key[PostShard(w)] + IncrAmount * amount \in Nat
        BY <3>2, NextKey DEF TableSound
      <3> QED BY <2>3, <3>1, <3>2, <3>3 DEF GetUniqueKey, Goto, TypeOK
    <2>4. CASE Insert(w)
      <3>1. Row(w) \in Users
        BY <2>4 DEF Insert, Row, Users, TypeOK
      <3>2. users' \in [Shards -> SUBSET Users]
        BY <2>4, <3>1 DEF Insert, TypeOK
      <3> QED BY <2>4, <3>2, AnswerTypeOK DEF Insert, Outcomes
    <2>5. CASE SelectUser(w)
      <3>1. PICK u \in users[AuthShard(w)] : userid' = [userid EXCEPT ![w] = u.userid]
        BY <2>5 DEF SelectUser
      <3>2. users[AuthShard(w)] \subseteq Users
        BY AuthShardFacts DEF TypeOK
      <3>3. u.userid \in Nat
        BY <3>2 DEF Users
      <3>4. pc' = [pc EXCEPT ![w] = "check"] /\ pc[w] = "auth"
            /\ UNCHANGED <<users, last_key, job, count, told>>
        BY <2>5 DEF SelectUser, Goto
      <3> QED BY <3>1, <3>3, <3>4 DEF TypeOK
    <2> QED BY <1>2, <2>1, <2>2, <2>3, <2>4, <2>5 DEF Step
  <1>3. CASE Idle \/ UNCHANGED vars
    BY <1>3 DEF Idle, vars, TypeOK
  <1> QED BY <1>1, <1>2, <1>3 DEF Next, Keys

\* What a sign-up inserts: a key and a name of the shard that no row has yet.
LEMMA InsertFacts ==
    ASSUME TypeOK, RoutesSound, NEW w \in Workers, Insert(w)
    PROVE  /\ PostShard(w) \in Shards /\ job[w].name \in Names
           /\ users'[PostShard(w)] = users[PostShard(w)] \cup {Row(w)}
           /\ \A s \in Shards \ {PostShard(w)} : users'[s] = users[s]
           /\ KeyOf(Row(w).userid, PostShard(w)) /\ ShardOf[Row(w).username] = PostShard(w)
           /\ \A u \in users[PostShard(w)] :
                 u.userid # Row(w).userid /\ u.username # Row(w).username
  <1>1. /\ PostShard(w) \in Shards /\ job[w].name \in Names
        /\ users' = [users EXCEPT ![PostShard(w)] = @ \cup {Row(w)}]
        /\ ~Duplicate(w) /\ pc[w] = "insert"
    BY ShardFacts DEF Insert, PostShard, TypeOK
  <1>2. KeyOf(Row(w).userid, PostShard(w)) /\ ShardOf[Row(w).username] = PostShard(w)
    BY <1>1 DEF RoutesSound, Row, PostShard
  <1>3. \A u \in users[PostShard(w)] : u.userid # Row(w).userid /\ u.username # Row(w).username
    BY <1>1 DEF Duplicate, Row
  <1> QED BY <1>1, <1>2, <1>3 DEF TypeOK

\* Only two statements write: a key is taken, or a row inserted that no key of
\* the table excludes.
LEMMA NextTable == TypeOK /\ TableSound /\ RoutesSound /\ [Next]_vars => TableSound'
  <1> SUFFICES ASSUME TypeOK, TableSound, RoutesSound, [Next]_vars
               PROVE  TableSound'
    OBVIOUS
  <1>1. CASE UNCHANGED <<users, last_key>>
    BY <1>1 DEF TableSound, KeyOf
  <1>2. ASSUME NEW w \in Workers, GetUniqueKey(w)
        PROVE  TableSound'
    <2>1. PICK amount \in Amounts :
             last_key' = [last_key EXCEPT ![PostShard(w)] = @ + IncrAmount * amount]
      BY <1>2 DEF GetUniqueKey
    <2>2. PostShard(w) \in Shards /\ amount \in Nat /\ last_key[PostShard(w)] \in Nat
      BY <1>2, ShardFacts, AmountsAssumption DEF GetUniqueKey, Goto, PostShard, TypeOK
    <2>3. KeyOf(last_key[PostShard(w)] + IncrAmount * amount, PostShard(w))
      BY <2>2, NextKey DEF TableSound
    <2>4. \A s \in Shards : KeyOf(last_key'[s], s)
      BY <2>1, <2>2, <2>3 DEF TableSound, TypeOK
    <2> QED BY <1>2, <2>4 DEF GetUniqueKey, TableSound, KeyOf
  <1>3. ASSUME NEW w \in Workers, Insert(w)
        PROVE  TableSound'
    <2> SUFFICES ASSUME NEW s \in Shards
                 PROVE  /\ KeyOf(last_key[s], s)
                        /\ \A u \in users'[s] : KeyOf(u.userid, s) /\ ShardOf[u.username] = s
                        /\ \A u, v \in users'[s] :
                              u.userid = v.userid \/ u.username = v.username => u = v
      BY <1>3 DEF Insert, TableSound, KeyOf
    <2>1. CASE s = PostShard(w)
      <3>1. users'[s] = users[s] \cup {Row(w)}
        BY <1>3, <2>1, InsertFacts
      <3>2. KeyOf(Row(w).userid, s) /\ ShardOf[Row(w).username] = s
        BY <1>3, <2>1, InsertFacts
      <3>3. \A u \in users[s] : u.userid # Row(w).userid /\ u.username # Row(w).username
        BY <1>3, <2>1, InsertFacts
      <3> QED BY <3>1, <3>2, <3>3 DEF TableSound
    <2>2. CASE s # PostShard(w)
      BY <1>3, <2>2, InsertFacts DEF TableSound
    <2> QED BY <2>1, <2>2
  <1>4. ASSUME NEW w \in Workers, Step(w), ~GetUniqueKey(w), ~Insert(w)
        PROVE  UNCHANGED <<users, last_key>>
    BY <1>4 DEF Step, SelectTaken, SelectFree, GetUniqueKeyFails, InsertDuplicate,
                SelectNoUser, SelectUser, SelectPasswd
  <1> QED BY <1>1, <1>2, <1>3, <1>4 DEF Next, Start, Idle, vars

\* A row is never removed or changed.
LEMMA RowsGrow ==
    ASSUME TypeOK, RoutesSound, [Next]_vars
    PROVE  \A s \in Shards : users[s] \subseteq users'[s]
  <1>1. CASE UNCHANGED users
    BY <1>1
  <1>2. ASSUME NEW w \in Workers, Insert(w)
        PROVE  \A s \in Shards : users[s] \subseteq users'[s]
    BY <1>2, InsertFacts
  <1>3. ASSUME NEW w \in Workers, Step(w), ~Insert(w)
        PROVE  UNCHANGED users
    BY <1>3 DEF Step, SelectTaken, SelectFree, GetUniqueKey, GetUniqueKeyFails, InsertDuplicate,
                SelectNoUser, SelectUser, SelectPasswd
  <1> QED BY <1>1, <1>2, <1>3 DEF Next, Start, Idle, vars

\* What has been confirmed is in the table of the shard of its name.
LEMMA ConfirmedRegistered ==
    ASSUME TypeOK, ToldSound
    PROVE  \A name \in Confirmed : name \in Names /\ Registered(name)
  <1> SUFFICES ASSUME NEW a \in told, a.answer = "signin_page"
               PROVE  a.name \in Names /\ Registered(a.name)
    BY DEF Confirmed
  <1>1. a.name \in Names
    BY DEF TypeOK, Answers
  <1>2. [userid |-> a.userid, username |-> a.name, passwd |-> a.passwd] \in users[ShardOf[a.name]]
    BY DEF ToldSound, Stored
  <1> QED BY <1>1, <1>2 DEF Registered

\* A route's key, its row and the names it knows outlive the steps of the others.
LEMMA NextRoutes == IInv /\ [Next]_vars => RoutesSound'
  <1> SUFFICES ASSUME IInv, [Next]_vars
               PROVE  RoutesSound'
    OBVIOUS
  <1> USE DEF IInv
  <1>1. \A name \in Names : Registered(name) => Registered(name)'
    BY RowsGrow, ShardFacts DEF Registered
  <1>2. \A v \in Workers : job[v].known \subseteq Names
    BY DEF TypeOK, Jobs
  \* a route that the step does not touch
  <1>3. ASSUME NEW v \in Workers, pc'[v] = pc[v], job'[v] = job[v], userid'[v] = userid[v]
        PROVE  /\ pc'[v] = "insert" => KeyOf(userid'[v], PostShard(v)')
               /\ pc'[v] = "check" => \E u \in users'[AuthShard(v)'] :
                                         u.userid = userid'[v] /\ u.username = job'[v].name
               /\ \A name \in job'[v].known : Registered(name)'
    <2>1. pc'[v] = "insert" => KeyOf(userid'[v], PostShard(v)')
      BY <1>3 DEF RoutesSound, PostShard
    <2>2. AuthShard(v)' = AuthShard(v) /\ users[AuthShard(v)] \subseteq users'[AuthShard(v)]
      BY <1>3, RowsGrow, AuthShardFacts DEF AuthShard
    <2>3. pc'[v] = "check" => \E u \in users'[AuthShard(v)'] :
                                 u.userid = userid'[v] /\ u.username = job'[v].name
      BY <1>3, <2>2 DEF RoutesSound
    <2>4. \A name \in job'[v].known : Registered(name)'
      BY <1>1, <1>2, <1>3 DEF RoutesSound
    <2> QED BY <2>1, <2>3, <2>4
  <1>4. ASSUME NEW w \in Workers, NEW answer \in Outcomes, Answer(w, answer)
        PROVE  RoutesSound'
    <2>1. TypeOK
      OBVIOUS
    <2>2. /\ pc'[w] = "idle" /\ job'[w] = NoJob
          /\ \A v \in Workers \ {w} : pc'[v] = pc[v] /\ job'[v] = job[v] /\ userid'[v] = userid[v]
      BY <1>4, <2>1, AnswerFacts
    <2>3. NoJob.known = {}
      BY DEF NoJob
    <2> QED BY <1>3, <2>2, <2>3 DEF RoutesSound, KeyOf, AuthShard
  <1>5. ASSUME NEW w \in Workers, NEW name \in Names, NEW passwd \in Passwds,
               NEW route \in {"post", "auth"}, NEW key \in Keys, Start(w, route, name, passwd, key)
        PROVE  RoutesSound'
    <2>1. pc'[w] = route /\ job'[w].known = Confirmed
      BY <1>5 DEF Start, TypeOK
    <2>2. \A n \in Confirmed : Registered(n)'
      BY <1>1, ConfirmedRegistered
    <2>3. \A v \in Workers \ {w} : pc'[v] = pc[v] /\ job'[v] = job[v] /\ userid'[v] = userid[v]
      BY <1>5 DEF Start, TypeOK
    <2> QED BY <1>3, <2>1, <2>2, <2>3 DEF RoutesSound, KeyOf, AuthShard
  <1>6. ASSUME NEW w \in Workers, SelectFree(w)
        PROVE  RoutesSound'
    <2>1. pc'[w] = "get_key" /\ job'[w] = job[w]
      BY <1>6 DEF SelectFree, Goto, TypeOK
    <2>2. \A n \in job'[w].known : Registered(n)'
      BY <1>1, <1>2, <2>1 DEF RoutesSound
    <2>3. \A v \in Workers \ {w} : pc'[v] = pc[v] /\ job'[v] = job[v] /\ userid'[v] = userid[v]
      BY <1>6 DEF SelectFree, Goto, TypeOK
    <2> QED BY <1>3, <2>1, <2>2, <2>3 DEF RoutesSound, KeyOf, AuthShard
  <1>7. ASSUME NEW w \in Workers, GetUniqueKey(w)
        PROVE  RoutesSound'
    <2>1. pc'[w] = "insert" /\ job'[w] = job[w] /\ pc[w] = "get_key"
      BY <1>7 DEF GetUniqueKey, Goto, TypeOK
    <2>2. PostShard(w) \in Shards /\ PostShard(w)' = PostShard(w)
      BY <2>1, ShardFacts DEF PostShard, TypeOK
    <2>3. userid'[w] = last_key'[PostShard(w)]
      BY <1>7 DEF GetUniqueKey, TypeOK
    <2>4. KeyOf(last_key'[PostShard(w)], PostShard(w))
      BY <2>2, NextTable DEF TableSound, KeyOf
    <2>5. \A n \in job'[w].known : Registered(n)'
      BY <1>1, <1>2, <2>1 DEF RoutesSound
    <2>6. \A v \in Workers \ {w} : pc'[v] = pc[v] /\ job'[v] = job[v] /\ userid'[v] = userid[v]
      BY <1>7 DEF GetUniqueKey, Goto, TypeOK
    <2>7. KeyOf(userid'[w], PostShard(w)')
      BY <2>2, <2>3, <2>4
    <2>8. ASSUME NEW v \in Workers
          PROVE  /\ pc'[v] = "insert" => KeyOf(userid'[v], PostShard(v)')
                 /\ pc'[v] = "check" => \E u \in users'[AuthShard(v)'] :
                                           u.userid = userid'[v] /\ u.username = job'[v].name
                 /\ \A name \in job'[v].known : Registered(name)'
      <3>1. CASE v = w
        BY <2>1, <2>5, <2>7, <3>1
      <3>2. CASE v # w
        BY <1>3, <2>6, <3>2
      <3> QED BY <3>1, <3>2
    <2> QED BY <2>8 DEF RoutesSound, KeyOf, AuthShard
  <1>8. ASSUME NEW w \in Workers, SelectUser(w)
        PROVE  RoutesSound'
    <2>1. PICK u \in users[AuthShard(w)] :
             u.username = job[w].name /\ userid' = [userid EXCEPT ![w] = u.userid]
      BY <1>8 DEF SelectUser
    <2>2. pc'[w] = "check" /\ job'[w] = job[w] /\ userid'[w] = u.userid
      BY <1>8, <2>1 DEF SelectUser, Goto, TypeOK
    <2>3. u \in users'[AuthShard(w)'] /\ AuthShard(w)' = AuthShard(w)
      BY <2>2, RowsGrow, AuthShardFacts DEF AuthShard
    <2>4. \A n \in job'[w].known : Registered(n)'
      BY <1>1, <1>2, <2>2 DEF RoutesSound
    <2>5. \A v \in Workers \ {w} : pc'[v] = pc[v] /\ job'[v] = job[v] /\ userid'[v] = userid[v]
      BY <1>8, <2>1 DEF SelectUser, Goto, TypeOK
    <2> QED BY <1>3, <2>1, <2>2, <2>3, <2>4, <2>5 DEF RoutesSound, KeyOf, AuthShard
  <1>9. CASE UNCHANGED vars \/ Idle
    BY <1>3, <1>9 DEF vars, Idle, RoutesSound, KeyOf, AuthShard
  <1>10. ASSUME NEW w \in Workers, Step(w)
         PROVE  RoutesSound'
    BY <1>4, <1>6, <1>7, <1>8, <1>10
       DEF Step, SelectTaken, GetUniqueKeyFails, Insert, InsertDuplicate, SelectNoUser,
           SelectPasswd, Outcomes
  <1> QED BY <1>5, <1>9, <1>10 DEF Next, Keys

\* Answers stay true, and a new one is true when it is given.
LEMMA NextTold == IInv /\ [Next]_vars => ToldSound'
  <1> SUFFICES ASSUME IInv, [Next]_vars
               PROVE  ToldSound'
    OBVIOUS
  <1> USE DEF IInv
  <1>1. ASSUME NEW a \in told
        PROVE  Stored(a) => Stored(a)'
    <2>1. ShardOf[a.name] \in Shards
      BY ShardFacts DEF TypeOK, Answers
    <2> QED BY <2>1, RowsGrow DEF Stored
  <1>2. CASE UNCHANGED told
    BY <1>1, <1>2 DEF ToldSound, AuthShard
  \* an answer that says nothing
  <1>3. ASSUME NEW w \in Workers, NEW answer \in {"not_available", "error", "auth_failed"},
               Answer(w, answer)
        PROVE  ToldSound'
    <2>1. told' = told \cup {Reply(w, answer)} /\ Reply(w, answer).answer = answer
      BY <1>3, AnswerFacts DEF Reply, Outcomes
    <2> QED BY <1>1, <2>1 DEF ToldSound, AuthShard
  <1>4. ASSUME NEW w \in Workers, Insert(w)
        PROVE  ToldSound'
    <2>0. PICK r : r = Reply(w, "signin_page")
      OBVIOUS
    <2>1. told' = told \cup {r}
      BY <1>4, <2>0, AnswerFacts DEF Insert, Outcomes
    <2>2. r.answer = "signin_page" /\ r.name = job[w].name /\ Stored(r)'
      BY <1>4, <2>0, InsertFacts DEF Reply, Row, Stored, PostShard
    <2>3. \A a \in told : a.answer = "signin_page" => a.name # r.name
      <3> SUFFICES ASSUME NEW a \in told, a.answer = "signin_page", a.name = job[w].name
                   PROVE  FALSE
        BY <2>2
      <3>1. [userid |-> a.userid, username |-> a.name, passwd |-> a.passwd] \in users[PostShard(w)]
        BY DEF ToldSound, Stored, PostShard
      <3>2. \A u \in users[PostShard(w)] : u.username # job[w].name
        BY <1>4, InsertFacts DEF Row
      <3> QED BY <3>1, <3>2
    <2> QED BY <1>1, <2>1, <2>2, <2>3 DEF ToldSound, AuthShard
  <1>5. ASSUME NEW w \in Workers, SelectNoUser(w)
        PROVE  ToldSound'
    <2>0. PICK r : r = Reply(w, "not_found")
      OBVIOUS
    <2>1. told' = told \cup {r}
      BY <1>5, <2>0, AnswerFacts DEF SelectNoUser, Outcomes
    <2>2. r.answer = "not_found" /\ r.name = job[w].name /\ r.known = job[w].known /\ r.key = job[w].key
      BY <2>0 DEF Reply
    <2>3. r.name \in r.known => ShardOf[r.name] # ShardOf[r.key]
      BY <1>5, <2>2 DEF SelectNoUser, RoutesSound, Registered, AuthShard
    <2> QED BY <1>1, <2>1, <2>2, <2>3 DEF ToldSound, AuthShard
  <1>6. ASSUME NEW w \in Workers, SelectPasswd(w), Matches(w)
        PROVE  ToldSound'
    <2>0. PICK r : r = Reply(w, "signed_in")
      OBVIOUS
    <2>1. told' = told \cup {r} /\ UNCHANGED users /\ pc[w] = "check"
      BY <1>6, <2>0, AnswerFacts DEF SelectPasswd, Outcomes
    <2>2. r.answer = "signed_in"
      BY <2>0 DEF Reply
    <2>3. PICK u \in users[AuthShard(w)] : u.userid = userid[w] /\ u.passwd = job[w].passwd
      BY <1>6 DEF Matches
    <2>4. PICK v \in users[AuthShard(w)] : v.userid = userid[w] /\ v.username = job[w].name
      BY <2>1 DEF RoutesSound
    <2>5. u = v /\ ShardOf[job[w].name] = AuthShard(w)
      BY <2>3, <2>4, AuthShardFacts DEF TableSound
    <2>6. u \in Users
      BY AuthShardFacts DEF TypeOK
    <2>7. u = [userid |-> userid[w], username |-> job[w].name, passwd |-> job[w].passwd]
      BY <2>3, <2>4, <2>5, <2>6 DEF Users
    <2>8. Stored(r)'
      BY <2>0, <2>1, <2>5, <2>7 DEF Stored, Reply
    <2> QED BY <1>1, <2>1, <2>2, <2>8 DEF ToldSound, AuthShard
  <1>7. ASSUME NEW w \in Workers, Step(w)
        PROVE  ToldSound'
    BY <1>2, <1>3, <1>4, <1>5, <1>6, <1>7
       DEF Step, SelectTaken, SelectFree, GetUniqueKey, GetUniqueKeyFails, InsertDuplicate,
           SelectUser, SelectPasswd
  <1> QED BY <1>2, <1>7 DEF Next, Start, Idle, vars

\* The invariant holds in the first state: there are no rows and no answers.
LEMMA InitIInv == Init => IInv
  <1> SUFFICES ASSUME Init
               PROVE  IInv
    OBVIOUS
  <1>1. TypeOK
    <2>1. NoJob \in Jobs
      BY DEF NoJob, Jobs, Keys
    <2>2. Shards \subseteq Nat
      BY ShardFacts
    <2>3. last_key \in [Shards -> Nat] /\ count \in 0 .. MaxRequests /\ told \subseteq Answers
      BY <2>2, AmountsAssumption DEF Init
    <2> QED BY <2>1, <2>3 DEF Init, TypeOK
  <1>2. TableSound
    <2>1. \A s \in Shards : last_key[s] = s /\ s \in Nat /\ users[s] = {}
      BY ShardFacts DEF Init
    <2>2. \A s \in Shards : s = s + IncrAmount * 0
      BY <2>1, ShardFacts
    <2> QED BY <2>1, <2>2 DEF TableSound, KeyOf
  <1>3. RoutesSound /\ ToldSound
    BY DEF Init, RoutesSound, ToldSound, NoJob
  <1> QED BY <1>1, <1>2, <1>3 DEF IInv

\* Every step keeps the invariant.
THEOREM Invariance == Spec => []IInv
  <1>1. IInv /\ [Next]_vars => IInv'
    BY NextTypeOK, NextTable, NextRoutes, NextTold DEF IInv
  <1> QED BY <1>1, InitIInv, PTL DEF Spec

-----------------------------------------------------------------------------
(* What the invariant gives                                                *)

\* Types: the statements of a route are given values of their columns.
THEOREM AccountsTyped == Spec => []TypeOK
  BY Invariance, PTL DEF IInv

\* Sign-ups that run between one another's statements, on one shard or on
\* several, never make two accounts of one name or of one userid.
THEOREM AccountsUnique == Spec => []UniqueAccounts
  <1>1. IInv => UniqueAccounts
    <2> SUFFICES ASSUME IInv, NEW s \in Shards, NEW t \in Shards,
                        NEW u \in users[s], NEW v \in users[t],
                        u.userid = v.userid \/ u.username = v.username
                 PROVE  s = t /\ u = v
      BY DEF UniqueAccounts
    <2>1. KeyOf(u.userid, s) /\ KeyOf(v.userid, t) /\ ShardOf[u.username] = s /\ ShardOf[v.username] = t
      BY DEF IInv, TableSound
    <2>2. s = t
      BY <2>1, KeysDisjoint
    <2> QED BY <2>2 DEF IInv, TableSound
  <1> QED BY <1>1, Invariance, PTL

\* A confirmed sign-up has its row, and it is the only one of its name.
THEOREM SignUpHolds == Spec => []SignUpTrue
  <1>1. IInv => SignUpTrue
    <2> SUFFICES ASSUME IInv, NEW a \in told, a.answer = "signin_page"
                 PROVE  \E u \in Rows :
                           /\ u = [userid |-> a.userid, username |-> a.name, passwd |-> a.passwd]
                           /\ \A b \in told : b.answer = "signin_page" /\ b.name = a.name => b = a
      BY DEF SignUpTrue
    <2>1. ShardOf[a.name] \in Shards
      BY ShardFacts DEF IInv, TypeOK, Answers
    <2>2. [userid |-> a.userid, username |-> a.name, passwd |-> a.passwd] \in users[ShardOf[a.name]]
      BY DEF IInv, ToldSound, Stored
    <2>3. [userid |-> a.userid, username |-> a.name, passwd |-> a.passwd] \in Rows
      BY <2>1, <2>2 DEF Rows
    <2> QED BY <2>3 DEF IInv, ToldSound
  <1> QED BY <1>1, Invariance, PTL

\* A session is given for the password of an account of that name, and the
\* account of a confirmed name is only missed on another shard.
THEOREM SignInHolds == Spec => []SignInTrue
  <1>1. IInv => SignInTrue
    <2> SUFFICES ASSUME IInv, NEW a \in told
                 PROVE  /\ a.answer = "signed_in" =>
                              [userid |-> a.userid, username |-> a.name, passwd |-> a.passwd] \in Rows
                        /\ a.answer = "not_found" /\ a.name \in a.known => ShardOf[a.name] # ShardOf[a.key]
      BY DEF SignInTrue
    <2>1. ShardOf[a.name] \in Shards
      BY ShardFacts DEF IInv, TypeOK, Answers
    <2>2. a.answer = "signed_in" => Stored(a)
      BY DEF IInv, ToldSound
    <2> QED BY <2>1, <2>2 DEF IInv, ToldSound, Stored, Rows
  <1> QED BY <1>1, Invariance, PTL
=============================================================================
