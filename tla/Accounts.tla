------------------------------ MODULE Accounts ------------------------------
(***************************************************************************)
(* Accounts: the routes /dir/user/post (sign up) and /dir/user/auth (sign  *)
(* in), run by several threads at a time, each over the statements of a    *)
(* connection to one of the database's shards.  A statement is atomic and  *)
(* nothing else is: there is no transaction around a route.                *)
(*                                                                         *)
(* The count bound to USP_GET_UNIQUE_KEYS is a temporary that is gone when *)
(* the statement runs, so its value is any one left on the stack.          *)
(***************************************************************************)
EXTENDS Integers, FiniteSets

CONSTANTS
    Workers,      \* threads that run a route
    Names,        \* usernames, no two of them equal in the column's collation
    Passwds,      \* passwords
    Shards,       \* 0 .. db_shard_count - 1
    ShardOf,      \* crc32(key) % db_shard_count, of keys: names and ""
    Amounts,      \* the counts that USP_GET_UNIQUE_KEYS may be given
    MaxRequests   \* bound: requests in all

ASSUME ShardsAssumption == IsFiniteSet(Shards) /\ Shards = 0 .. Cardinality(Shards) - 1
Keys == Names \cup {""}

ASSUME ShardOfAssumption == ShardOf \in [Keys -> Shards]
ASSUME AmountsAssumption == Amounts \subseteq Nat /\ MaxRequests \in Nat

VARIABLES
    users,        \* users[s]: the rows of table users of shard s
    last_key,     \* last_key[s]: the row 'users' of table unique_keys
    pc,           \* pc[w]: the next statement of the route w runs
    job,          \* job[w]: its parameters
    userid,       \* userid[w]: its local variable
    count,        \* how many requests there have been
    told          \* history: the answers

vars == <<users, last_key, pc, job, userid, count, told>>

\* unique_keys.incr_amount, as many as there are shards.
IncrAmount == Cardinality(Shards)

NoJob == [route |-> "none", name |-> "", passwd |-> "", key |-> "", known |-> {}]

\* Shard s starts at s.
Init ==
    /\ users = [s \in Shards |-> {}]
    /\ last_key = [s \in Shards |-> s]
    /\ pc = [w \in Workers |-> "idle"]
    /\ job = [w \in Workers |-> NoJob]
    /\ userid = [w \in Workers |-> 0]
    /\ count = 0
    /\ told = {}

Rows == UNION {users[s] : s \in Shards}

\* Names whose sign-up has been confirmed.
Confirmed == {a.name : a \in {b \in told : b.answer = "signin_page"}}

\* A request with all its parameters; one that lacks some is answered before
\* the first statement.  key is the parameter userid, which post does not look at, the
\* sign-in page does not send, and a client may send.
Start(w, route, name, passwd, key) ==
    /\ pc[w] = "idle" /\ count < MaxRequests
    /\ count' = count + 1
    /\ pc' = [pc EXCEPT ![w] = route]
    /\ job' = [job EXCEPT ![w] = [route |-> route, name |-> name, passwd |-> passwd,
                                  key |-> key, known |-> Confirmed]]
    /\ userid' = [userid EXCEPT ![w] = 0]
    /\ UNCHANGED <<users, last_key, told>>

Goto(w, from, to) == pc[w] = from /\ pc' = [pc EXCEPT ![w] = to]

\* The route ends with an answer; an exception ends it with status 500.
Answer(w, answer) ==
    /\ pc' = [pc EXCEPT ![w] = "idle"]
    /\ job' = [job EXCEPT ![w] = NoJob]
    /\ userid' = [userid EXCEPT ![w] = 0]
    /\ told' = told \cup {[name |-> job[w].name, passwd |-> job[w].passwd,
                           key |-> job[w].key, known |-> job[w].known, userid |-> userid[w], answer |-> answer]}

-----------------------------------------------------------------------------
(* dir_user::post, on the shard of the username                            *)

PostShard(w) == ShardOf[job[w].name]

Taken(w) == \E u \in users[PostShard(w)] : u.username = job[w].name

SelectTaken(w) ==
    /\ pc[w] = "post" /\ Taken(w)
    /\ Answer(w, "not_available")
    /\ UNCHANGED <<users, last_key, count>>

SelectFree(w) ==
    /\ ~Taken(w)
    /\ Goto(w, "post", "get_key")
    /\ UNCHANGED <<users, last_key, job, userid, count, told>>

\* Seeded fault: all shards count in steps of one.
GetUniqueKeyByOne(w) ==
    /\ Goto(w, "get_key", "insert")
    /\ last_key' = [last_key EXCEPT ![PostShard(w)] = @ + 1]
    /\ userid' = [userid EXCEPT ![w] = last_key'[PostShard(w)]]
    /\ UNCHANGED <<users, job, count, told>>

\* CALL USP_GET_UNIQUE_KEYS('users', amount), a transaction.
GetUniqueKey(w) ==
    /\ Goto(w, "get_key", "insert")
    /\ \E amount \in Amounts :
          last_key' = [last_key EXCEPT ![PostShard(w)] = @ + IncrAmount * amount]
    /\ userid' = [userid EXCEPT ![w] = last_key'[PostShard(w)]]
    /\ UNCHANGED <<users, job, count, told>>

\* The procedure rolls back and has no result set: query() throws.
GetUniqueKeyFails(w) ==
    /\ pc[w] = "get_key"
    /\ Answer(w, "error")
    /\ UNCHANGED <<users, last_key, count>>

Row(w) == [userid |-> userid[w], username |-> job[w].name, passwd |-> job[w].passwd]

\* Seeded fault: the name is not a key of the table.
DuplicateUserid(w) == \E u \in users[PostShard(w)] : u.userid = userid[w]

\* The table's keys: PRIMARY, username_UNIQUE (platformid_UNIQUE is the userid).
Duplicate(w) ==
    \E u \in users[PostShard(w)] : u.userid = userid[w] \/ u.username = job[w].name

Insert(w) ==
    /\ pc[w] = "insert" /\ ~Duplicate(w)
    /\ users' = [users EXCEPT ![PostShard(w)] = @ \cup {Row(w)}]
    /\ Answer(w, "signin_page")
    /\ UNCHANGED <<last_key, count>>

\* execute() throws.
InsertDuplicate(w) ==
    /\ pc[w] = "insert" /\ Duplicate(w)
    /\ Answer(w, "error")
    /\ UNCHANGED <<users, last_key, count>>

-----------------------------------------------------------------------------
(* dir_user::auth, on the shard of the parameter userid                    *)

AuthShard(w) == ShardOf[job[w].key]

SelectNoUser(w) ==
    /\ pc[w] = "auth"
    /\ ~\E u \in users[AuthShard(w)] : u.username = job[w].name
    /\ Answer(w, "not_found")
    /\ UNCHANGED <<users, last_key, count>>

SelectUser(w) ==
    \E u \in users[AuthShard(w)] :
        /\ u.username = job[w].name
        /\ Goto(w, "auth", "check")
        /\ userid' = [userid EXCEPT ![w] = u.userid]
        /\ UNCHANGED <<users, last_key, job, count, told>>

\* Seeded fault: the second SELECT has lost its userid.
MatchesAnybody(w) == \E u \in users[AuthShard(w)] : u.passwd = job[w].passwd

\* SELECT userid FROM users WHERE userid = ? AND passwd = ?
Matches(w) ==
    \E u \in users[AuthShard(w)] : u.userid = userid[w] /\ u.passwd = job[w].passwd

SelectPasswd(w) ==
    /\ pc[w] = "check"
    /\ Answer(w, IF Matches(w) THEN "signed_in" ELSE "auth_failed")
    /\ UNCHANGED <<users, last_key, count>>

-----------------------------------------------------------------------------
Step(w) ==
    \/ SelectTaken(w) \/ SelectFree(w) \/ GetUniqueKey(w) \/ GetUniqueKeyFails(w)
    \/ Insert(w) \/ InsertDuplicate(w)
    \/ SelectNoUser(w) \/ SelectUser(w) \/ SelectPasswd(w)

\* No more requests.
Idle == count = MaxRequests /\ (\A w \in Workers : pc[w] = "idle") /\ UNCHANGED vars

Next ==
    \/ \E w \in Workers :
          \/ \E name \in Names, passwd \in Passwds :
                Start(w, "post", name, passwd, "") \/ \E key \in Keys : Start(w, "auth", name, passwd, key)
          \/ Step(w)
    \/ Idle

Spec == Init /\ [][Next]_vars

-----------------------------------------------------------------------------
(* Properties                                                              *)

Users == [userid : Nat, username : Names, passwd : Passwds]

Jobs == [route : {"none", "post", "auth"}, name : Names \cup {""},
         passwd : Passwds \cup {""}, key : Keys, known : SUBSET Names]

Outcomes == {"not_available", "signin_page", "error", "not_found", "signed_in", "auth_failed"}

Answers ==
    [name : Names, passwd : Passwds, key : Keys, known : SUBSET Names, userid : Nat, answer : Outcomes]

\* The types of the variables; a route in progress has a name and a password.
TypeOK ==
    /\ users \in [Shards -> SUBSET Users]
    /\ last_key \in [Shards -> Nat]
    /\ pc \in [Workers -> {"idle", "post", "get_key", "insert", "auth", "check"}]
    /\ job \in [Workers -> Jobs]
    /\ \A w \in Workers : pc[w] # "idle" => job[w].name \in Names /\ job[w].passwd \in Passwds
    /\ userid \in [Workers -> Nat]
    /\ count \in 0 .. MaxRequests
    /\ told \subseteq Answers

\* An account is identified by its userid and by its name, across all shards,
\* although a route looks at one shard only, between other routes' statements,
\* and the count of keys it takes is arbitrary.
UniqueAccounts ==
    \A s, t \in Shards : \A u \in users[s], v \in users[t] :
        (u.userid = v.userid \/ u.username = v.username) => (s = t /\ u = v)

\* Sign-up tells the truth: who is sent to the sign-in page has a row with
\* name and password as given, and of several who ask for a name only one is.
SignUpTrue ==
    \A a \in told : a.answer = "signin_page" =>
        \E u \in Rows : /\ u = [userid |-> a.userid, username |-> a.name, passwd |-> a.passwd]
                        /\ \A b \in told : b.answer = "signin_page" /\ b.name = a.name => b = a

\* A session is only given for the password of the account of that name, whatever shard
\* the client has auth() look on; and a name whose sign-up had been confirmed before is
\* called unknown only if its account is on another shard than that of the parameter.
SignInTrue ==
    \A a \in told :
        /\ a.answer = "signed_in" => [userid |-> a.userid, username |-> a.name, passwd |-> a.passwd] \in Rows
        /\ a.answer = "not_found" /\ a.name \in a.known => ShardOf[a.name] # ShardOf[a.key]
=============================================================================
