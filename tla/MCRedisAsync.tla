---------------------------- MODULE MCRedisAsync ----------------------------
(***************************************************************************)
(* A context with two channels that share a slot of the smallest table and *)
(* one pattern.                                                            *)
(***************************************************************************)
EXTENDS RedisAsync

CONSTANTS c1, c2, p1

MCNames == {c1, c2, p1}
MCHash == [n \in MCNames |-> IF n = c2 THEN 3 ELSE 2]

Command(kind, names) == [kind |-> kind, names |-> names, id |-> 0]

MCCommands ==
    {Command("get", <<>>), Command("monitor", <<>>), Command("subscribe", <<c1, c2>>),
     Command("subscribe", <<p1>>), Command("unsubscribe", <<c2, c1>>)}

\* A user who monitors.
Monitoring == {Command("get", <<>>), Command("monitor", <<>>)}

\* A user of subscriptions alone.
Subscriptions == {Command("subscribe", <<c1, c2>>), Command("unsubscribe", <<c2, c1>>)}
=============================================================================
