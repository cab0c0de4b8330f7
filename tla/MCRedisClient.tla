--------------------------- MODULE MCRedisClient ----------------------------
(***************************************************************************)
(* Small instances of RedisClient.  A message is written as a tree and     *)
(* encoded here, independently of the reader that decodes it.              *)
(***************************************************************************)
EXTENDS RedisClient

Leaf(type, head, str, integer, body) ==
    [node |-> Node(type, str, integer, 0), head |-> head, body |-> body, elements |-> <<>>]

Status == Leaf("status", "+", <<"x">>, 0, <<"x", CR, LF>>)
RefusedWrite == Leaf("error", "-", <<"R">>, 0, <<"R", CR, LF>>)
Integer == Leaf("integer", ":", <<>>, -12, <<"-", "1", "2", CR, LF>>)
Nil == Leaf("nil", "$", <<>>, 0, <<"-", "1", CR, LF>>)
\* A content that looks like a line break and the beginning of a reply.
Bulk == Leaf("string", "$", <<CR, LF, "+">>, 0, <<"3", CR, LF, CR, LF, "+", CR, LF>>)
Empty == Leaf("array", "*", <<>>, 0, <<"0", CR, LF>>)

Array(elements) ==
    [node |-> Node("array", <<>>, 0, Len(elements)), head |-> "*",
     body |-> <<DigitSeq[Len(elements) + 1], CR, LF>>, elements |-> elements]

RECURSIVE BytesOf(_), NodesOf(_, _)
BytesOf(m) == <<m.head>> \o m.body \o FlattenSeq([i \in DOMAIN m.elements |-> BytesOf(m.elements[i])])
NodesOf(m, path) ==
    {<<path, m.node>>} \cup
        UNION {NodesOf(m.elements[i], Append(path, i - 1)) : i \in DOMAIN m.elements}

Message(m) ==
    LET nodes == NodesOf(m, <<>>) IN
    [bytes |-> BytesOf(m),
     reply |-> [p \in {n[1] : n \in nodes} |-> (CHOOSE n \in nodes : n[1] = p)[2]]]

\* No type byte; and an array nested as deep as the stack is high.
Malformed == [bytes |-> <<"x", CR, LF>>, reply |-> Null]
TooDeep == [bytes |-> BytesOf(Array(<<Array(<<Empty>>)>>)), reply |-> Null]

MCMessages ==
    {Message(m) : m \in {RefusedWrite, Integer, Array(<<Bulk, Array(<<Nil>>), Status>>)}}
        \cup {Malformed, TooDeep}

CONSTANTS t1, c1, c2, none
MCThreads == {t1}
MCConns == {c1, c2}
=============================================================================
