---------------------------- MODULE RedisReader -----------------------------
(***************************************************************************)
(* The reply parser of hiredis (win/hiredis/read.c) and the reply objects  *)
(* it builds (win/hiredis/hiredis.c), as functions of a reader.  A reader  *)
(* is resumable: bytes are fed in pieces cut anywhere, and a call of       *)
(* redisReaderGetReply goes as far as they allow.                          *)
(*                                                                         *)
(* A reply is a tree of objects linked by pointers.  Here it is a function *)
(* from paths to nodes: << >> is the root, << 2, 0 >> the first element of *)
(* the third element of the root.  The empty function is the null pointer. *)
(*                                                                         *)
(* Bytes are one-character strings; "x" stands for any that means nothing  *)
(* to the protocol, "R" for a text that begins with READONLY.              *)
(***************************************************************************)
EXTENDS Integers, Sequences, FiniteSets, SequencesExt

CONSTANTS
    StackSize,      \* redisReader::rstack[9]
    DiscardAt       \* consumed bytes are discarded when there are so many (1024)

ASSUME ReaderSizes == StackSize \in Nat \ {0} /\ DiscardAt \in Nat \ {0}

CR == "\r"
LF == "\n"
DigitSeq == <<"0", "1", "2", "3", "4", "5", "6", "7", "8", "9">>

Null == <<>>

\* op(x), for an x that takes TLC long to evaluate: bound variables have values.
Strict(op(_), x) == CHOOSE y \in {op(v) : v \in {x}} : TRUE

\* The types of replies, by their first byte.
ReplyType ==
    [b \in {"-", "+", ":", "$", "*"} |->
        CASE b = "-" -> "error" [] b = "+" -> "status" [] b = ":" -> "integer"
          [] b = "$" -> "string" [] b = "*" -> "array"]

Node(type, str, integer, elements) ==
    [type |-> type, str |-> str, integer |-> integer, elements |-> elements]

\* A task of the stack: which type, how many elements, and which of its parent's.
NewTask(idx) == [type |-> "unknown", elements |-> -1, idx |-> idx]

NewReader == [buf |-> <<>>, pos |-> 0, rstack |-> <<>>, reply |-> Null, err |-> "ok"]

\* __redisReaderSetError
SetError(r, type) ==
    [r EXCEPT !.reply = Null, !.buf = <<>>, !.pos = 0, !.rstack = <<>>, !.err = type]

Unread(r) == SubSeq(r.buf, r.pos + 1, Len(r.buf))
Top(r) == Last(r.rstack)

\* The position of the first CR that an LF follows, or 0.
SeekNewline(s) ==
    LET at == {i \in 1 .. Len(s) - 1 : s[i] = CR /\ s[i + 1] = LF} IN
    IF at = {} THEN 0 ELSE CHOOSE i \in at : \A j \in at : i <= j

\* readLongLong: the number before the first CR; -1 for anything else.
ReadLongLong(s) ==
    LET line   == SubSeq(s, 1, SelectInSeq(s, LAMBDA b : b = CR) - 1)
        signed == line # <<>> /\ Head(line) \in {"-", "+"}
        digits == IF signed THEN Tail(line) ELSE line
        value  == FoldLeft(LAMBDA v, b : 10 * v + SelectInSeq(DigitSeq, LAMBDA d : d = b) - 1,
                           0, digits)
    IN  IF \E i \in DOMAIN digits : ~Contains(DigitSeq, digits[i]) THEN -1
        ELSE IF signed /\ Head(line) = "-" THEN -value ELSE value

\* mutant: an array is closed after its last but one element
MoveToNextTaskEarly(stack) ==
    LET open == {i \in 2 .. Len(stack) : stack[i].idx < stack[i - 1].elements - 2} IN
    IF open = {} THEN <<>>
    ELSE LET i == CHOOSE i \in open : \A j \in open : j <= i IN
         Append(SubSeq(stack, 1, i - 1), NewTask(stack[i].idx + 1))

\* A finished item makes the next element of the innermost open array current,
\* and closes the arrays of which it was the last one.
MoveToNextTask(stack) ==
    LET open == {i \in 2 .. Len(stack) : stack[i].idx # stack[i - 1].elements - 1} IN
    IF open = {} THEN <<>>
    ELSE LET i == CHOOSE i \in open : \A j \in open : j <= i IN
         Append(SubSeq(stack, 1, i - 1), NewTask(stack[i].idx + 1))

\* createStringObject and the like: parent->element[task->idx] = r, or the root.
Place(r, node) ==
    LET path == [i \in 1 .. Len(r.rstack) - 1 |-> r.rstack[i + 1].idx] IN
    [p \in DOMAIN r.reply \cup {path} |-> IF p = path THEN node ELSE r.reply[p]]

\* An object is complete: put it in its place and take its bytes from the buffer.
Finish(r, node, bytes) ==
    [r EXCEPT !.reply = Place(r, node), !.pos = @ + bytes, !.rstack = MoveToNextTask(@)]

\* The calls below get the unread bytes s and the position nl of their first line
\* break, and return the reader unchanged if the bytes do not suffice.  "memory" is
\* whether an object can be allocated.
ProcessLineItem(r, s, nl, memory) ==
    LET node == IF Top(r).type = "integer" THEN Node("integer", <<>>, ReadLongLong(s), 0)
                ELSE Node(Top(r).type, SubSeq(s, 1, nl - 1), 0, 0)
    IN  IF nl = 0 THEN r
        ELSE IF memory THEN Finish(r, node, nl + 1) ELSE SetError(r, "oom")

\* A length, its line, and as many bytes and a line break; nil if it is negative.
ProcessBulkItem(r, s, nl, memory) ==
    LET len   == ReadLongLong(s)
        bytes == nl + 1 + (IF len < 0 THEN 0 ELSE len + 2)
        node  == IF len < 0 THEN Node("nil", <<>>, 0, 0)
                 ELSE Node("string", SubSeq(s, nl + 2, nl + 1 + len), 0, 0)
    IN  IF nl = 0 \/ bytes > Len(s) THEN r
        ELSE IF memory THEN Finish(r, node, bytes) ELSE SetError(r, "oom")

ProcessMultiBulkItem(r, s, nl, memory) ==
    LET n    == ReadLongLong(s)
        node == IF n = -1 THEN Node("nil", <<>>, 0, 0) ELSE Node("array", <<>>, 0, n)
    IN  IF Len(r.rstack) = StackSize THEN SetError(r, "protocol")
        ELSE IF nl = 0 THEN r
        ELSE IF ~memory THEN SetError(r, "oom")
        ELSE IF n <= 0 THEN Finish(r, node, nl + 1)
        ELSE [r EXCEPT !.reply = Place(r, node), !.pos = @ + nl + 1,
                       !.rstack = Append(Front(@) \o <<[Top(r) EXCEPT !.elements = n]>>,
                                         NewTask(0))]

ReadType(r) ==
    IF Top(r).type # "unknown" \/ r.pos = Len(r.buf) THEN r
    ELSE IF r.buf[r.pos + 1] \notin DOMAIN ReplyType THEN SetError(r, "protocol")
    ELSE [r EXCEPT !.pos = @ + 1, !.rstack[Len(r.rstack)].type = ReplyType[r.buf[r.pos + 1]]]

ProcessTyped(r, s, nl, memory) ==
    IF r.err # "ok" THEN r
    ELSE CASE Top(r).type = "unknown" -> r
           [] Top(r).type \in {"error", "status", "integer"} -> ProcessLineItem(r, s, nl, memory)
           [] Top(r).type = "string" -> ProcessBulkItem(r, s, nl, memory)
           [] Top(r).type = "array" -> ProcessMultiBulkItem(r, s, nl, memory)

ProcessItem(reader, memory) ==
    LET Line(r, s) == Strict(LAMBDA nl : ProcessTyped(r, s, nl, memory), SeekNewline(s))
        Typed(r)   == Strict(LAMBDA s : Line(r, s), Unread(r))
    IN  Strict(Typed, ReadType(reader))

\* redisReaderFeed
Feed(r, bytes) == IF r.err # "ok" THEN r ELSE [r EXCEPT !.buf = @ \o bytes]

\* The loop of redisReaderGetReply: until an item lacks bytes or all are done.
RECURSIVE ProcessItems(_, _)
ProcessItems(r, memory) ==
    IF r.rstack = <<>> THEN r
    ELSE Strict(LAMBDA next : IF next = r THEN r ELSE ProcessItems(next, memory),
                ProcessItem(r, memory))

Discard(r) ==
    IF r.pos < DiscardAt THEN r ELSE [r EXCEPT !.buf = Unread(r), !.pos = 0]

\* redisReaderGetReply: the reader afterwards, and the reply if there is one.
Emit(r) ==
    IF r.err # "ok" \/ r.rstack # <<>> THEN [reader |-> r, reply |-> Null]
    ELSE [reader |-> [r EXCEPT !.reply = Null], reply |-> r.reply]

Start(r) == IF r.rstack = <<>> THEN [r EXCEPT !.rstack = <<NewTask(-1)>>] ELSE r

ReaderGetReply(r, memory) ==
    IF r.err # "ok" \/ r.buf = <<>> THEN [reader |-> r, reply |-> Null]
    ELSE LET Done(started) == ProcessItems(started, memory) IN
         Strict(LAMBDA done : Emit(Discard(done)), Strict(Done, Start(r)))
=============================================================================
