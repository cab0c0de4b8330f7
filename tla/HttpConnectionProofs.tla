------------------------ MODULE HttpConnectionProofs ------------------------
(***************************************************************************)
(* Machine-checked proofs about HttpConnection, for any number of          *)
(* connections, threads and requests.                                      *)
(***************************************************************************)
EXTENDS HttpConnection, FiniteSetTheorems, WellFoundedInduction, TLAPS

-----------------------------------------------------------------------------
(* The inductive invariant                                                 *)

Done == {"handshake_done", "read_done", "write_done"}

\* A thread is about to act for c: it runs a handler of c that has not started
\* the next operation.
Acting(c) == \E t \in Threads : run[t] = c /\ t \notin ending
Queued(c) == \E i \in DOMAIN queue : queue[i] = c

\* The handlers that are queued, waiting or running, without counting them: no
\* connection is in two places, only one whose operation has completed is in
\* any, and two threads are never inside one.
HandlersSound ==
    /\ \A i, j \in DOMAIN queue : queue[i] = queue[j] => i = j
    /\ \A t, u \in Threads : run[t] = run[u] /\ run[t] # NoConn => t = u
    /\ \A t \in ending : run[t] \in Conns
    /\ \A c \in strand_ : ~Queued(c) /\ ~Acting(c) /\ \E t \in Threads : run[t] = c
    /\ \A c \in Conns : Queued(c) => ~Acting(c)
    /\ \A c \in Conns : phase[c] \in Done <=> Queued(c) \/ Acting(c) \/ c \in strand_

\* What the parser is given has been sent; a request that asks to close is the
\* last one; the buffer is empty while a read is pending.
InputSound(c) ==
    /\ \A i \in DOMAIN wire[c] : wire[c][i].n <= Len(sent[c])
    /\ \A i \in DOMAIN buffer_[c] : buffer_[c][i].n <= Len(sent[c])
    /\ \A i \in DOMAIN sent[c] : sent[c][i] = "close" => i = Len(sent[c])
    /\ buffer_[c] # <<>> => phase[c] = "read_done"
    /\ err[c] /\ phase[c] = "read_done" => buffer_[c] = <<>>

\* The connection was asked to close by the last request.
AskedToClose(c) == Len(sent[c]) > 0 /\ sent[c][Len(sent[c])] = "close"

\* No request has been served yet, and the parser has had the first one from
\* its first byte.
FirstRequest(c) ==
    /\ \/ 1 \in request_[c]
       \/ buffer_[c] # <<>> /\ buffer_[c][1].n = 1
       \/ buffer_[c] = <<>> /\ wire[c] # <<>> /\ wire[c][1].n = 1
       \/ buffer_[c] = <<>> /\ wire[c] = <<>> /\ sent[c] = <<>>
    /\ phase[c] \in {"write", "write_done"} =>
          response_[c].status = "bad_request" /\ 1 \in response_[c].of

\* Why option can have the value on which a plain connection closes.
OptionSound(c) ==
    proc = "running" /\ ~ssl /\ option[c] = "c" => AskedToClose(c) \/ FirstRequest(c)

\* The two pieces of the last request.
LastHead(c) == [n |-> Len(sent[c]), kind |-> sent[c][Len(sent[c])], part |-> "head"]
LastTail(c) == [n |-> Len(sent[c]), kind |-> sent[c][Len(sent[c])], part |-> "tail"]

\* Nothing of an earlier request or response is left.
Fresh(c) == state_[c] = Start /\ request_[c] = {} /\ response_[c] = NoResponse

\* Between two requests.
Idle(c) == Fresh(c) /\ buffer_[c] = <<>> /\ wire[c] = <<>>

\* All of the last request is still to be parsed, or its tail is.
Unparsed(c) ==
    /\ Fresh(c)
    /\ \/ buffer_[c] = <<>> /\ wire[c] = <<LastHead(c), LastTail(c)>>
       \/ buffer_[c] = <<LastHead(c)>> /\ wire[c] = <<LastTail(c)>>
       \/ buffer_[c] = <<LastHead(c), LastTail(c)>> /\ wire[c] = <<>>

HalfParsed(c) ==
    /\ state_[c] = Len(sent[c]) /\ request_[c] = {Len(sent[c])} /\ response_[c] = NoResponse
    /\ \/ buffer_[c] = <<>> /\ wire[c] = <<LastTail(c)>>
       \/ buffer_[c] = <<LastTail(c)>> /\ wire[c] = <<>>

\* All requests are answered, or all but the last; nobody counts for a client
\* that has gone.
AllAnswered(c) == peer[c] = "up" => Len(got[c]) = Len(sent[c])
LastUnanswered(c) == Len(sent[c]) > 0 /\ (peer[c] = "up" => Len(got[c]) + 1 = Len(sent[c]))

\* How far the server is with the last request of a client that sends
\* well-formed requests one at a time, and how many responses it has had.
Progress(c) ==
    /\ phase[c] \in {"new", "handshake", "handshake_done"} => Idle(c) /\ sent[c] = <<>> /\ got[c] = <<>>
    /\ phase[c] \in {"read", "read_done"} =>
          \/ Idle(c) /\ AllAnswered(c)
          \/ (Unparsed(c) \/ HalfParsed(c)) /\ LastUnanswered(c)
    /\ phase[c] = "write" =>
          /\ response_[c] = [of |-> {Len(sent[c])}, status |-> "answered"]
          /\ buffer_[c] = <<>> /\ wire[c] = <<>> /\ LastUnanswered(c)
    /\ phase[c] = "write_done" =>
          /\ buffer_[c] = <<>>
          /\ \/ wire[c] = <<>> /\ AllAnswered(c)
             \/ wire[c] = <<LastHead(c), LastTail(c)>> /\ LastUnanswered(c)

Matched(c) == \A i \in DOMAIN got[c] : got[c][i] = [of |-> {i}, status |-> "answered"]

AnswersSound(c) ==
    ~eager[c] /\ WellFormed(c) => Matched(c) /\ (proc = "running" => Progress(c))

IInv ==
    /\ TypeOK /\ HandlersSound
    /\ \A c \in Conns : InputSound(c) /\ OptionSound(c) /\ AnswersSound(c)

-----------------------------------------------------------------------------
(* Induction.  A set takes the place of the predicate, which the provers   *)
(* could not find.                                                         *)

\* Every non-empty set of naturals has a least element.
LEMMA LeastNatural ==
    ASSUME NEW S, S \subseteq Nat, S # {}
    PROVE  \E n \in S : \A m \in S : n <= m
  <1> DEFINE R == OpToRel(<, Nat)
  <1>1. IsWellFoundedOn(R, Nat)
    BY NatLessThanWellFounded
  <1>2. \A m, n \in Nat : m < n => <<m, n>> \in R
    BY DEF OpToRel
  <1> HIDE DEF R
  <1>3. PICK n \in S : \A m \in S : ~(<<m, n>> \in R)
    BY <1>1, WFMin
  <1>4. ASSUME NEW m \in S
        PROVE  n <= m
    <2>1. m \in Nat /\ n \in Nat
      OBVIOUS
    <2>2. ~(m < n)
      BY <1>2, <1>3, <2>1
    <2> QED BY <2>1, <2>2
  <1> QED BY <1>4

\* Induction over the naturals up to a bound.
LEMMA InductionTo ==
    ASSUME NEW n \in Nat, NEW S, 0 \in S, \A k \in 1 .. n : k - 1 \in S => k \in S
    PROVE  \A k \in 0 .. n : k \in S
  <1> DEFINE B == {k \in 0 .. n : k \notin S}
  <1> SUFFICES ASSUME B # {}
               PROVE  FALSE
    OBVIOUS
  <1>1. B \subseteq Nat
    OBVIOUS
  <1>2. PICK m \in B : \A k \in B : m <= k
    BY <1>1, LeastNatural
  <1>3. m \in 0 .. n /\ m \notin S
    OBVIOUS
  <1>4. m # 0 /\ m \in 1 .. n /\ m - 1 \in 0 .. n
    BY <1>3
  <1>5. m - 1 \in S
    BY <1>2, <1>3, <1>4
  <1> QED BY <1>3, <1>4, <1>5

-----------------------------------------------------------------------------
(* The parser                                                              *)

\* The recursion of parse() over the buffer is well defined.
LEMMA ParseAllDef ==
    ASSUME NEW P, NEW S, NEW b \in Seq(P)
    PROVE  /\ ParseAll(S, b)[0] = S
           /\ \A k \in 1 .. Len(b) : \A r :
                 r \in ParseAll(S, b)[k] <=>
                     \E s \in ParseAll(S, b)[k - 1] : r \in ParsePiece(s, b[k])
  <1> DEFINE Def(g, n) ==
        [k \in 0 .. n |-> IF k = 0 THEN S ELSE UNION {ParsePiece(s, b[k]) : s \in g[k - 1]}]
  <1> DEFINE Some == {n \in Nat : \E g : g = Def(g, n)}
  <1>1. 0 \in Some
    <2> DEFINE g == [k \in 0 .. 0 |-> S]
    <2>1. g = Def(g, 0)
      OBVIOUS
    <2> QED BY <2>1
  <1>2. ASSUME NEW m \in 1 .. Len(b), m - 1 \in Some
        PROVE  m \in Some
    <2>1. PICK g : g = Def(g, m - 1)
      BY <1>2
    <2> DEFINE h == [k \in 0 .. m |-> IF k = m THEN UNION {ParsePiece(s, b[m]) : s \in g[m - 1]}
                                      ELSE g[k]]
    <2>2. m \in Nat /\ m - 1 \in Nat /\ m - 1 \in 0 .. m
      BY <1>2
    <2>3. ASSUME NEW k \in 0 .. m
          PROVE  h[k] = IF k = 0 THEN S ELSE UNION {ParsePiece(s, b[k]) : s \in h[k - 1]}
      <3>1. CASE k = m
        <4>1. h[m - 1] = g[m - 1] /\ k # 0
          BY <2>2, <3>1
        <4> QED BY <3>1, <4>1
      <3>2. CASE k # m
        <4>1. k \in 0 .. m - 1 /\ (k # 0 => k - 1 \in 0 .. m /\ k - 1 # m)
          BY <2>2, <3>2
        <4>2. g[k] = IF k = 0 THEN S ELSE UNION {ParsePiece(s, b[k]) : s \in g[k - 1]}
          BY <2>1, <4>1
        <4> QED BY <3>2, <4>1, <4>2
      <3> QED BY <3>1, <3>2
    <2>4. h = Def(h, m)
      BY <2>3
    <2> QED BY <2>2, <2>4
  <1>3. Len(b) \in Nat
    OBVIOUS
  <1> HIDE DEF Some
  <1>4. Len(b) \in Some
    <2>1. \A k \in 0 .. Len(b) : k \in Some
      BY <1>1, <1>2, <1>3, InductionTo
    <2> QED BY <1>3, <2>1
  <1>5. \E g : g = Def(g, Len(b))
    BY <1>4 DEF Some
  <1>6. ParseAll(S, b) = CHOOSE g : g = Def(g, Len(b))
    BY DEF ParseAll
  <1> HIDE DEF Def
  <1>7. ParseAll(S, b) = Def(ParseAll(S, b), Len(b))
    BY <1>5, <1>6
  <1>8. ASSUME NEW A, A = Def(A, Len(b))
        PROVE  /\ A[0] = S
               /\ \A k \in 1 .. Len(b) : \A r :
                     r \in A[k] <=> \E s \in A[k - 1] : r \in ParsePiece(s, b[k])
    <2>1. 0 \in 0 .. Len(b) /\ \A k \in 1 .. Len(b) : k \in 0 .. Len(b) /\ k # 0
      BY <1>3
    <2>2. \A g : Def(g, Len(b))[0] = S
      BY <2>1 DEF Def
    <2>3. A[0] = S
      BY <1>8, <2>2
    <2>4. ASSUME NEW k \in 1 .. Len(b), NEW r
          PROVE  r \in A[k] <=> \E s \in A[k - 1] : r \in ParsePiece(s, b[k])
      <3>1. ASSUME NEW g
            PROVE  r \in Def(g, Len(b))[k] <=> \E s \in g[k - 1] : r \in ParsePiece(s, b[k])
        <4>1. Def(g, Len(b))[k] = UNION {ParsePiece(s, b[k]) : s \in g[k - 1]}
          BY <2>1 DEF Def
        <4> QED BY <4>1
      <3> QED BY <1>8, <3>1
    <2> QED BY <2>3, <2>4
  <1> QED BY <1>7, <1>8

Results ==
    [state : {Start, Junk} \cup Numbers, req : SUBSET Numbers,
     result : {"true", "false", "indeterminate"}]

\* One piece: it is added to the request, unless the parser had finished, and it
\* alone can complete the request it is of.
LEMMA ParsePieceFacts ==
    ASSUME NEW s \in Results, NEW piece \in Pieces, NEW r \in ParsePiece(s, piece)
    PROVE  /\ r \in Results /\ s.req \subseteq r.req
           /\ s.result = "indeterminate" => piece.n \in r.req
           /\ s.result # "indeterminate" => r = s
           /\ s.result = "indeterminate" /\ r.result = "true" => r.state = piece.n
  <1> DEFINE more == [s EXCEPT !.req = @ \cup {piece.n}]
  <1>1. /\ s.state \in {Start, Junk} \cup Numbers /\ s.req \subseteq Numbers
        /\ s.result \in {"true", "false", "indeterminate"} /\ piece.n \in Numbers
        /\ piece.part \in {"head", "tail"}
    BY DEF Results, Pieces
  <1>2. /\ more \in Results /\ more.req = s.req \cup {piece.n}
        /\ more.state = s.state /\ more.result = s.result
    BY <1>1 DEF Results
  <1> HIDE DEF more
  <1> DEFINE no == [more EXCEPT !.result = "false"]
  <1> DEFINE yes == [more EXCEPT !.result = "true"]
  <1> DEFINE in == [more EXCEPT !.state = piece.n]
  <1> DEFINE junk == [more EXCEPT !.state = Junk]
  <1>3. no \in Results /\ no.req = more.req /\ no.result = "false"
    BY <1>2 DEF Results
  <1>4. yes \in Results /\ yes.req = more.req /\ yes.state = s.state
    BY <1>2 DEF Results
  <1>5. in \in Results /\ in.req = more.req /\ in.result = s.result
    BY <1>1, <1>2 DEF Results
  <1>6. junk \in Results /\ junk.req = more.req /\ junk.result = s.result
    BY <1>2 DEF Results
  <1>7. CASE s.result # "indeterminate"
    BY <1>7 DEF ParsePiece
  <1>8. CASE s.result = "indeterminate"
    <2>1. r \in {no, in, junk} \/ (r = yes /\ s.state = piece.n)
      BY <1>8 DEF ParsePiece, more
    <2> HIDE DEF no, yes, in, junk
    <2> QED BY <1>2, <1>3, <1>4, <1>5, <1>6, <1>8, <2>1
  <1> QED BY <1>7, <1>8

\* The results of parse(): what request_ holds stays there, the first piece of
\* the buffer is added, and a complete request is one that was sent.
LEMMA ParseFacts ==
    ASSUME TypeOK, NEW c \in Conns, InputSound(c), NEW p \in Parse(c)
    PROVE  /\ p \in Results /\ request_[c] \subseteq p.req
           /\ buffer_[c] = <<>> => p.result = "indeterminate"
           /\ buffer_[c] # <<>> => buffer_[c][1].n \in p.req
           /\ p.result = "true" => p.state \in 1 .. Len(sent[c])
  <1> DEFINE b == buffer_[c]
  <1> DEFINE s0 == [state |-> state_[c], req |-> request_[c], result |-> "indeterminate"]
  <1> DEFINE A == ParseAll({s0}, b)
  <1> DEFINE Good(s, k) ==
        /\ s \in Results /\ request_[c] \subseteq s.req
        /\ k = 0 => s.result = "indeterminate"
        /\ k > 0 => b[1].n \in s.req
        /\ s.result = "true" => s.state \in 1 .. Len(sent[c])
  <1>1. b \in Seq(Pieces) /\ Len(b) \in Nat /\ DOMAIN b = 1 .. Len(b)
    BY DEF TypeOK
  <1>2. s0 \in Results /\ s0.req = request_[c] /\ s0.result = "indeterminate"
    BY DEF TypeOK, Results
  <1>3. \A k \in 1 .. Len(b) : b[k] \in Pieces /\ b[k].n \in 1 .. Len(sent[c])
    <2>1. \A k \in 1 .. Len(b) : b[k] \in Pieces /\ b[k].n <= Len(sent[c])
      BY <1>1 DEF InputSound
    <2>2. Len(sent[c]) \in Nat /\ MaxRequests \in Nat
      BY MaxRequestsAssumption DEF TypeOK
    <2>3. \A k \in 1 .. Len(b) : b[k].n \in 1 .. MaxRequests
      BY <2>1 DEF Pieces, Numbers
    <2> QED BY <2>1, <2>2, <2>3
  <1> HIDE DEF s0, b
  <1>4. /\ A[0] = {s0}
        /\ \A k \in 1 .. Len(b) : \A r :
              r \in A[k] <=> \E s \in A[k - 1] : r \in ParsePiece(s, b[k])
    BY <1>1, ParseAllDef
  <1> HIDE DEF A
  <1> DEFINE G == {k \in 0 .. Len(b) : \A s \in A[k] : Good(s, k)}
  <1>5. 0 \in G
    <2>1. Good(s0, 0)
      BY <1>2
    <2> QED BY <1>1, <1>4, <2>1
  <1>6. ASSUME NEW k \in 1 .. Len(b), k - 1 \in G
        PROVE  k \in G
    <2>1. k \in 0 .. Len(b) /\ k # 0 /\ k > 0
      BY <1>1
    <2>2. ASSUME NEW r \in A[k]
          PROVE  Good(r, k)
      <3>2. PICK s \in A[k - 1] : r \in ParsePiece(s, b[k])
        BY <1>4
      <3>3. Good(s, k - 1)
        BY <1>6
      <3>4. /\ r \in Results /\ s.req \subseteq r.req
            /\ s.result = "indeterminate" => b[k].n \in r.req
            /\ s.result # "indeterminate" => r = s
            /\ s.result = "indeterminate" /\ r.result = "true" => r.state = b[k].n
        BY <1>3, <3>2, <3>3, ParsePieceFacts
      <3>5. b[1].n \in r.req
        <4>1. CASE k = 1
          BY <3>3, <3>4, <4>1
        <4>2. CASE k # 1
          <5>1. k - 1 > 0
            BY <1>1, <4>2
          <5> QED BY <3>3, <3>4, <5>1
        <4> QED BY <4>1, <4>2
      <3>6. r.result = "true" => r.state \in 1 .. Len(sent[c])
        BY <1>3, <3>3, <3>4
      <3> QED BY <2>1, <3>3, <3>4, <3>5, <3>6
    <2> QED BY <2>1, <2>2
  <1>7. Len(b) \in G
    <2> HIDE DEF G
    <2>1. \A k \in 0 .. Len(b) : k \in G
      BY <1>1, <1>5, <1>6, InductionTo
    <2> QED BY <1>1, <2>1
  <1>8. Good(p, Len(b))
    <2>1. p \in A[Len(b)]
      BY DEF Parse, A, s0, b
    <2> QED BY <1>7, <2>1
  <1>9. Len(b) = 0 <=> b = <<>>
    BY <1>1
  <1> QED BY <1>1, <1>8, <1>9 DEF b

-----------------------------------------------------------------------------
(* Types                                                                   *)

\* What a client does has its type.
LEMMA ClientTypeOK ==
    ASSUME TypeOK, NEW c \in Conns, Client(c)
    PROVE  TypeOK'
  <1>1. CASE PeerGone(c)
    BY <1>1 DEF PeerGone, local, threads, TypeOK
  <1>2. ASSUME NEW kind \in Kinds, Send(c, kind)
        PROVE  TypeOK'
    <2> DEFINE n == Len(sent[c]) + 1
    <2> DEFINE new == <<[n |-> n, kind |-> kind, part |-> "head"],
                        [n |-> n, kind |-> kind, part |-> "tail"]>>
    <2>1. /\ wire[c] \in Seq(Pieces) /\ sent[c] \in Seq(Kinds) /\ n \in Nat
          /\ Len(sent[c]) < MaxRequests /\ MaxRequests \in Nat
      BY <1>2, MaxRequestsAssumption DEF Send, TypeOK
    <2>2. n \in Numbers
      BY <2>1 DEF Numbers
    <2>3. /\ wire' = [wire EXCEPT ![c] = @ \o new] /\ sent' = [sent EXCEPT ![c] = Append(@, kind)]
          /\ UNCHANGED <<ssl, eager, proc, phase, err, queue, threads, buffer_, state_,
                         request_, option, response_, peer, got>>
      BY <1>2 DEF Send
    <2> HIDE DEF n
    <2>4. new \in Seq(Pieces)
      <3>1. [n |-> n, kind |-> kind, part |-> "head"] \in Pieces
            /\ [n |-> n, kind |-> kind, part |-> "tail"] \in Pieces
        BY <2>2 DEF Pieces
      <3> QED BY <3>1
    <2> HIDE DEF new
    <2>5. wire[c] \o new \in Seq(Pieces)
      BY <2>1, <2>4
    <2>6. wire' \in [Conns -> Seq(Pieces)]
      BY <2>3, <2>5 DEF TypeOK
    <2>7. Append(sent[c], kind) \in Seq(Kinds) /\ Len(Append(sent[c], kind)) <= MaxRequests
      BY <2>1
    <2>8. sent' \in [Conns -> Seq(Kinds)] /\ \A d \in Conns : Len(sent'[d]) <= MaxRequests
      BY <2>3, <2>7 DEF TypeOK
    <2> QED BY <2>3, <2>6, <2>8 DEF TypeOK, threads
  <1> QED BY <1>1, <1>2 DEF Client

\* The variables of the io_service when an operation completes.
LEMMA CompleteTypeOK ==
    ASSUME TypeOK, NEW c \in Conns, NEW from, NEW to \in Phases, NEW failed \in BOOLEAN,
           Complete(c, from, to, failed)
    PROVE  phase' \in [Conns -> Phases] /\ err' \in [Conns -> BOOLEAN] /\ queue' \in Seq(Conns)
  <1>1. phase' \in [Conns -> Phases] /\ err' \in [Conns -> BOOLEAN]
    BY DEF Complete, TypeOK
  <1>2. queue' \in Seq(Conns)
    BY DEF Complete, TypeOK
  <1> QED BY <1>1, <1>2

\* An operation completes, with what was read or written.
LEMMA OperationTypeOK ==
    ASSUME TypeOK, NEW c \in Conns, Operation(c)
    PROVE  TypeOK'
  <1>1. CASE HandshakeOk(c) \/ HandshakeFails(c) \/ ReadFails(c) \/ WriteFails(c)
    <2>1. /\ \E from, to : \E failed \in BOOLEAN : to \in Phases /\ Complete(c, from, to, failed)
          /\ UNCHANGED <<ssl, eager, proc, run, ending, strand_, wire, buffer_, state_, request_, option,
                         response_, peer, sent, got>>
      BY <1>1 DEF HandshakeOk, HandshakeFails, ReadFails, WriteFails, Phases, local, threads
    <2>2. phase' \in [Conns -> Phases] /\ err' \in [Conns -> BOOLEAN] /\ queue' \in Seq(Conns)
      BY <2>1, CompleteTypeOK
    <2> QED BY <2>1, <2>2 DEF TypeOK
  <1>2. CASE ReadSome(c)
    <2>1. phase' \in [Conns -> Phases] /\ err' \in [Conns -> BOOLEAN] /\ queue' \in Seq(Conns)
      BY <1>2, CompleteTypeOK DEF ReadSome, Phases
    <2>2. PICK k \in 1 .. Len(wire[c]) :
             /\ buffer_' = [buffer_ EXCEPT ![c] = SubSeq(wire[c], 1, k)]
             /\ wire' = [wire EXCEPT ![c] = SubSeq(wire[c], k + 1, Len(wire[c]))]
      BY <1>2 DEF ReadSome
    <2>3. wire[c] \in Seq(Pieces)
      BY DEF TypeOK
    <2>4. SubSeq(wire[c], 1, k) \in Seq(Pieces) /\ SubSeq(wire[c], k + 1, Len(wire[c])) \in Seq(Pieces)
      BY <2>3
    <2>5. wire' \in [Conns -> Seq(Pieces)] /\ buffer_' \in [Conns -> Seq(Pieces)]
      BY <2>2, <2>4 DEF TypeOK
    <2> QED BY <1>2, <2>1, <2>5 DEF ReadSome, threads, TypeOK
  <1>3. CASE WriteAll(c)
    <2>1. phase' \in [Conns -> Phases] /\ err' \in [Conns -> BOOLEAN] /\ queue' \in Seq(Conns)
      BY <1>3, CompleteTypeOK DEF WriteAll, Phases
    <2>2. got[c] \in Seq(Responses) /\ response_[c] \in Responses
      BY DEF TypeOK
    <2>3. Append(got[c], response_[c]) \in Seq(Responses)
      BY <2>2
    <2>4. got' \in [Conns -> Seq(Responses)]
      BY <1>3, <2>3 DEF WriteAll, TypeOK
    <2> QED BY <1>3, <2>1, <2>4 DEF WriteAll, local, threads, TypeOK
  <1> QED BY <1>1, <1>2, <1>3 DEF Operation

\* A handler starts an operation, or returns without one.
LEMMA ThreadTypeOK ==
    ASSUME TypeOK, NEW t \in Threads, NEW c \in Conns,
           Close(t, c) \/ \E to \in Phases : Begin(t, c, to)
    PROVE  /\ run' \in [Threads -> Conns \cup {NoConn}] /\ phase' \in [Conns -> Phases]
           /\ ending' \subseteq Threads /\ strand_' \subseteq Conns
  <1>1. CASE Close(t, c)
    BY <1>1 DEF Close, TypeOK, Phases
  <1>2. ASSUME NEW to \in Phases, Begin(t, c, to)
        PROVE  /\ run' \in [Threads -> Conns \cup {NoConn}] /\ phase' \in [Conns -> Phases]
               /\ ending' \subseteq Threads /\ strand_' \subseteq Conns
    BY <1>2 DEF Begin, TypeOK
  <1> QED BY <1>1, <1>2

\* What parse() leaves in the parser, the request and the buffer.
LEMMA ParsedTypeOK ==
    ASSUME TypeOK, NEW t \in Threads, NEW c \in Conns, InputSound(c), NEW p, Parsed(t, c, p)
    PROVE  /\ p \in Results
           /\ state_' \in [Conns -> {Start, Junk} \cup Numbers]
           /\ request_' \in [Conns -> SUBSET Numbers]
           /\ buffer_' \in [Conns -> Seq(Pieces)]
           /\ UNCHANGED <<ssl, eager, err, queue, wire, peer, sent, got>>
  <1>1. p \in Results
    BY ParseFacts DEF Parsed
  <1>2. p.state \in {Start, Junk} \cup Numbers /\ p.req \subseteq Numbers
    BY <1>1 DEF Results
  <1>3. <<>> \in Seq(Pieces)
    OBVIOUS
  <1>4. buffer_' \in [Conns -> Seq(Pieces)]
    BY <1>3 DEF Parsed, TypeOK
  <1>5. state_' \in [Conns -> {Start, Junk} \cup Numbers] /\ request_' \in [Conns -> SUBSET Numbers]
    BY <1>2 DEF Parsed, TypeOK
  <1> QED BY <1>1, <1>4, <1>5 DEF Parsed

\* A handler leaves values of their types, whatever it does.
LEMMA HandlerTypeOK ==
    ASSUME TypeOK, NEW t \in Threads, NEW c \in Conns, InputSound(c), Handler(t, c)
    PROVE  TypeOK'
  <1>1. CASE HandshakeDone(t, c) \/ ReadError(t, c) \/ WriteDoneClose(t, c)
    <2>1. /\ Close(t, c) \/ \E to \in Phases : Begin(t, c, to)
          /\ UNCHANGED <<ssl, eager, proc, err, queue, wire, buffer_, state_, request_, option,
                         response_, peer, sent, got>>
      BY <1>1 DEF HandshakeDone, ReadError, WriteDoneClose, Phases, local
    <2>2. /\ run' \in [Threads -> Conns \cup {NoConn}] /\ phase' \in [Conns -> Phases]
          /\ ending' \subseteq Threads /\ strand_' \subseteq Conns
      BY <2>1, ThreadTypeOK
    <2> QED BY <2>1, <2>2 DEF TypeOK
  <1>2. CASE ReadMore(t, c)
    <2>1. PICK p \in Parse(c) : Parsed(t, c, p) /\ Begin(t, c, "read")
                                /\ UNCHANGED <<proc, option, response_>>
      BY <1>2 DEF ReadMore
    <2>2. /\ run' \in [Threads -> Conns \cup {NoConn}] /\ phase' \in [Conns -> Phases]
          /\ ending' \subseteq Threads /\ strand_' \subseteq Conns
      BY <2>1, ThreadTypeOK DEF Phases
    <2>3. /\ state_' \in [Conns -> {Start, Junk} \cup Numbers] /\ request_' \in [Conns -> SUBSET Numbers]
          /\ buffer_' \in [Conns -> Seq(Pieces)]
          /\ UNCHANGED <<ssl, eager, err, queue, wire, peer, sent, got>>
      BY <2>1, ParsedTypeOK
    <2> QED BY <2>1, <2>2, <2>3 DEF TypeOK
  <1>3. CASE Serve(t, c)
    <2>1. PICK p \in Parse(c) :
             /\ Parsed(t, c, p) /\ Begin(t, c, "write") /\ UNCHANGED proc
             /\ option' = [option EXCEPT ![c] = ConnectionOption(c, sent[c][p.state])]
             /\ \E res \in HandleRequest(c, p.req) : response_' = [response_ EXCEPT ![c] = res]
      BY <1>3 DEF Serve
    <2>2. /\ run' \in [Threads -> Conns \cup {NoConn}] /\ phase' \in [Conns -> Phases]
          /\ ending' \subseteq Threads /\ strand_' \subseteq Conns
      BY <2>1, ThreadTypeOK DEF Phases
    <2>3. /\ p \in Results
          /\ state_' \in [Conns -> {Start, Junk} \cup Numbers] /\ request_' \in [Conns -> SUBSET Numbers]
          /\ buffer_' \in [Conns -> Seq(Pieces)]
          /\ UNCHANGED <<ssl, eager, err, queue, wire, peer, sent, got>>
      BY <2>1, ParsedTypeOK
    <2>4. option' \in [Conns -> {"c", "other"}]
      BY <2>1 DEF ConnectionOption, TypeOK
    <2>5. p.req \subseteq Numbers /\ response_[c].of \subseteq Numbers
      BY <2>3 DEF Results, TypeOK, Responses
    <2>6. HandleRequest(c, p.req) \subseteq Responses
      BY <2>5 DEF HandleRequest, Responses, Statuses
    <2>7. response_' \in [Conns -> Responses]
      BY <2>1, <2>6 DEF TypeOK
    <2> QED BY <2>1, <2>2, <2>3, <2>4, <2>7 DEF TypeOK
  <1>4. CASE Escape(t, c)
    <2>1. PICK p \in Parse(c) : Parsed(t, c, p) /\ proc' = "terminated"
                                /\ UNCHANGED <<phase, run, ending, strand_, option, response_>>
      BY <1>4 DEF Escape, threads
    <2>2. /\ state_' \in [Conns -> {Start, Junk} \cup Numbers] /\ request_' \in [Conns -> SUBSET Numbers]
          /\ buffer_' \in [Conns -> Seq(Pieces)]
          /\ UNCHANGED <<ssl, eager, err, queue, wire, peer, sent, got>>
      BY <2>1, ParsedTypeOK
    <2> QED BY <2>1, <2>2 DEF TypeOK
  <1>5. CASE Refuse(t, c)
    <2>1. PICK p \in Parse(c) :
             /\ Parsed(t, c, p) /\ Begin(t, c, "write") /\ UNCHANGED <<proc, option>>
             /\ response_' = [response_ EXCEPT ![c] = [of |-> p.req, status |-> "bad_request"]]
      BY <1>5 DEF Refuse
    <2>2. /\ run' \in [Threads -> Conns \cup {NoConn}] /\ phase' \in [Conns -> Phases]
          /\ ending' \subseteq Threads /\ strand_' \subseteq Conns
      BY <2>1, ThreadTypeOK DEF Phases
    <2>3. /\ p \in Results
          /\ state_' \in [Conns -> {Start, Junk} \cup Numbers] /\ request_' \in [Conns -> SUBSET Numbers]
          /\ buffer_' \in [Conns -> Seq(Pieces)]
          /\ UNCHANGED <<ssl, eager, err, queue, wire, peer, sent, got>>
      BY <2>1, ParsedTypeOK
    <2>4. [of |-> p.req, status |-> "bad_request"] \in Responses
      BY <2>3 DEF Results, Responses, Statuses
    <2>5. response_' \in [Conns -> Responses]
      BY <2>1, <2>4 DEF TypeOK
    <2> QED BY <2>1, <2>2, <2>3, <2>5 DEF TypeOK
  <1>6. CASE WriteDone(t, c)
    <2>1. /\ run' \in [Threads -> Conns \cup {NoConn}] /\ phase' \in [Conns -> Phases]
          /\ ending' \subseteq Threads /\ strand_' \subseteq Conns
      BY <1>6, ThreadTypeOK DEF WriteDone, Phases
    <2>2. NoResponse \in Responses
      BY DEF NoResponse, Responses, Statuses
    <2>3. response_' \in [Conns -> Responses]
      BY <1>6, <2>2 DEF WriteDone, TypeOK
    <2>4. state_' \in [Conns -> {Start, Junk} \cup Numbers] /\ request_' \in [Conns -> SUBSET Numbers]
          /\ option' \in [Conns -> {"c", "other"}]
      BY <1>6 DEF WriteDone, TypeOK
    <2> QED BY <1>6, <2>1, <2>3, <2>4 DEF WriteDone, TypeOK
  <1> QED BY <1>1, <1>2, <1>3, <1>4, <1>5, <1>6 DEF Handler

\* Every variable keeps its type.
LEMMA NextTypeOK ==
    ASSUME TypeOK, \A c \in Conns : InputSound(c), [Next]_vars
    PROVE  TypeOK'
  <1>1. ASSUME NEW c \in Conns, Accept(c)
        PROVE  TypeOK'
    BY <1>1 DEF Accept, local, threads, Phases, TypeOK
  <1>2. ASSUME NEW t \in Threads, Dispatch(t)
        PROVE  TypeOK'
    <2>1. Head(queue) \in Conns /\ Tail(queue) \in Seq(Conns)
      BY <1>2 DEF Dispatch, TypeOK
    <2>2. run' \in [Threads -> Conns \cup {NoConn}] /\ strand_' \subseteq Conns
      BY <1>2, <2>1 DEF Dispatch, TypeOK
    <2> QED BY <1>2, <2>1, <2>2 DEF Dispatch, local, TypeOK
  <1>4. ASSUME NEW t \in Threads, Return(t)
        PROVE  TypeOK'
    <2>1. run[t] \in Conns \cup {NoConn} /\ strand_ \subseteq Conns /\ queue \in Seq(Conns)
      BY DEF TypeOK
    <2>2. queue' \in Seq(Conns)
      BY <1>4, <2>1 DEF Return
    <2> QED BY <1>4, <2>1, <2>2 DEF Return, local, TypeOK
  <1>3. CASE Finished \/ UNCHANGED vars
    BY <1>3 DEF Finished, vars, TypeOK
  <1> QED BY <1>1, <1>2, <1>3, <1>4, ClientTypeOK, OperationTypeOK, HandlerTypeOK DEF Next

-----------------------------------------------------------------------------
(* One handler for each connection                                         *)

\* A step that leaves the queue, the threads and the strand alone, and completes
\* no operation.
LEMMA SameHandlers ==
    ASSUME HandlersSound, UNCHANGED <<queue, run, ending, strand_>>,
           \A c \in Conns : phase'[c] \in Done <=> phase[c] \in Done
    PROVE  HandlersSound'
  <1>1. \A c : (Queued(c)' <=> Queued(c)) /\ (Acting(c)' <=> Acting(c))
    BY DEF Queued, Acting
  <1> QED BY <1>1 DEF HandlersSound

\* A connection is added to the queue, in which it was not.
LEMMA AppendQueued ==
    ASSUME queue \in Seq(Conns), NEW c \in Conns, ~Queued(c), queue' = Append(queue, c),
           \A i, j \in DOMAIN queue : queue[i] = queue[j] => i = j
    PROVE  /\ \A i, j \in DOMAIN queue' : queue'[i] = queue'[j] => i = j
           /\ \A d \in Conns : Queued(d)' <=> d = c \/ Queued(d)
  <1> DEFINE n == Len(queue) + 1
  <1>1. n \in Nat /\ DOMAIN queue = 1 .. n - 1 /\ n \notin DOMAIN queue
    OBVIOUS
  <1>2. /\ DOMAIN queue' = DOMAIN queue \cup {n} /\ queue'[n] = c
        /\ \A i \in DOMAIN queue : queue'[i] = queue[i]
    BY <1>1
  <1>3. \A i \in DOMAIN queue : queue[i] # c
    BY DEF Queued
  <1> HIDE DEF n
  <1>4. \A i, j \in DOMAIN queue' : queue'[i] = queue'[j] => i = j
    BY <1>1, <1>2, <1>3
  <1>5. \A d \in Conns : Queued(d)' <=> d = c \/ Queued(d)
    BY <1>1, <1>2 DEF Queued
  <1> QED BY <1>4, <1>5

\* An operation that was pending is queued, for the first time.
LEMMA CompleteHandlers ==
    ASSUME TypeOK, HandlersSound, NEW c \in Conns, NEW from, from \notin Done, NEW to \in Done,
           NEW failed, Complete(c, from, to, failed), UNCHANGED <<run, ending, strand_>>
    PROVE  HandlersSound'
  <1>1. queue \in Seq(Conns) /\ queue' = Append(queue, c) /\ strand_ \subseteq Conns
    BY DEF TypeOK, Complete
  <1>2. ~Queued(c) /\ ~Acting(c) /\ c \notin strand_
    BY DEF HandlersSound, Complete
  <1>3. phase'[c] \in Done /\ \A d \in Conns \ {c} : phase'[d] = phase[d]
    BY DEF Complete, TypeOK
  <1>4. /\ \A i, j \in DOMAIN queue' : queue'[i] = queue'[j] => i = j
        /\ \A d \in Conns : Queued(d)' <=> d = c \/ Queued(d)
    <2>1. \A i, j \in DOMAIN queue : queue[i] = queue[j] => i = j
      BY DEF HandlersSound
    <2> QED BY <1>1, <1>2, <2>1, AppendQueued
  <1>5. \A d : Acting(d)' <=> Acting(d)
    BY DEF Acting
  <1>6. \A d \in strand_ : ~Queued(d)' /\ ~Acting(d)' /\ \E t \in Threads : run[t] = d
    BY <1>1, <1>2, <1>4, <1>5 DEF HandlersSound
  <1>7. \A d \in Conns : Queued(d)' => ~Acting(d)'
    BY <1>2, <1>4, <1>5 DEF HandlersSound
  <1>8. \A d \in Conns : phase'[d] \in Done <=> Queued(d)' \/ Acting(d)' \/ d \in strand_
    BY <1>3, <1>4, <1>5 DEF HandlersSound
  <1> QED BY <1>4, <1>6, <1>7, <1>8 DEF HandlersSound

\* The oldest handler leaves the queue.
LEMMA TailQueued ==
    ASSUME queue \in Seq(Conns), queue # <<>>, queue' = Tail(queue),
           \A i, j \in DOMAIN queue : queue[i] = queue[j] => i = j
    PROVE  /\ Head(queue) \in Conns /\ Queued(Head(queue))
           /\ \A i, j \in DOMAIN queue' : queue'[i] = queue'[j] => i = j
           /\ \A d \in Conns : Queued(d)' <=> Queued(d) /\ d # Head(queue)
  <1>1. Len(queue) \in Nat /\ Len(queue) > 0 /\ DOMAIN queue = 1 .. Len(queue) /\ 1 \in DOMAIN queue
    OBVIOUS
  <1>2. /\ DOMAIN queue' = 1 .. Len(queue) - 1
        /\ \A i \in DOMAIN queue' : i + 1 \in DOMAIN queue /\ i + 1 # 1 /\ queue'[i] = queue[i + 1]
    BY <1>1
  <1>3. PICK c : c = Head(queue)
    OBVIOUS
  <1>4. c = queue[1] /\ c \in Conns
    BY <1>1, <1>3
  <1>5. \A i, j \in DOMAIN queue' : queue'[i] = queue'[j] => i = j
    <2> SUFFICES ASSUME NEW i \in DOMAIN queue', NEW j \in DOMAIN queue', queue'[i] = queue'[j]
                 PROVE  i = j
      OBVIOUS
    <2>1. i + 1 = j + 1
      BY <1>2
    <2>2. i \in Nat /\ j \in Nat
      BY <1>1, <1>2
    <2> QED BY <2>1, <2>2
  <1>6. ASSUME NEW d \in Conns
        PROVE  Queued(d)' <=> Queued(d) /\ d # c
    <2>1. ASSUME NEW i \in DOMAIN queue, i # 1
          PROVE  i - 1 \in DOMAIN queue' /\ queue'[i - 1] = queue[i]
      <3>1. i - 1 \in 1 .. Len(queue) - 1 /\ (i - 1) + 1 = i
        BY <1>1, <2>1
      <3> QED BY <1>2, <3>1
    <2>2. \A i \in DOMAIN queue : queue[i] = c <=> i = 1
      BY <1>1, <1>4
    <2>3. ASSUME NEW i \in DOMAIN queue', queue'[i] = d
          PROVE  Queued(d) /\ d # c
      <3>1. i + 1 \in DOMAIN queue /\ i + 1 # 1 /\ queue[i + 1] = d
        BY <1>2, <2>3
      <3> QED BY <2>2, <3>1 DEF Queued
    <2>4. ASSUME NEW i \in DOMAIN queue, queue[i] = d, d # c
          PROVE  Queued(d)'
      <3>1. i # 1
        BY <2>2, <2>4
      <3> QED BY <2>1, <2>4, <3>1 DEF Queued
    <2> QED BY <2>3, <2>4 DEF Queued
  <1> QED BY <1>1, <1>3, <1>4, <1>5, <1>6 DEF Queued

\* The oldest handler goes from the queue to a thread, or into the strand.
LEMMA DispatchHandlers ==
    ASSUME TypeOK, HandlersSound, NEW t \in Threads, Dispatch(t)
    PROVE  HandlersSound'
  <1>1. PICK c : c = Head(queue)
    OBVIOUS
  <1>2. /\ c \in Conns /\ Queued(c)
        /\ \A i, j \in DOMAIN queue' : queue'[i] = queue'[j] => i = j
        /\ \A d \in Conns : Queued(d)' <=> Queued(d) /\ d # c
    <2>1. queue \in Seq(Conns) /\ queue # <<>> /\ queue' = Tail(queue)
      BY DEF TypeOK, Dispatch
    <2>2. \A i, j \in DOMAIN queue : queue[i] = queue[j] => i = j
      BY DEF HandlersSound
    <2> QED BY <1>1, <2>1, <2>2, TailQueued
  <1>3. c # NoConn /\ run[t] = NoConn /\ UNCHANGED <<phase, ending>> /\ t \notin ending
    BY <1>2, NoConnNotConn DEF Dispatch, HandlersSound
  <1>4. strand_ \subseteq Conns /\ c \notin strand_ /\ ~Acting(c)
    BY <1>2 DEF TypeOK, HandlersSound
  <1>5. CASE \E u \in Threads : run[u] = c
    <2>1. strand_' = strand_ \cup {c} /\ UNCHANGED run
      BY <1>1, <1>5 DEF Dispatch
    <2>2. \A d : Acting(d)' <=> Acting(d)
      BY <1>3, <2>1 DEF Acting
    <2>3. \A d \in strand_' : ~Queued(d)' /\ ~Acting(d)' /\ \E u \in Threads : run'[u] = d
      BY <1>2, <1>4, <1>5, <2>1, <2>2 DEF HandlersSound
    <2>4. \A d \in Conns : Queued(d)' => ~Acting(d)'
      BY <1>2, <2>2 DEF HandlersSound
    <2>5. \A d \in Conns : phase'[d] \in Done <=> Queued(d)' \/ Acting(d)' \/ d \in strand_'
      BY <1>2, <1>3, <2>1, <2>2 DEF HandlersSound
    <2> QED BY <1>2, <1>3, <2>1, <2>3, <2>4, <2>5 DEF HandlersSound
  <1>6. CASE \A u \in Threads : run[u] # c
    <2>1. UNCHANGED strand_ /\ run'[t] = c /\ \A u \in Threads \ {t} : run'[u] = run[u]
      BY <1>1, <1>6 DEF Dispatch, TypeOK
    <2>2. ASSUME NEW d \in Conns
          PROVE  Acting(d)' <=> d = c \/ Acting(d)
      <3>1. d # NoConn
        BY NoConnNotConn
      <3> QED BY <1>3, <2>1, <3>1 DEF Acting
    <2>3. ASSUME NEW d \in strand_
          PROVE  ~Queued(d)' /\ ~Acting(d)' /\ \E u \in Threads : run'[u] = d
      <3>1. d \in Conns /\ d # c /\ d # NoConn
        BY <1>4, NoConnNotConn
      <3>2. PICK u \in Threads : run[u] = d
        BY DEF HandlersSound
      <3>3. run'[u] = d
        BY <1>3, <2>1, <3>1, <3>2
      <3>4. ~Queued(d) /\ ~Acting(d)
        BY DEF HandlersSound
      <3> QED BY <1>2, <2>2, <3>1, <3>3, <3>4
    <2>4. \A d \in Conns : Queued(d)' => ~Acting(d)'
      BY <1>2, <2>2 DEF HandlersSound
    <2>5. \A d \in Conns : phase'[d] \in Done <=> Queued(d)' \/ Acting(d)' \/ d \in strand_
      BY <1>2, <1>3, <2>2 DEF HandlersSound
    <2>6. \A u, v \in Threads : run'[u] = run'[v] /\ run'[u] # NoConn => u = v
      BY <1>6, <2>1 DEF HandlersSound
    <2>7. \A u \in ending : run'[u] \in Conns
      BY <1>3, <2>1 DEF HandlersSound, TypeOK
    <2> QED BY <1>2, <1>3, <2>1, <2>3, <2>4, <2>5, <2>6, <2>7 DEF HandlersSound
  <1> QED BY <1>5, <1>6

\* A handler that has started its operation returns.
LEMMA ReturnHandlers ==
    ASSUME TypeOK, HandlersSound, NEW t \in Threads, Return(t)
    PROVE  HandlersSound'
  <1>1. PICK c : c = run[t]
    OBVIOUS
  <1>2. c \in Conns /\ c # NoConn /\ t \in ending /\ UNCHANGED phase
    BY <1>1, NoConnNotConn DEF Return, HandlersSound
  <1>3. /\ run'[t] = NoConn /\ \A u \in Threads \ {t} : run'[u] = run[u]
        /\ ending' = ending \ {t} /\ strand_' = strand_ \ {c}
        /\ queue' = IF c \in strand_ THEN Append(queue, c) ELSE queue
    BY <1>1 DEF Return, TypeOK
  <1>4. queue \in Seq(Conns) /\ strand_ \subseteq Conns /\ ending \subseteq Threads
    BY DEF TypeOK
  <1>5. ASSUME NEW d \in Conns
        PROVE  Acting(d)' <=> Acting(d)
    <2>1. d # NoConn
      BY NoConnNotConn
    <2> QED BY <1>2, <1>3, <2>1 DEF Acting
  <1>6. /\ \A i, j \in DOMAIN queue' : queue'[i] = queue'[j] => i = j
        /\ \A d \in Conns : Queued(d)' <=> Queued(d) \/ (d = c /\ c \in strand_)
    <2>1. \A i, j \in DOMAIN queue : queue[i] = queue[j] => i = j
      BY DEF HandlersSound
    <2>2. CASE c \in strand_
      <3>1. ~Queued(c)
        BY <2>2 DEF HandlersSound
      <3>2. queue' = Append(queue, c)
        BY <1>3, <2>2
      <3> QED BY <1>2, <1>4, <2>1, <2>2, <3>1, <3>2, AppendQueued
    <2>3. CASE c \notin strand_
      BY <1>3, <2>1, <2>3 DEF Queued
    <2> QED BY <2>2, <2>3
  <1>7. ~Acting(c)
    BY <1>1, <1>2 DEF Acting, HandlersSound
  <1>8. ASSUME NEW d \in strand_'
        PROVE  ~Queued(d)' /\ ~Acting(d)' /\ \E u \in Threads : run'[u] = d
    <2>1. d \in strand_ /\ d \in Conns /\ d # c
      BY <1>3, <1>4
    <2>2. PICK u \in Threads : run[u] = d
      BY <2>1 DEF HandlersSound
    <2>3. run'[u] = d
      BY <1>1, <1>3, <2>1, <2>2
    <2>4. ~Queued(d) /\ ~Acting(d)
      BY <2>1 DEF HandlersSound
    <2> QED BY <1>5, <1>6, <2>1, <2>3, <2>4
  <1>9. \A d \in Conns : Queued(d)' => ~Acting(d)'
    BY <1>5, <1>6, <1>7 DEF HandlersSound
  <1>10. \A d \in Conns : phase'[d] \in Done <=> Queued(d)' \/ Acting(d)' \/ d \in strand_'
    BY <1>2, <1>3, <1>5, <1>6 DEF HandlersSound
  <1>11. \A u, v \in Threads : run'[u] = run'[v] /\ run'[u] # NoConn => u = v
    BY <1>3 DEF HandlersSound
  <1>12. \A u \in ending' : run'[u] \in Conns
    BY <1>3, <1>4 DEF HandlersSound
  <1> QED BY <1>6, <1>8, <1>9, <1>10, <1>11, <1>12 DEF HandlersSound

\* A handler acts: it starts the next operation and goes on, or returns.
LEMMA ActHandlers ==
    ASSUME TypeOK, HandlersSound, NEW t \in Threads, NEW c \in Conns, run[t] = c, t \notin ending,
           Close(t, c) \/ (\E to : to \notin Done /\ Begin(t, c, to)), UNCHANGED queue
    PROVE  HandlersSound'
  <1>1. c # NoConn /\ Acting(c) /\ ending \subseteq Threads /\ strand_ \subseteq Conns
    BY NoConnNotConn DEF Acting, TypeOK
  <1>2. ~Queued(c) /\ c \notin strand_ /\ \A u \in Threads : run[u] = c => u = t
    BY <1>1 DEF HandlersSound
  <1>3. /\ UNCHANGED strand_ /\ phase'[c] \notin Done /\ \A d \in Conns \ {c} : phase'[d] = phase[d]
        /\ \A u \in Threads \ {t} : run'[u] = run[u] /\ (u \in ending' <=> u \in ending)
        /\ (run'[t] = NoConn /\ t \notin ending') \/ (run'[t] = c /\ t \in ending')
        /\ ending' \subseteq Threads
    <2>1. ASSUME Close(t, c)
          PROVE  /\ UNCHANGED <<ending, strand_>> /\ run'[t] = NoConn
                 /\ \A u \in Threads \ {t} : run'[u] = run[u]
                 /\ phase'[c] = "closed" /\ \A d \in Conns \ {c} : phase'[d] = phase[d]
      BY <2>1 DEF Close, TypeOK
    <2>3. "closed" \notin Done
      BY DEF Done
    <2>4. CASE Close(t, c)
      BY <1>1, <2>1, <2>3, <2>4
    <2>2. ASSUME NEW to, to \notin Done, Begin(t, c, to)
          PROVE  /\ UNCHANGED <<run, strand_>> /\ ending' = ending \cup {t}
                 /\ phase'[c] \notin Done /\ \A d \in Conns \ {c} : phase'[d] = phase[d]
      BY <2>2 DEF Begin, TypeOK
    <2> QED BY <1>1, <2>2, <2>4
  <1>4. \A d : Queued(d)' <=> Queued(d)
    BY DEF Queued
  <1>5. ASSUME NEW d \in Conns
        PROVE  Acting(d)' <=> Acting(d) /\ d # c
    <2>1. d # NoConn
      BY NoConnNotConn
    <2> QED BY <1>2, <1>3, <2>1 DEF Acting
  <1>6. ASSUME NEW d \in strand_
        PROVE  ~Queued(d)' /\ ~Acting(d)' /\ \E u \in Threads : run'[u] = d
    <2>1. d \in Conns /\ d # c
      BY <1>1, <1>2
    <2>2. PICK u \in Threads : run[u] = d
      BY DEF HandlersSound
    <2>3. run'[u] = d
      BY <1>3, <2>1, <2>2
    <2>4. ~Queued(d) /\ ~Acting(d)
      BY DEF HandlersSound
    <2> QED BY <1>4, <1>5, <2>1, <2>3, <2>4
  <1>7. \A d \in Conns : Queued(d)' => ~Acting(d)'
    BY <1>4, <1>5 DEF HandlersSound
  <1>8. \A d \in Conns : phase'[d] \in Done <=> Queued(d)' \/ Acting(d)' \/ d \in strand_
    BY <1>2, <1>3, <1>4, <1>5 DEF HandlersSound
  <1>9. \A u, v \in Threads : run'[u] = run'[v] /\ run'[u] # NoConn => u = v
    BY <1>2, <1>3 DEF HandlersSound
  <1>10. \A u \in ending' : run'[u] \in Conns
    BY <1>3 DEF HandlersSound
  <1>11. \A i, j \in DOMAIN queue' : queue'[i] = queue'[j] => i = j
    BY DEF HandlersSound
  <1> QED BY <1>3, <1>6, <1>7, <1>8, <1>9, <1>10, <1>11 DEF HandlersSound

\* No step puts a connection's handler into a second place, or a second thread
\* into a connection.
LEMMA NextHandlers ==
    ASSUME TypeOK, HandlersSound, [Next]_vars
    PROVE  HandlersSound'
  <1>1. CASE UNCHANGED <<phase, queue, run, ending, strand_>>
    BY <1>1, SameHandlers
  <1>2. ASSUME NEW c \in Conns, Client(c)
        PROVE  UNCHANGED <<phase, queue, run, ending, strand_>>
    BY <1>2 DEF Client, PeerGone, Send, threads
  <1>3. ASSUME NEW c \in Conns, Accept(c)
        PROVE  HandlersSound'
    <2>1. \A d \in Conns : phase'[d] \in Done <=> phase[d] \in Done
      BY <1>3 DEF Accept, Done, TypeOK
    <2> QED BY <1>3, <2>1, SameHandlers DEF Accept, threads
  <1>4. ASSUME NEW c \in Conns, Operation(c)
        PROVE  HandlersSound'
    BY <1>4, CompleteHandlers DEF Operation, HandshakeOk, HandshakeFails, ReadSome, ReadFails,
                                  WriteAll, WriteFails, Done, threads
  <1>5. ASSUME NEW t \in Threads, NEW c \in Conns, Handler(t, c)
        PROVE  HandlersSound'
    <2>1. CASE Escape(t, c)
      BY <1>1, <2>1 DEF Escape, Parsed, threads
    <2>2. CASE ~Escape(t, c)
      <3>1. /\ run[t] = c /\ t \notin ending /\ UNCHANGED queue
            /\ Close(t, c) \/ Begin(t, c, "read") \/ Begin(t, c, "write")
        BY <1>5, <2>2 DEF Handler, HandshakeDone, ReadError, ReadMore, Serve, Refuse,
                          WriteDoneClose, WriteDone, Parsed, Handles
      <3>2. "read" \notin Done /\ "write" \notin Done
        BY DEF Done
      <3> QED BY <3>1, <3>2, ActHandlers
    <2> QED BY <2>1, <2>2
  <1> QED BY <1>1, <1>2, <1>3, <1>4, <1>5, DispatchHandlers, ReturnHandlers DEF Next, Finished, vars

-----------------------------------------------------------------------------
(* One connection at a time                                                *)

\* The parts of connection d that its buffers, its parser and its client have.
SameData(d) ==
    /\ wire'[d] = wire[d] /\ buffer_'[d] = buffer_[d] /\ state_'[d] = state_[d]
    /\ request_'[d] = request_[d] /\ option'[d] = option[d] /\ response_'[d] = response_[d]
    /\ peer'[d] = peer[d] /\ sent'[d] = sent[d] /\ got'[d] = got[d]

Same(d) == phase'[d] = phase[d] /\ err'[d] = err[d] /\ SameData(d)

ConnSound(c) == InputSound(c) /\ OptionSound(c) /\ AnswersSound(c)

\* A step leaves the connections alone that it is not about.
LEMMA OthersSame ==
    ASSUME TypeOK, NEW c \in Conns,
           Client(c) \/ Accept(c) \/ Operation(c) \/ \E t \in Threads : Handler(t, c)
    PROVE  /\ proc = "running" /\ UNCHANGED <<ssl, eager>>
           /\ \A d \in Conns \ {c} : Same(d)
  <1> USE DEF TypeOK, Same, SameData
  <1>1. CASE Client(c)
    BY <1>1 DEF Client, PeerGone, Send, local
  <1>2. CASE Accept(c)
    BY <1>2 DEF Accept, local
  <1>3. CASE Operation(c)
    <2>1. CASE HandshakeOk(c) \/ HandshakeFails(c) \/ ReadFails(c) \/ WriteFails(c)
      BY <2>1 DEF HandshakeOk, HandshakeFails, ReadFails, WriteFails, Complete, local
    <2>2. CASE ReadSome(c)
      BY <2>2 DEF ReadSome, Complete
    <2>3. CASE WriteAll(c)
      BY <2>3 DEF WriteAll, Complete, local
    <2> QED BY <1>3, <2>1, <2>2, <2>3 DEF Operation
  <1>4. ASSUME NEW t \in Threads, Handler(t, c)
        PROVE  /\ proc = "running" /\ UNCHANGED <<ssl, eager>>
               /\ \A d \in Conns \ {c} : Same(d)
    <2>1. CASE HandshakeDone(t, c) \/ ReadError(t, c) \/ WriteDoneClose(t, c)
      BY <2>1 DEF HandshakeDone, ReadError, WriteDoneClose, Handles, Begin, Close, local
    <2>2. CASE ReadMore(t, c)
      BY <2>2 DEF ReadMore, Parsed, Handles, Begin, Close
    <2>3. CASE Serve(t, c)
      BY <2>3 DEF Serve, Parsed, Handles, Begin, Close
    <2>4. CASE Escape(t, c)
      BY <2>4 DEF Escape, Parsed, Handles, Begin, Close
    <2>5. CASE Refuse(t, c)
      BY <2>5 DEF Refuse, Parsed, Handles, Begin, Close
    <2>6. CASE WriteDone(t, c)
      BY <2>6 DEF WriteDone, Handles, Begin, Close
    <2> QED BY <1>4, <2>1, <2>2, <2>3, <2>4, <2>5, <2>6 DEF Handler
  <1> QED BY <1>1, <1>2, <1>3, <1>4

\* What holds of a connection goes on holding when nothing of it changes.
LEMMA SameKeeps ==
    ASSUME NEW d \in Conns, ConnSound(d), Same(d), UNCHANGED <<ssl, eager>>,
           proc' = "running" => proc = "running"
    PROVE  ConnSound(d)'
  <1>1. InputSound(d)'
    BY DEF ConnSound, Same, SameData, InputSound
  <1>2. OptionSound(d)'
    BY DEF ConnSound, Same, SameData, OptionSound, AskedToClose, FirstRequest
  <1>3. Progress(d) => Progress(d)'
    BY DEF Same, SameData, Progress, Idle, Unparsed, HalfParsed, Fresh, LastHead, LastTail,
       AllAnswered, LastUnanswered
  <1>4. AnswersSound(d)'
    BY <1>3 DEF ConnSound, Same, SameData, AnswersSound, WellFormed, Matched
  <1> QED BY <1>1, <1>2, <1>4 DEF ConnSound

\* A sequence of at most two elements is the tuple of them.
LEMMA ShortTuples ==
    ASSUME NEW P, NEW s \in Seq(P)
    PROVE  /\ Len(s) = 0 => s = <<>>
           /\ Len(s) = 1 => s = <<s[1]>>
           /\ Len(s) = 2 => s = <<s[1], s[2]>>
  <1>1. Len(s) = 0 => s = <<>>
    OBVIOUS
  <1>2. Len(s) = 1 => s = <<s[1]>>
    OBVIOUS
  <1>3. Len(s) = 2 => s = <<s[1], s[2]>>
    OBVIOUS
  <1> QED BY <1>1, <1>2, <1>3

\* The first bytes of two pieces, or of one.
LEMMA ShortSequences ==
    ASSUME NEW P, NEW h \in P, NEW l \in P
    PROVE  /\ SubSeq(<<h, l>>, 1, 1) = <<h>> /\ SubSeq(<<h, l>>, 2, 2) = <<l>>
           /\ SubSeq(<<h, l>>, 1, 2) = <<h, l>> /\ SubSeq(<<h, l>>, 3, 2) = <<>>
           /\ SubSeq(<<l>>, 1, 1) = <<l>> /\ SubSeq(<<l>>, 2, 1) = <<>>
           /\ <<>> \o <<h, l>> = <<h, l>>
  <1>1. PICK s : s = <<h, l>>
    OBVIOUS
  <1>2. s \in Seq(P) /\ Len(s) = 2 /\ s[1] = h /\ s[2] = l
    BY <1>1
  <1>3. PICK r : r = <<l>>
    OBVIOUS
  <1>4. r \in Seq(P) /\ Len(r) = 1 /\ r[1] = l
    BY <1>3
  <1>5. SubSeq(s, 1, 1) = <<h>>
    <2>1. SubSeq(s, 1, 1) \in Seq(P) /\ Len(SubSeq(s, 1, 1)) = 1 /\ SubSeq(s, 1, 1)[1] = h
      BY <1>2
    <2> QED BY <2>1, ShortTuples
  <1>6. SubSeq(s, 2, 2) = <<l>>
    <2>1. SubSeq(s, 2, 2) \in Seq(P) /\ Len(SubSeq(s, 2, 2)) = 1 /\ SubSeq(s, 2, 2)[1] = l
      BY <1>2
    <2> QED BY <2>1, ShortTuples
  <1>7. SubSeq(s, 1, 2) = <<h, l>>
    <2>1. /\ SubSeq(s, 1, 2) \in Seq(P) /\ Len(SubSeq(s, 1, 2)) = 2
          /\ SubSeq(s, 1, 2)[1] = h /\ SubSeq(s, 1, 2)[2] = l
      BY <1>2
    <2> QED BY <2>1, ShortTuples
  <1>8. SubSeq(s, 3, 2) = <<>> /\ SubSeq(r, 2, 1) = <<>>
    <2>1. /\ SubSeq(s, 3, 2) \in Seq(P) /\ Len(SubSeq(s, 3, 2)) = 0
          /\ SubSeq(r, 2, 1) \in Seq(P) /\ Len(SubSeq(r, 2, 1)) = 0
      BY <1>2, <1>4
    <2> QED BY <2>1, ShortTuples
  <1>9. SubSeq(r, 1, 1) = <<l>>
    <2>1. SubSeq(r, 1, 1) \in Seq(P) /\ Len(SubSeq(r, 1, 1)) = 1 /\ SubSeq(r, 1, 1)[1] = l
      BY <1>4
    <2> QED BY <2>1, ShortTuples
  <1>10. <<>> \o s = s
    BY <1>2
  <1> QED BY <1>1, <1>3, <1>5, <1>6, <1>7, <1>8, <1>9, <1>10

\* A client sends a request.
LEMMA SendKeeps ==
    ASSUME TypeOK, NEW c \in Conns, ConnSound(c), NEW kind \in Kinds, Send(c, kind)
    PROVE  ConnSound(c)'
  <1> DEFINE n == Len(sent[c]) + 1
  <1> DEFINE h == [n |-> n, kind |-> kind, part |-> "head"]
  <1> DEFINE l == [n |-> n, kind |-> kind, part |-> "tail"]
  <1>1. /\ sent[c] \in Seq(Kinds) /\ wire[c] \in Seq(Pieces) /\ Len(sent[c]) \in Nat /\ n \in Nat
        /\ DOMAIN sent[c] = 1 .. Len(sent[c])
    BY DEF TypeOK
  <1>2. /\ sent'[c] = Append(sent[c], kind) /\ wire'[c] = wire[c] \o <<h, l>>
        /\ phase'[c] = phase[c] /\ err'[c] = err[c] /\ buffer_'[c] = buffer_[c]
        /\ state_'[c] = state_[c] /\ request_'[c] = request_[c] /\ option'[c] = option[c]
        /\ response_'[c] = response_[c] /\ peer'[c] = peer[c] /\ got'[c] = got[c]
        /\ UNCHANGED <<ssl, eager, proc>> /\ peer[c] = "up"
        /\ phase[c] \notin {"new", "handshake", "handshake_done", "closed"}
        /\ eager[c] \/ Len(got[c]) >= Len(sent[c])
    BY DEF Send, TypeOK
  <1>3. "close" \notin Range(sent[c])
    BY DEF Send
  <1>4. \A i \in DOMAIN sent[c] : sent[c][i] # "close"
    BY <1>3 DEF Range
  <1>5. /\ Len(sent'[c]) = n /\ DOMAIN sent'[c] = DOMAIN sent[c] \cup {n} /\ sent'[c][n] = kind
        /\ n \notin DOMAIN sent[c] /\ \A i \in DOMAIN sent[c] : sent'[c][i] = sent[c][i]
    BY <1>1, <1>2
  <1>6. h.n = n /\ l.n = n
    OBVIOUS
  <1> HIDE DEF h, l
  <1>7. /\ Len(wire'[c]) = Len(wire[c]) + 2 /\ Len(wire[c]) \in Nat
        /\ DOMAIN wire'[c] = 1 .. Len(wire[c]) + 2 /\ DOMAIN wire[c] = 1 .. Len(wire[c])
        /\ \A i \in DOMAIN wire[c] : wire'[c][i] = wire[c][i]
        /\ wire'[c][Len(wire[c]) + 1] = h /\ wire'[c][Len(wire[c]) + 2] = l
    BY <1>1, <1>2
  <1>8. InputSound(c)'
    <2>1. ASSUME NEW i \in DOMAIN wire'[c]
          PROVE  wire'[c][i].n <= n
      <3>1. CASE i \in DOMAIN wire[c]
        <4>1. wire[c][i] \in Pieces /\ wire[c][i].n <= Len(sent[c])
          BY <1>1, <3>1 DEF ConnSound, InputSound
        <4>2. wire[c][i].n \in Nat
          BY <4>1 DEF Pieces, Numbers
        <4> QED BY <1>1, <1>7, <3>1, <4>1, <4>2
      <3>2. CASE i \notin DOMAIN wire[c]
        <4>1. i = Len(wire[c]) + 1 \/ i = Len(wire[c]) + 2
          BY <1>7, <3>2
        <4> QED BY <1>1, <1>6, <1>7, <4>1
      <3> QED BY <3>1, <3>2
    <2>2. ASSUME NEW i \in DOMAIN buffer_[c]
          PROVE  buffer_[c][i].n <= n
      <3>1. buffer_[c][i] \in Pieces /\ buffer_[c][i].n <= Len(sent[c])
        BY DEF TypeOK, ConnSound, InputSound
      <3>2. buffer_[c][i].n \in Nat
        BY <3>1 DEF Pieces, Numbers
      <3> QED BY <1>1, <3>1, <3>2
    <2>3. \A i \in DOMAIN sent'[c] : sent'[c][i] = "close" => i = n
      BY <1>4, <1>5
    <2> QED BY <1>2, <1>5, <2>1, <2>2, <2>3 DEF ConnSound, InputSound
  <1>9. OptionSound(c)'
    <2> SUFFICES ASSUME proc = "running", ~ssl, option[c] = "c"
                 PROVE  FirstRequest(c)'
      BY <1>2 DEF OptionSound
    <2>1. ~AskedToClose(c)
      BY <1>1, <1>4 DEF AskedToClose
    <2>2. FirstRequest(c)
      BY <2>1 DEF ConnSound, OptionSound
    <2>3. wire[c] # <<>> => wire'[c] # <<>> /\ wire'[c][1] = wire[c][1]
      BY <1>1, <1>7
    <2>4. wire[c] = <<>> => wire'[c] # <<>> /\ wire'[c][1] = h
      BY <1>1, <1>7
    <2>5. sent[c] = <<>> => h.n = 1
      BY <1>1, <1>6
    <2> QED BY <1>2, <2>2, <2>3, <2>4, <2>5 DEF FirstRequest
  <1>10. AnswersSound(c)'
    <2> SUFFICES ASSUME ~eager[c], WellFormed(c)'
                 PROVE  Matched(c)' /\ (proc = "running" => Progress(c)')
      BY <1>2 DEF AnswersSound
    <2>1. WellFormed(c)
      BY <1>5 DEF WellFormed, Range
    <2>2. Matched(c)'
      BY <1>2, <2>1 DEF ConnSound, AnswersSound, Matched
    <2>3. ASSUME proc = "running"
          PROVE  Progress(c)'
      <3>1. Progress(c) /\ Len(got[c]) >= Len(sent[c]) /\ Len(got[c]) \in Nat
        BY <1>2, <2>1, <2>3 DEF ConnSound, AnswersSound, TypeOK
      <3>2. LastHead(c)' = h /\ LastTail(c)' = l
        BY <1>5 DEF LastHead, LastTail, h, l
      <3>3. wire[c] = <<>> => wire'[c] = <<h, l>>
        <4>1. h \in {h, l} /\ l \in {h, l}
          OBVIOUS
        <4>2. <<>> \o <<h, l>> = <<h, l>>
          BY <4>1, ShortSequences
        <4> QED BY <1>2, <4>2
      <3>4. AllAnswered(c) /\ ~LastUnanswered(c) /\ LastUnanswered(c)'
        <4>1. Progress(c) /\ phase[c] \in {"read", "read_done", "write", "write_done"} => 
                AllAnswered(c) \/ LastUnanswered(c)
          BY DEF Progress
        <4>2. phase[c] \in {"read", "read_done", "write", "write_done"}
          BY <1>2 DEF TypeOK, Phases
        <4>3. ~LastUnanswered(c)
          BY <1>1, <1>2, <3>1 DEF LastUnanswered
        <4>4. Len(got[c]) = Len(sent[c])
          BY <1>2, <3>1, <4>1, <4>2, <4>3 DEF AllAnswered
        <4> QED BY <1>1, <1>2, <1>5, <4>3, <4>4 DEF AllAnswered, LastUnanswered
      <3>5. CASE phase[c] \in {"read", "read_done"}
        <4>1. Idle(c)
          BY <3>1, <3>4, <3>5 DEF Progress
        <4>2. Unparsed(c)'
          BY <1>2, <3>2, <3>3, <4>1 DEF Idle, Unparsed, Fresh
        <4> QED BY <1>2, <3>4, <3>5, <4>2 DEF Progress
      <3>6. CASE phase[c] = "write"
        BY <3>1, <3>4, <3>6 DEF Progress
      <3>7. CASE phase[c] = "write_done"
        <4>1. wire[c] = <<>> /\ buffer_[c] = <<>>
          BY <3>1, <3>4, <3>7 DEF Progress
        <4> QED BY <1>2, <3>2, <3>3, <3>4, <3>7, <4>1 DEF Progress
      <3> QED BY <1>2, <3>5, <3>6, <3>7 DEF TypeOK, Phases
    <2> QED BY <2>2, <2>3
  <1> QED BY <1>8, <1>9, <1>10 DEF ConnSound

\* A step that only takes the connection from one operation to another.
LEMMA MoveKeeps ==
    ASSUME NEW c \in Conns, ConnSound(c), SameData(c), UNCHANGED <<ssl, eager, proc>>,
           buffer_[c] = <<>>,
           phase'[c] \in {"write", "write_done"} => phase[c] \in {"write", "write_done"},
           Progress(c) => Progress(c)'
    PROVE  ConnSound(c)'
  <1>1. InputSound(c)'
    BY DEF ConnSound, SameData, InputSound
  <1>2. OptionSound(c)'
    BY DEF ConnSound, SameData, OptionSound, AskedToClose, FirstRequest
  <1>3. AnswersSound(c)'
    BY DEF ConnSound, SameData, AnswersSound, WellFormed, Matched
  <1> QED BY <1>1, <1>2, <1>3 DEF ConnSound

\* The client leaves.
LEMMA PeerGoneKeeps ==
    ASSUME TypeOK, NEW c \in Conns, ConnSound(c), PeerGone(c)
    PROVE  ConnSound(c)'
  <1>1. /\ UNCHANGED <<ssl, eager, proc, phase, err, wire, buffer_, state_, request_, option, response_, sent, got>>
        /\ peer'[c] = "gone"
    BY DEF PeerGone, local, TypeOK
  <1>2. InputSound(c)'
    BY <1>1 DEF ConnSound, InputSound
  <1>3. OptionSound(c)'
    BY <1>1 DEF ConnSound, OptionSound, AskedToClose, FirstRequest
  <1>4. Progress(c) => Progress(c)'
    BY <1>1 DEF Progress, Idle, Unparsed, HalfParsed, Fresh, LastHead, LastTail, AllAnswered, LastUnanswered
  <1>5. AnswersSound(c)'
    BY <1>1, <1>4 DEF ConnSound, AnswersSound, WellFormed, Matched
  <1> QED BY <1>2, <1>3, <1>5 DEF ConnSound

\* The connection is accepted.
LEMMA AcceptKeeps ==
    ASSUME TypeOK, NEW c \in Conns, ConnSound(c), Accept(c)
    PROVE  ConnSound(c)'
  <1>1. /\ UNCHANGED <<ssl, eager, proc>> /\ SameData(c) /\ phase[c] = "new"
        /\ phase'[c] \in {"handshake", "read"}
    BY DEF Accept, local, SameData, TypeOK
  <1>2. buffer_[c] = <<>>
    BY <1>1 DEF ConnSound, InputSound
  <1>3. Progress(c) => Progress(c)'
    BY <1>1 DEF Progress, SameData, Idle, Fresh, AllAnswered
  <1> QED BY <1>1, <1>2, <1>3, MoveKeeps

\* A handshake, a failed read or a failed write.
LEMMA FailureKeeps ==
    ASSUME TypeOK, NEW c \in Conns, ConnSound(c),
           HandshakeOk(c) \/ HandshakeFails(c) \/ ReadFails(c) \/ WriteFails(c)
    PROVE  ConnSound(c)'
  <1>1. /\ UNCHANGED <<ssl, eager, proc>> /\ SameData(c)
        /\ \/ phase[c] = "handshake" /\ phase'[c] = "handshake_done"
           \/ phase[c] = "read" /\ phase'[c] = "read_done"
           \/ phase[c] = "write" /\ phase'[c] = "write_done" /\ peer[c] = "gone"
    BY DEF HandshakeOk, HandshakeFails, ReadFails, WriteFails, Complete, local, SameData, TypeOK
  <1>2. buffer_[c] = <<>>
    BY <1>1 DEF ConnSound, InputSound
  <1>3. Progress(c) => Progress(c)'
    BY <1>1 DEF SameData, Progress, Idle, Unparsed, HalfParsed, Fresh, LastHead, LastTail,
                AllAnswered, LastUnanswered
  <1> QED BY <1>1, <1>2, <1>3, MoveKeeps

\* The handlers that start the first read, or nothing.
LEMMA ReturnKeeps ==
    ASSUME TypeOK, NEW c \in Conns, ConnSound(c), NEW t \in Threads,
           HandshakeDone(t, c) \/ ReadError(t, c) \/ WriteDoneClose(t, c)
    PROVE  ConnSound(c)'
  <1>1. /\ UNCHANGED <<ssl, eager, proc>> /\ SameData(c)
        /\ \/ phase[c] = "handshake_done" /\ phase'[c] \in {"read", "closed"}
           \/ phase[c] = "read_done" /\ err[c] /\ phase'[c] = "closed"
           \/ phase[c] = "write_done" /\ phase'[c] = "closed"
    BY DEF HandshakeDone, ReadError, WriteDoneClose, Handles, Begin, Close, local, SameData, TypeOK
  <1>2. buffer_[c] = <<>>
    BY <1>1 DEF ConnSound, InputSound
  <1>3. Progress(c) => Progress(c)'
    BY <1>1 DEF SameData, Progress, Idle, Fresh, AllAnswered
  <1> QED BY <1>1, <1>2, <1>3, MoveKeeps

\* The response is written.
LEMMA WriteAllKeeps ==
    ASSUME TypeOK, NEW c \in Conns, ConnSound(c), WriteAll(c)
    PROVE  ConnSound(c)'
  <1>1. /\ UNCHANGED <<ssl, eager, proc, wire, buffer_, state_, request_, option, response_, peer, sent>>
        /\ phase[c] = "write" /\ phase'[c] = "write_done" /\ got[c] \in Seq(Responses)
    BY DEF WriteAll, Complete, local, TypeOK
  <1>2. got'[c] = IF peer[c] = "up" THEN Append(got[c], response_[c]) ELSE got[c]
    BY DEF WriteAll, TypeOK
  <1>3. buffer_[c] = <<>>
    BY <1>1 DEF ConnSound, InputSound
  <1>4. InputSound(c)'
    BY <1>1, <1>3 DEF ConnSound, InputSound
  <1>5. OptionSound(c)'
    BY <1>1 DEF ConnSound, OptionSound, AskedToClose, FirstRequest
  <1>6. AnswersSound(c)'
    <2> SUFFICES ASSUME ~eager[c], WellFormed(c)
                 PROVE  Matched(c)' /\ Progress(c)'
      BY <1>1 DEF AnswersSound, WellFormed
    <2>1. Matched(c) /\ Progress(c)
      BY DEF ConnSound, AnswersSound, WriteAll, Complete
    <2>2. /\ response_[c] = [of |-> {Len(sent[c])}, status |-> "answered"] /\ wire[c] = <<>>
          /\ LastUnanswered(c)
      BY <1>1, <2>1 DEF Progress
    <2>3. CASE peer[c] = "up"
      <3>1. /\ got'[c] = Append(got[c], response_[c]) /\ Len(got[c]) \in Nat
            /\ Len(got[c]) + 1 = Len(sent[c]) /\ DOMAIN got[c] = 1 .. Len(got[c])
        BY <1>1, <1>2, <2>2, <2>3 DEF LastUnanswered
      <3>2. response_[c] \in Responses
        BY DEF TypeOK
      <3>3. /\ Len(got'[c]) = Len(got[c]) + 1 /\ DOMAIN got'[c] = DOMAIN got[c] \cup {Len(sent[c])}
            /\ got'[c][Len(sent[c])] = response_[c] /\ \A i \in DOMAIN got[c] : got'[c][i] = got[c][i]
        BY <1>1, <3>1, <3>2
      <3>4. Matched(c)'
        BY <2>1, <2>2, <3>3 DEF Matched
      <3>5. AllAnswered(c)'
        BY <1>1, <3>1, <3>3 DEF AllAnswered
      <3> QED BY <1>1, <1>3, <2>2, <3>4, <3>5 DEF Progress
    <2>4. CASE peer[c] # "up"
      BY <1>1, <1>2, <1>3, <2>1, <2>2, <2>4 DEF Matched, Progress, AllAnswered
    <2> QED BY <2>3, <2>4
  <1> QED BY <1>4, <1>5, <1>6 DEF ConnSound

\* Some of what has arrived is read.
LEMMA ReadSomeKeeps ==
    ASSUME TypeOK, NEW c \in Conns, ConnSound(c), ReadSome(c)
    PROVE  ConnSound(c)'
  <1>1. /\ UNCHANGED <<ssl, eager, proc, state_, request_, option, response_, peer, sent, got>>
        /\ phase[c] = "read" /\ phase'[c] = "read_done" /\ ~err'[c] /\ wire[c] \in Seq(Pieces)
    BY DEF ReadSome, Complete, TypeOK
  <1>2. PICK w : w = wire[c]
    OBVIOUS
  <1>3. w \in Seq(Pieces) /\ Len(w) \in Nat /\ DOMAIN w = 1 .. Len(w)
    BY <1>1, <1>2
  <1>4. PICK k \in 1 .. Len(w) : buffer_'[c] = SubSeq(w, 1, k) /\ wire'[c] = SubSeq(w, k + 1, Len(w))
    BY <1>2 DEF ReadSome, TypeOK
  <1>5. buffer_[c] = <<>>
    BY <1>1 DEF ConnSound, InputSound
  <1>6. /\ DOMAIN buffer_'[c] = 1 .. k /\ \A i \in 1 .. k : buffer_'[c][i] = w[i] /\ i \in DOMAIN w
        /\ buffer_'[c] # <<>>
    BY <1>3, <1>4
  <1>7. /\ DOMAIN wire'[c] = 1 .. Len(w) - k
        /\ \A i \in 1 .. Len(w) - k : wire'[c][i] = w[i + k] /\ i + k \in DOMAIN w
    BY <1>3, <1>4
  <1>8. InputSound(c)'
    <2>1. \A i \in DOMAIN w : w[i].n <= Len(sent[c])
      BY <1>2 DEF ConnSound, InputSound
    <2> QED BY <1>1, <1>6, <1>7, <2>1 DEF ConnSound, InputSound
  <1>9. OptionSound(c)'
    <2>1. w # <<>> /\ 1 \in 1 .. k
      BY <1>3, <1>4
    <2>2. FirstRequest(c) => FirstRequest(c)'
      BY <1>1, <1>2, <1>5, <1>6, <2>1 DEF FirstRequest
    <2> QED BY <1>1, <2>2 DEF ConnSound, OptionSound, AskedToClose
  <1>10. Progress(c) => Progress(c)'
    <2> SUFFICES ASSUME Progress(c)
                 PROVE  Progress(c)'
      OBVIOUS
    <2> DEFINE h == LastHead(c)
    <2> DEFINE l == LastTail(c)
    <2>1. h' = h /\ l' = l /\ (LastUnanswered(c) => LastUnanswered(c)') /\ (Fresh(c) => Fresh(c)')
      BY <1>1 DEF LastHead, LastTail, LastUnanswered, Fresh
    <2>2. w # <<>>
      BY <1>3, <1>4
    <2>3. /\ LastUnanswered(c)
          /\ \/ Unparsed(c) /\ w = <<h, l>>
             \/ HalfParsed(c) /\ w = <<l>>
      BY <1>1, <1>2, <1>5, <2>2 DEF Progress, Idle, Unparsed, HalfParsed
    <2>4. /\ SubSeq(<<h, l>>, 1, 1) = <<h>> /\ SubSeq(<<h, l>>, 2, 2) = <<l>>
          /\ SubSeq(<<h, l>>, 1, 2) = <<h, l>> /\ SubSeq(<<h, l>>, 3, 2) = <<>>
          /\ SubSeq(<<l>>, 1, 1) = <<l>> /\ SubSeq(<<l>>, 2, 1) = <<>>
      <3>1. h \in {h, l} /\ l \in {h, l}
        OBVIOUS
      <3> HIDE DEF h, l
      <3> QED BY <3>1, ShortSequences
    <2>5. CASE Unparsed(c) /\ w = <<h, l>>
      <3>1. Len(w) = 2
        BY <2>5
      <3>2. \/ buffer_'[c] = <<h>> /\ wire'[c] = <<l>>
            \/ buffer_'[c] = <<h, l>> /\ wire'[c] = <<>>
        <4>1. k = 1 \/ k = 2
          BY <1>4, <3>1
        <4>2. CASE k = 1
          <5>1. buffer_'[c] = SubSeq(w, 1, 1) /\ wire'[c] = SubSeq(w, 2, 2)
            BY <1>4, <3>1, <4>2
          <5> QED BY <2>4, <2>5, <5>1
        <4>3. CASE k = 2
          <5>1. buffer_'[c] = SubSeq(w, 1, 2) /\ wire'[c] = SubSeq(w, 3, 2)
            BY <1>4, <3>1, <4>3
          <5> QED BY <2>4, <2>5, <5>1
        <4> QED BY <4>1, <4>2, <4>3
      <3>3. Unparsed(c)'
        BY <2>1, <2>5, <3>2 DEF Unparsed
      <3> QED BY <1>1, <2>1, <2>3, <3>3 DEF Progress
    <2>6. CASE HalfParsed(c) /\ w = <<l>>
      <3>1. Len(w) = 1
        BY <2>6
      <3>2. k = 1
        BY <1>4, <3>1
      <3>3. buffer_'[c] = SubSeq(w, 1, 1) /\ wire'[c] = SubSeq(w, 2, 1)
        BY <1>4, <3>1, <3>2
      <3>4. buffer_'[c] = <<l>> /\ wire'[c] = <<>>
        BY <2>4, <2>6, <3>3
      <3>5. HalfParsed(c)'
        BY <1>1, <2>1, <2>6, <3>4 DEF HalfParsed
      <3> QED BY <1>1, <2>1, <2>3, <3>5 DEF Progress
    <2> QED BY <2>3, <2>5, <2>6
  <1>11. AnswersSound(c)'
    BY <1>1, <1>10 DEF ConnSound, AnswersSound, WellFormed, Matched
  <1> QED BY <1>8, <1>9, <1>11 DEF ConnSound

\* What parse() makes of the pieces of one well-formed request.
LEMMA ParseOneRequest ==
    ASSUME TypeOK, NEW c \in Conns, NEW p \in Parse(c), NEW n, NEW kind, kind # "bad",
           NEW h, h = [n |-> n, kind |-> kind, part |-> "head"],
           NEW l, l = [n |-> n, kind |-> kind, part |-> "tail"]
    PROVE  /\ buffer_[c] = <<>> =>
                 p = [state |-> state_[c], req |-> request_[c], result |-> "indeterminate"]
           /\ state_[c] = Start /\ request_[c] = {} /\ buffer_[c] = <<h>> =>
                 p = [state |-> n, req |-> {n}, result |-> "indeterminate"]
           /\ state_[c] = Start /\ request_[c] = {} /\ buffer_[c] = <<h, l>> =>
                 p = [state |-> n, req |-> {n}, result |-> "true"]
           /\ state_[c] = n /\ request_[c] = {n} /\ buffer_[c] = <<l>> =>
                 p = [state |-> n, req |-> {n}, result |-> "true"]
  <1>1. PICK b : b = buffer_[c]
    OBVIOUS
  <1>2. PICK s0 : s0 = [state |-> state_[c], req |-> request_[c], result |-> "indeterminate"]
    OBVIOUS
  <1>3. PICK A : A = ParseAll({s0}, b)
    OBVIOUS
  <1>4. p \in A[Len(b)]
    BY <1>1, <1>2, <1>3 DEF Parse
  <1>5. b \in Seq(Pieces) /\ Len(b) \in Nat
    BY <1>1 DEF TypeOK
  <1>6. /\ A[0] = {s0}
        /\ \A k \in 1 .. Len(b) : \A r :
              r \in A[k] <=> \E s \in A[k - 1] : r \in ParsePiece(s, b[k])
    BY <1>3, <1>5, ParseAllDef
  <1>7. PICK x : x = [state |-> Start, req |-> {}, result |-> "indeterminate"]
    OBVIOUS
  <1>8. PICK y : y = [state |-> n, req |-> {n}, result |-> "indeterminate"]
    OBVIOUS
  <1>9. PICK z : z = [state |-> n, req |-> {n}, result |-> "true"]
    OBVIOUS
  <1>10. ParsePiece(x, h) = {y}
    <2>1. h.n = n /\ h.kind = kind /\ h.part = "head" /\ x.result = "indeterminate" /\ x.state = Start
      BY <1>7
    <2>2. [[x EXCEPT !.req = @ \cup {n}] EXCEPT !.state = n] = y
      <3>1. PICK m : m = [state |-> Start, req |-> {n}, result |-> "indeterminate"]
        OBVIOUS
      <3>2. [x EXCEPT !.req = @ \cup {n}] = m
        BY <1>7, <3>1
      <3>3. [m EXCEPT !.state = n] = y
        BY <1>8, <3>1
      <3> QED BY <3>2, <3>3
    <2> QED BY <2>1, <2>2 DEF ParsePiece
  <1>11. ParsePiece(y, l) = {z}
    <2>1. l.n = n /\ l.kind = kind /\ l.part = "tail" /\ y.result = "indeterminate" /\ y.state = n
      BY <1>8
    <2>2. [[y EXCEPT !.req = @ \cup {n}] EXCEPT !.result = "true"] = z
      <3>1. [y EXCEPT !.req = @ \cup {n}] = y
        BY <1>8
      <3>2. [y EXCEPT !.result = "true"] = z
        BY <1>8, <1>9
      <3> QED BY <3>1, <3>2
    <2> QED BY <2>1, <2>2 DEF ParsePiece
  <1>12. CASE b = <<>>
    BY <1>1, <1>2, <1>4, <1>6, <1>12
  <1>13. ASSUME s0 = x, b = <<h>>
         PROVE  p = y
    <2>1. Len(b) = 1 /\ b[1] = h
      BY <1>13
    <2>2. \A r : r \in A[1] <=> \E s \in A[0] : r \in ParsePiece(s, b[1])
      BY <1>6, <2>1
    <2> QED BY <1>4, <1>6, <1>10, <1>13, <2>1, <2>2
  <1>14. ASSUME s0 = y, b = <<l>>
         PROVE  p = z
    <2>1. Len(b) = 1 /\ b[1] = l
      BY <1>14
    <2>2. \A r : r \in A[1] <=> \E s \in A[0] : r \in ParsePiece(s, b[1])
      BY <1>6, <2>1
    <2> QED BY <1>4, <1>6, <1>11, <1>14, <2>1, <2>2
  <1>15. ASSUME s0 = x, b = <<h, l>>
         PROVE  p = z
    <2>1. Len(b) = 2 /\ b[1] = h /\ b[2] = l
      BY <1>15
    <2>2. \A r : r \in A[1] <=> \E s \in A[0] : r \in ParsePiece(s, b[1])
      BY <1>6, <2>1
    <2>3. \A r \in A[1] : r = y
      BY <1>6, <1>10, <1>15, <2>1, <2>2
    <2>4. \A r : r \in A[2] <=> \E s \in A[1] : r \in ParsePiece(s, b[2])
      BY <1>6, <2>1
    <2> QED BY <1>4, <1>11, <2>1, <2>3, <2>4
  <1> QED BY <1>1, <1>2, <1>7, <1>8, <1>9, <1>12, <1>13, <1>14, <1>15

\* What parse() makes of the last request of a client that sends well-formed
\* requests one at a time.
LEMMA ParseInTurn ==
    ASSUME TypeOK, NEW c \in Conns, NEW p \in Parse(c),
           WellFormed(c), Progress(c), phase[c] = "read_done"
    PROVE  /\ p.result # "false" /\ response_[c] = NoResponse
           /\ p.result = "true" => p.req = {Len(sent[c])} /\ wire[c] = <<>> /\ LastUnanswered(c)
           /\ p.result = "indeterminate" =>
                 \/ /\ p.state = Start /\ p.req = {} /\ wire[c] = <<>> /\ AllAnswered(c)
                 \/ /\ p.state = Start /\ p.req = {} /\ wire[c] = <<LastHead(c), LastTail(c)>>
                    /\ LastUnanswered(c)
                 \/ /\ p.state = Len(sent[c]) /\ p.req = {Len(sent[c])} /\ wire[c] = <<LastTail(c)>>
                    /\ LastUnanswered(c)
  <1>1. PICK n : n = Len(sent[c])
    OBVIOUS
  <1>2. PICK kind : kind = IF n > 0 THEN sent[c][n] ELSE "keep"
    OBVIOUS
  <1>3. kind # "bad"
    <2>1. sent[c] \in Seq(Kinds) /\ n \in Nat /\ DOMAIN sent[c] = 1 .. n
      BY <1>1 DEF TypeOK
    <2>2. n > 0 => n \in DOMAIN sent[c]
      BY <2>1
    <2> QED BY <1>2, <2>2 DEF WellFormed, Range
  <1>4. PICK h : h = [n |-> n, kind |-> kind, part |-> "head"]
    OBVIOUS
  <1>5. PICK l : l = [n |-> n, kind |-> kind, part |-> "tail"]
    OBVIOUS
  <1>6. LastUnanswered(c) => LastHead(c) = h /\ LastTail(c) = l
    BY <1>1, <1>2, <1>4, <1>5 DEF LastUnanswered, LastHead, LastTail
  <1>7. /\ buffer_[c] = <<>> =>
              p = [state |-> state_[c], req |-> request_[c], result |-> "indeterminate"]
        /\ state_[c] = Start /\ request_[c] = {} /\ buffer_[c] = <<h>> =>
              p = [state |-> n, req |-> {n}, result |-> "indeterminate"]
        /\ state_[c] = Start /\ request_[c] = {} /\ buffer_[c] = <<h, l>> =>
              p = [state |-> n, req |-> {n}, result |-> "true"]
        /\ state_[c] = n /\ request_[c] = {n} /\ buffer_[c] = <<l>> =>
              p = [state |-> n, req |-> {n}, result |-> "true"]
    BY <1>3, <1>4, <1>5, ParseOneRequest
  <1>8. CASE Idle(c) /\ AllAnswered(c)
    BY <1>7, <1>8 DEF Idle, Fresh
  <1>9. CASE Unparsed(c) /\ LastUnanswered(c)
    BY <1>1, <1>6, <1>7, <1>9 DEF Unparsed, Fresh
  <1>10. CASE HalfParsed(c) /\ LastUnanswered(c)
    BY <1>1, <1>6, <1>7, <1>10 DEF HalfParsed
  <1> QED BY <1>8, <1>9, <1>10 DEF Progress

\* What every handler of a completed read leaves.
LEMMA ParsedLeaves ==
    ASSUME TypeOK, NEW t \in Threads, NEW c \in Conns, ConnSound(c), NEW p \in Parse(c), Parsed(t, c, p)
    PROVE  /\ UNCHANGED <<ssl, eager, err, wire, peer, sent, got>> /\ proc = "running"
           /\ phase[c] = "read_done" /\ ~err[c]
           /\ state_'[c] = p.state /\ request_'[c] = p.req /\ buffer_'[c] = <<>>
           /\ InputSound(c)'
  <1>1. /\ UNCHANGED <<ssl, eager, err, wire, peer, sent, got>> /\ proc = "running"
        /\ phase[c] = "read_done" /\ ~err[c]
        /\ state_'[c] = p.state /\ request_'[c] = p.req /\ buffer_'[c] = <<>>
    BY DEF Parsed, Handles, TypeOK
  <1>2. InputSound(c)'
    BY <1>1 DEF ConnSound, InputSound
  <1> QED BY <1>1, <1>2

\* More data is required.
LEMMA ReadMoreKeeps ==
    ASSUME TypeOK, NEW t \in Threads, NEW c \in Conns, ConnSound(c), ReadMore(t, c)
    PROVE  ConnSound(c)'
  <1>1. PICK p \in Parse(c) : p.result = "indeterminate" /\ Parsed(t, c, p)
    BY DEF ReadMore
  <1>2. UNCHANGED <<proc, option, response_>> /\ phase'[c] = "read"
    BY DEF ReadMore, Begin, TypeOK
  <1>3. /\ UNCHANGED <<ssl, eager, err, wire, peer, sent, got>> /\ proc = "running"
        /\ phase[c] = "read_done" /\ ~err[c]
        /\ state_'[c] = p.state /\ request_'[c] = p.req /\ buffer_'[c] = <<>>
        /\ InputSound(c)'
    BY <1>1, ParsedLeaves
  <1>4. OptionSound(c)'
    <2>1. request_[c] \subseteq p.req /\ (buffer_[c] # <<>> => buffer_[c][1].n \in p.req)
      BY <1>1, ParseFacts DEF ConnSound
    <2>2. FirstRequest(c) => FirstRequest(c)'
      BY <1>2, <1>3, <2>1 DEF FirstRequest
    <2> QED BY <1>2, <1>3, <2>2 DEF ConnSound, OptionSound, AskedToClose
  <1>5. AnswersSound(c)'
    <2> SUFFICES ASSUME ~eager[c], WellFormed(c)
                 PROVE  Matched(c)' /\ Progress(c)'
      BY <1>3 DEF AnswersSound, WellFormed
    <2>1. Matched(c) /\ Progress(c)
      BY <1>3 DEF ConnSound, AnswersSound
    <2>2. /\ response_[c] = NoResponse
          /\ \/ /\ p.state = Start /\ p.req = {} /\ wire[c] = <<>> /\ AllAnswered(c)
             \/ /\ p.state = Start /\ p.req = {} /\ wire[c] = <<LastHead(c), LastTail(c)>>
                /\ LastUnanswered(c)
             \/ /\ p.state = Len(sent[c]) /\ p.req = {Len(sent[c])} /\ wire[c] = <<LastTail(c)>>
                /\ LastUnanswered(c)
      BY <1>1, <1>3, <2>1, ParseInTurn
    <2>3. /\ LastHead(c)' = LastHead(c) /\ LastTail(c)' = LastTail(c)
          /\ AllAnswered(c)' <=> AllAnswered(c)
          /\ LastUnanswered(c)' <=> LastUnanswered(c)
      BY <1>3 DEF LastHead, LastTail, AllAnswered, LastUnanswered
    <2>4. Progress(c)'
      BY <1>2, <1>3, <2>2, <2>3 DEF Progress, Idle, Unparsed, HalfParsed, Fresh
    <2> QED BY <1>3, <2>1, <2>4 DEF Matched
  <1> QED BY <1>3, <1>4, <1>5 DEF ConnSound

\* A complete request is handled.
LEMMA ServeKeeps ==
    ASSUME TypeOK, NEW t \in Threads, NEW c \in Conns, ConnSound(c), Serve(t, c)
    PROVE  ConnSound(c)'
  <1>1. PICK p \in Parse(c) :
           /\ p.result = "true" /\ Parsed(t, c, p)
           /\ option' = [option EXCEPT ![c] = ConnectionOption(c, sent[c][p.state])]
           /\ \E res \in HandleRequest(c, p.req) : response_' = [response_ EXCEPT ![c] = res]
    BY DEF Serve
  <1>2. UNCHANGED proc /\ phase'[c] = "write"
    BY DEF Serve, Begin, TypeOK
  <1>3. /\ UNCHANGED <<ssl, eager, err, wire, peer, sent, got>> /\ proc = "running"
        /\ phase[c] = "read_done" /\ ~err[c]
        /\ state_'[c] = p.state /\ request_'[c] = p.req /\ buffer_'[c] = <<>>
        /\ InputSound(c)'
    BY <1>1, ParsedLeaves
  <1>4. /\ option'[c] = ConnectionOption(c, sent[c][p.state])
        /\ response_'[c] \in HandleRequest(c, p.req)
    BY <1>1 DEF TypeOK
  <1>5. OptionSound(c)'
    <2> SUFFICES ASSUME ~ssl, option'[c] = "c"
                 PROVE  AskedToClose(c)'
      BY <1>3 DEF OptionSound
    <2>1. p.state \in 1 .. Len(sent[c])
      BY <1>1, ParseFacts DEF ConnSound
    <2>2. sent[c][p.state] = "close"
      BY <1>4 DEF ConnectionOption
    <2>3. DOMAIN sent[c] = 1 .. Len(sent[c]) /\ Len(sent[c]) \in Nat
      BY DEF TypeOK
    <2>4. p.state = Len(sent[c])
      BY <2>1, <2>2, <2>3 DEF ConnSound, InputSound
    <2> QED BY <1>3, <2>1, <2>2, <2>3, <2>4 DEF AskedToClose
  <1>6. AnswersSound(c)'
    <2> SUFFICES ASSUME ~eager[c], WellFormed(c)
                 PROVE  Matched(c)' /\ Progress(c)'
      BY <1>3 DEF AnswersSound, WellFormed
    <2>1. Matched(c) /\ Progress(c)
      BY <1>3 DEF ConnSound, AnswersSound
    <2>2. response_[c] = NoResponse /\ p.req = {Len(sent[c])} /\ wire[c] = <<>> /\ LastUnanswered(c)
      BY <1>1, <1>3, <2>1, ParseInTurn
    <2>3. response_'[c] = [of |-> {Len(sent[c])}, status |-> "answered"]
      <3>1. response_[c].of \cup p.req = p.req
        BY <2>2 DEF NoResponse
      <3> QED BY <1>4, <2>2, <3>1 DEF HandleRequest
    <2>4. LastUnanswered(c)'
      BY <1>3, <2>2 DEF LastUnanswered
    <2>5. Progress(c)'
      BY <1>2, <1>3, <2>2, <2>3, <2>4 DEF Progress
    <2> QED BY <1>3, <2>1, <2>5 DEF Matched
  <1> QED BY <1>3, <1>5, <1>6 DEF ConnSound

\* An exception ends the process.
LEMMA EscapeKeeps ==
    ASSUME TypeOK, NEW t \in Threads, NEW c \in Conns, ConnSound(c), Escape(t, c)
    PROVE  ConnSound(c)'
  <1>1. PICK p \in Parse(c) : Parsed(t, c, p)
    BY DEF Escape
  <1>2. proc' = "terminated"
    BY DEF Escape
  <1>3. UNCHANGED <<ssl, eager, err, wire, peer, sent, got>> /\ InputSound(c)'
    BY <1>1, ParsedLeaves
  <1>4. OptionSound(c)'
    BY <1>2 DEF OptionSound
  <1>5. AnswersSound(c)'
    BY <1>2, <1>3 DEF ConnSound, AnswersSound, WellFormed, Matched
  <1> QED BY <1>3, <1>4, <1>5 DEF ConnSound

\* Invalid data is refused.
LEMMA RefuseKeeps ==
    ASSUME TypeOK, NEW t \in Threads, NEW c \in Conns, ConnSound(c), Refuse(t, c)
    PROVE  ConnSound(c)'
  <1>1. PICK p \in Parse(c) :
           /\ p.result = "false" /\ Parsed(t, c, p)
           /\ response_' = [response_ EXCEPT ![c] = [of |-> p.req, status |-> "bad_request"]]
    BY DEF Refuse
  <1>2. /\ UNCHANGED <<proc, option>> /\ phase'[c] = "write"
        /\ response_'[c] = [of |-> p.req, status |-> "bad_request"]
    BY <1>1 DEF Refuse, Begin, TypeOK
  <1>3. /\ UNCHANGED <<ssl, eager, err, wire, peer, sent, got>> /\ proc = "running"
        /\ phase[c] = "read_done" /\ ~err[c]
        /\ state_'[c] = p.state /\ request_'[c] = p.req /\ buffer_'[c] = <<>>
        /\ InputSound(c)'
    BY <1>1, ParsedLeaves
  <1>4. OptionSound(c)'
    <2>1. request_[c] \subseteq p.req /\ buffer_[c] # <<>> /\ buffer_[c][1].n \in p.req
      BY <1>1, ParseFacts DEF ConnSound
    <2>2. FirstRequest(c) => 1 \in p.req
      BY <2>1 DEF FirstRequest
    <2>3. FirstRequest(c) => FirstRequest(c)'
      BY <1>2, <1>3, <2>2 DEF FirstRequest
    <2> QED BY <1>2, <1>3, <2>3 DEF ConnSound, OptionSound, AskedToClose
  <1>5. AnswersSound(c)'
    <2> SUFFICES ASSUME ~eager[c], WellFormed(c)
                 PROVE  FALSE
      BY <1>3 DEF AnswersSound, WellFormed
    <2>1. Progress(c)
      BY <1>3 DEF ConnSound, AnswersSound
    <2> QED BY <1>1, <1>3, <2>1, ParseInTurn
  <1> QED BY <1>3, <1>4, <1>5 DEF ConnSound

\* Parser, request and response are reset.
LEMMA WriteDoneKeeps ==
    ASSUME TypeOK, NEW t \in Threads, NEW c \in Conns, ConnSound(c), WriteDone(t, c)
    PROVE  ConnSound(c)'
  <1>1. /\ UNCHANGED <<ssl, eager, proc, err, wire, buffer_, peer, sent, got>> /\ proc = "running"
        /\ phase[c] = "write_done" /\ phase'[c] = "read" /\ option'[c] = "other"
    BY DEF WriteDone, Handles, Begin, Close, TypeOK
  <1>2. Fresh(c)'
    BY DEF WriteDone, Fresh, TypeOK
  <1>3. buffer_[c] = <<>>
    BY <1>1 DEF ConnSound, InputSound
  <1>4. InputSound(c)'
    BY <1>1, <1>3 DEF ConnSound, InputSound
  <1>5. OptionSound(c)'
    BY <1>1 DEF OptionSound
  <1>6. Progress(c) => Progress(c)'
    <2>1. /\ LastHead(c)' = LastHead(c) /\ LastTail(c)' = LastTail(c)
          /\ AllAnswered(c)' <=> AllAnswered(c)
          /\ LastUnanswered(c)' <=> LastUnanswered(c)
      BY <1>1 DEF LastHead, LastTail, AllAnswered, LastUnanswered
    <2> QED BY <1>1, <1>2, <1>3, <2>1 DEF Progress, Idle, Unparsed
  <1>7. AnswersSound(c)'
    BY <1>1, <1>6 DEF ConnSound, AnswersSound, WellFormed, Matched
  <1> QED BY <1>4, <1>5, <1>7 DEF ConnSound

-----------------------------------------------------------------------------
(* The invariant                                                           *)

\* It holds in the beginning.
LEMMA InitIInv == Init => IInv
  <1> SUFFICES ASSUME Init
               PROVE  IInv
    OBVIOUS
  <1>1. TypeOK
    <2>1. /\ sent \in [Conns -> Seq(Kinds)] /\ got \in [Conns -> Seq(Responses)]
          /\ wire \in [Conns -> Seq(Pieces)] /\ buffer_ \in [Conns -> Seq(Pieces)] /\ queue \in Seq(Conns)
      BY DEF Init
    <2>2. \A c \in Conns : Len(sent[c]) <= MaxRequests
      BY MaxRequestsAssumption DEF Init
    <2>3. response_ \in [Conns -> Responses]
      BY DEF Init, NoResponse, Responses, Statuses
    <2>4. eager \in [Conns -> BOOLEAN]
      BY ClientsAssumption DEF Init
    <2> QED BY <2>1, <2>2, <2>3, <2>4 DEF Init, TypeOK, Phases, Uninitialised
  <1>2. HandlersSound
    <2>1. DOMAIN queue = {}
      BY DEF Init
    <2> QED BY <2>1, NoConnNotConn DEF Init, HandlersSound, Queued, Acting, Done
  <1>3. ASSUME NEW c \in Conns
        PROVE  InputSound(c) /\ OptionSound(c) /\ AnswersSound(c)
    <2>1. /\ wire[c] = <<>> /\ buffer_[c] = <<>> /\ sent[c] = <<>> /\ got[c] = <<>>
          /\ phase[c] = "new" /\ ~err[c] /\ state_[c] = Start /\ request_[c] = {} /\ response_[c] = NoResponse
      BY DEF Init
    <2>2. InputSound(c)
      BY <2>1 DEF InputSound
    <2>3. OptionSound(c)
      BY <2>1 DEF OptionSound, FirstRequest
    <2>4. Matched(c)
      BY <2>1 DEF Matched
    <2>5. Progress(c)
      BY <2>1 DEF Progress, Idle, Fresh
    <2> QED BY <2>2, <2>3, <2>4, <2>5 DEF AnswersSound
  <1> QED BY <1>1, <1>2, <1>3 DEF IInv

\* A step keeps what holds of every connection.
LEMMA NextConn ==
    ASSUME TypeOK, NEW d \in Conns, ConnSound(d), [Next]_vars
    PROVE  ConnSound(d)'
  <1>1. ASSUME NEW c \in Conns, c # d,
               Client(c) \/ Accept(c) \/ Operation(c) \/ \E t \in Threads : Handler(t, c)
        PROVE  ConnSound(d)'
    <2>1. proc = "running" /\ UNCHANGED <<ssl, eager>> /\ Same(d)
      BY <1>1, OthersSame
    <2> QED BY <2>1, SameKeeps
  <1>2. CASE Client(d) \/ Accept(d)
    BY <1>2, PeerGoneKeeps, SendKeeps, AcceptKeeps DEF Client
  <1>3. CASE Operation(d)
    BY <1>3, FailureKeeps, ReadSomeKeeps, WriteAllKeeps DEF Operation
  <1>4. ASSUME NEW t \in Threads, Handler(t, d)
        PROVE  ConnSound(d)'
    BY <1>4, ReturnKeeps, ReadMoreKeeps, ServeKeeps, EscapeKeeps, RefuseKeeps, WriteDoneKeeps DEF Handler
  <1>5. ASSUME NEW t \in Threads, Dispatch(t) \/ Return(t)
        PROVE  ConnSound(d)'
    <2>1. UNCHANGED <<ssl, eager, proc>> /\ Same(d)
      BY <1>5 DEF Dispatch, Return, local, Same, SameData
    <2> QED BY <2>1, SameKeeps
  <1>6. CASE UNCHANGED vars
    <2>1. UNCHANGED <<ssl, eager, proc>> /\ Same(d)
      BY <1>6 DEF vars, Same, SameData
    <2> QED BY <2>1, SameKeeps
  <1> QED BY <1>1, <1>2, <1>3, <1>4, <1>5, <1>6 DEF Next, Finished

\* Every reachable state satisfies IInv, whatever the clients send and however
\* the operations of the connections interleave.
THEOREM Invariance == Spec => []IInv
  <1>1. Init => IInv
    BY InitIInv
  <1>2. IInv /\ [Next]_vars => IInv'
    <2> SUFFICES ASSUME IInv, [Next]_vars
                 PROVE  IInv'
      OBVIOUS
    <2>1. TypeOK'
      BY NextTypeOK DEF IInv
    <2>2. HandlersSound'
      BY NextHandlers DEF IInv
    <2>3. \A c \in Conns : ConnSound(c)'
      BY NextConn DEF IInv, ConnSound
    <2> QED BY <2>1, <2>2, <2>3 DEF IInv, ConnSound
  <1> QED BY <1>1, <1>2, PTL DEF Spec

\* Every variable keeps its type.
THEOREM ConnectionTyped == Spec => []TypeOK
  <1>1. IInv => TypeOK
    BY DEF IInv
  <1> QED BY <1>1, Invariance, PTL

\* The strand keeps the handlers of a connection apart although each starts its
\* successor's operation before it returns: for any number of connections and
\* threads at most one thread is inside a connection, and no handler is lost or
\* doubled between the io_service's queue, the strand and the threads.
THEOREM HandlersExclusive == Spec => []OneHandler
  <1>1. ASSUME HandlersSound
        PROVE  OneHandler
    <2> SUFFICES ASSUME NEW c \in Conns
                 PROVE  /\ Cardinality({t \in Threads : run[t] = c}) <= 1
                        /\ c \in strand_ => {t \in Threads : run[t] = c} # {}
                        /\ Cardinality({i \in DOMAIN queue : queue[i] = c})
                              + Cardinality({t \in Threads : run[t] = c} \ ending)
                              + Cardinality({c} \cap strand_) = IF phase[c] \in Done THEN 1 ELSE 0
      BY DEF OneHandler, Done
    <2>1. PICK P : P = {i \in DOMAIN queue : queue[i] = c}
      OBVIOUS
    <2>2. PICK T : T = {t \in Threads : run[t] = c}
      OBVIOUS
    <2>3. PICK W : W = {c} \cap strand_
      OBVIOUS
    <2>4. Cardinality({}) = 0 /\ \A x : Cardinality({x}) = 1
      BY FS_EmptySet, FS_Singleton
    <2>5. c # NoConn
      BY NoConnNotConn
    <2>6. \A t \in T : T = {t}
      BY <1>1, <2>2, <2>5 DEF HandlersSound
    <2>7. \A i \in P : P = {i}
      BY <1>1, <2>1 DEF HandlersSound
    <2>8. Queued(c) <=> P # {}
      BY <2>1 DEF Queued
    <2>9. Acting(c) <=> T \ ending # {}
      BY <2>2 DEF Acting
    <2>10. Cardinality(T) <= 1
      <3>1. CASE T = {}
        BY <2>4, <3>1
      <3>2. ASSUME NEW t \in T
            PROVE  Cardinality(T) = 1
        <4>1. T = {t}
          BY <2>6
        <4> QED BY <2>4, <4>1
      <3> QED BY <3>1, <3>2
    <2>11. c \in strand_ => T # {}
      BY <1>1, <2>2 DEF HandlersSound
    <2>12. /\ Cardinality(P) = IF Queued(c) THEN 1 ELSE 0
           /\ Cardinality(T \ ending) = IF Acting(c) THEN 1 ELSE 0
           /\ Cardinality(W) = IF c \in strand_ THEN 1 ELSE 0
      <3>1. Cardinality(P) = IF Queued(c) THEN 1 ELSE 0
        BY <2>4, <2>7, <2>8
      <3>2. Cardinality(T \ ending) = IF Acting(c) THEN 1 ELSE 0
        <4>1. CASE Acting(c)
          <5>1. PICK t \in T : t \notin ending
            BY <2>9, <4>1
          <5>2. T \ ending = {t}
            BY <2>6, <5>1
          <5> QED BY <2>4, <4>1, <5>2
        <4>2. CASE ~Acting(c)
          BY <2>4, <2>9, <4>2
        <4> QED BY <4>1, <4>2
      <3>3. Cardinality(W) = IF c \in strand_ THEN 1 ELSE 0
        <4>1. W = IF c \in strand_ THEN {c} ELSE {}
          BY <2>3
        <4> QED BY <2>4, <4>1
      <3> QED BY <3>1, <3>2, <3>3
    <2>13. /\ phase[c] \in Done <=> Queued(c) \/ Acting(c) \/ c \in strand_
           /\ c \in strand_ => ~Queued(c) /\ ~Acting(c)
           /\ Queued(c) => ~Acting(c)
      BY <1>1 DEF HandlersSound
    <2>14. Cardinality(P) + Cardinality(T \ ending) + Cardinality(W)
              = IF phase[c] \in Done THEN 1 ELSE 0
      BY <2>12, <2>13
    <2> QED BY <2>1, <2>2, <2>3, <2>10, <2>11, <2>14
  <1>2. IInv => OneHandler
    BY <1>1 DEF IInv
  <1> QED BY <1>2, Invariance, PTL

\* A client that sends well-formed requests one at a time has, as its i-th
\* response, the answer to its i-th request alone, in any fragmentation and
\* for any number of requests.
THEOREM AnswersMatch == Spec => []MatchedAnswers
  <1>1. IInv => MatchedAnswers
    BY DEF IInv, AnswersSound, Matched, MatchedAnswers
  <1> QED BY <1>1, Invariance, PTL

\* The server closes a connection only for one of the reasons its handlers
\* have: an error, a request that asked for it, or a refused first request.
THEOREM ClosingIsJustified == Spec => ClosedForAReason
  <1> DEFINE Reason(c) ==
        \/ err[c]
        \/ ~ssl /\ Len(sent[c]) > 0 /\ sent[c][Len(sent[c])] = "close"
        \/ ~ssl /\ response_[c].status = "bad_request" /\ 1 \in response_[c].of
  <1>1. ASSUME IInv, [Next]_vars, NEW d \in Conns, phase[d] # "closed", phase'[d] = "closed"
        PROVE  Reason(d)
    <2>1. TypeOK
      BY <1>1 DEF IInv
    <2>2. ASSUME NEW c \in Conns, c # d,
                 Client(c) \/ Accept(c) \/ Operation(c) \/ \E t \in Threads : Handler(t, c)
          PROVE  FALSE
      BY <1>1, <2>1, <2>2, OthersSame DEF Same
    <2>3. ~(Client(d) \/ Accept(d) \/ Operation(d))
      BY <1>1, <2>1 DEF TypeOK, Client, PeerGone, Send, Accept, Operation, HandshakeOk, HandshakeFails,
                        ReadSome, ReadFails, WriteAll, WriteFails, Complete
    <2>4. ASSUME NEW t \in Threads, Handler(t, d)
          PROVE  Reason(d)
      <3>1. CASE HandshakeDone(t, d)
        BY <1>1, <2>1, <3>1 DEF HandshakeDone, Begin, TypeOK
      <3>2. CASE ReadError(t, d)
        BY <3>2 DEF ReadError
      <3>3. CASE WriteDoneClose(t, d)
        <4>1. phase[d] = "write_done" /\ proc = "running"
          BY <3>3 DEF WriteDoneClose, Handles
        <4>2. err[d] \/ (~ssl /\ option[d] = "c")
          BY <3>3 DEF WriteDoneClose
        <4> QED BY <1>1, <4>1, <4>2 DEF IInv, OptionSound, AskedToClose, FirstRequest
      <3>4. CASE Escape(t, d)
        BY <1>1, <3>4 DEF Escape
      <3>5. CASE ReadMore(t, d) \/ Serve(t, d) \/ Refuse(t, d) \/ WriteDone(t, d)
        BY <1>1, <2>1, <3>5 DEF ReadMore, Serve, Refuse, WriteDone, Begin, TypeOK
      <3> QED BY <2>4, <3>1, <3>2, <3>3, <3>4, <3>5 DEF Handler
    <2>5. ~(\E t \in Threads : Dispatch(t) \/ Return(t)) /\ ~UNCHANGED vars
      BY <1>1 DEF Dispatch, Return, vars
    <2> QED BY <1>1, <2>2, <2>3, <2>4, <2>5 DEF Next, Finished
  <1>2. IInv /\ [Next]_vars =>
          [\A c \in Conns : phase[c] # "closed" /\ phase'[c] = "closed" => Reason(c)]_vars
    BY <1>1
  <1> QED BY <1>2, Invariance, PTL DEF Spec, ClosedForAReason
=============================================================================
