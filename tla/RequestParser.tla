--------------------------- MODULE RequestParser ----------------------------
(***************************************************************************)
(* request_parser: the automaton of parse(), which reads a request byte by *)
(* byte, out of buffers that end wherever the network cuts them, then      *)
(* parse_params, parse_cookies and parse_content on the complete request,  *)
(* and handle_request.  RequestData says what the bytes stand for.         *)
(***************************************************************************)
EXTENDS RequestHandler

CONSTANTS
    Messages,   \* bound: the messages considered
    Edits,      \* bound: the bytes that may take the place of another
    EditedMessages  \* bound: the messages that are edited

VARIABLES
    message,    \* the request somebody meant to send
    input,      \* the bytes that arrive, edited or not
    begin,      \* how many of them have been consumed
    inside,     \* a call of parse() is active, and has bytes left
    state_, req, result,  \* the parser, the request, the tribool
    data,       \* what the request is decoded to
    answer      \* the response to it

vars == <<message, input, begin, inside, state_, req, result, data, answer>>

\* strtol(v, nullptr, 0): leading blanks, then digits, octal after a zero.
Strtol(v) ==
    LET first == SelectInSeq(v, LAMBDA ch : ch # "sp")
        digits == IF first = 0 THEN <<>> ELSE SubSeq(v, first, Len(v))
        stop == SelectInSeq(digits, LAMBDA ch : ch \notin Digits)
        number == IF stop = 0 THEN digits ELSE SubSeq(digits, 1, stop - 1)
        base == IF number # <<>> /\ number[1] = "0" THEN 8 ELSE 10
    IN FoldLeft(LAMBDA n, d : base * n + Value(d), 0, number)

-----------------------------------------------------------------------------
(* The request, and what the cases of parse() do to it.  s is the state of *)
(* the parser, the request and the result.                                 *)

EmptyRequest ==
    [method |-> <<>>, uri |-> <<>>, params |-> <<>>, major |-> 0, minor |-> 0,
     headers |-> <<>>, content |-> <<>>, content_length |-> 0]

NameValue == [name |-> <<>>, value |-> <<>>]

Goto(s, q) == [s EXCEPT !.state = q]
Verdict(s, r) == [s EXCEPT !.result = r]
Invalid(s) == Verdict(s, "false")

\* req.f.push_back(ch), req.f.push_back(name_value()) and
\* req.f.back().part.push_back(ch)
Push(s, f, ch) == [s EXCEPT !.req[f] = Append(@, ch)]
PushPair(s, f) == [s EXCEPT !.req[f] = Append(@, NameValue)]
PushBack(s, f, part, ch) ==
    [s EXCEPT !.req[f][Len(s.req[f])][part] = Append(@, ch)]

Header(r, name) == Lookup(r.headers, name)

\* States that accept one byte, and the state they lead to.
VersionLiteral ==
    [http_version_h |-> [ch |-> "H", to |-> "http_version_t_1"],
     http_version_t_1 |-> [ch |-> "T", to |-> "http_version_t_2"],
     http_version_t_2 |-> [ch |-> "T", to |-> "http_version_p"],
     http_version_p |-> [ch |-> "P", to |-> "http_version_slash"],
     http_version_slash |-> [ch |-> "/", to |-> "http_version_major_start"]]

HeaderLiteral ==
    [expecting_newline_1 |-> [ch |-> "lf", to |-> "header_line_start"],
     space_before_header_value |-> [ch |-> "sp", to |-> "header_value"],
     expecting_newline_2 |-> [ch |-> "lf", to |-> "header_line_start"]]

Literal ==
    [q \in DOMAIN VersionLiteral \cup DOMAIN HeaderLiteral |->
        IF q \in DOMAIN VersionLiteral THEN VersionLiteral[q] ELSE HeaderLiteral[q]]

OnLiteral(s, ch) ==
    IF ch = Literal[s.state].ch THEN Goto(s, Literal[s.state].to) ELSE Invalid(s)

OnMethod(s, ch) ==
    CASE s.state = "method" /\ ch = "sp" -> Goto(s, "uri")
      [] IsToken(ch) -> Goto(Push(s, "method", ch), "method")
      [] OTHER -> Invalid(s)

OnUri(s, ch) ==
    CASE ch = "?" -> Goto(Push(s, "uri", ch), "param_name_start")
      [] ch = "sp" -> Goto(s, "http_version_h")
      [] ch \in Ctl -> Invalid(s)
      [] OTHER -> Push(s, "uri", ch)

\* The parameters of the query, which is kept in uri as well.
OnParam(s, ch) ==
    LET part == IF s.state = "param_value" THEN "value" ELSE "name" IN
    CASE ch = "sp" -> Goto(s, "http_version_h")
      [] s.state = "param_name" /\ ch = "=" -> Goto(Push(s, "uri", ch), "param_value")
      [] s.state = "param_value" /\ ch = "&" -> Goto(Push(s, "uri", ch), "param_name_start")
      [] s.state = "param_name_start" /\ IsToken(ch) ->
             Goto(PushBack(PushPair(Push(s, "uri", ch), "params"), "params", "name", ch),
                  "param_name")
      [] s.state # "param_name_start" /\ IsToken(ch) /\ ~(part = "value" /\ ch = "&") ->
             PushBack(Push(s, "uri", ch), "params", part, ch)
      [] OTHER -> Invalid(s)

\* The digits of one number of the version, and the byte that ends it.
OnVersion(s, ch) ==
    LET n == IF s.state \in {"http_version_major_start", "http_version_major"}
             THEN "major" ELSE "minor" IN
    CASE s.state = "http_version_major" /\ ch = "." -> Goto(s, "http_version_minor_start")
      [] s.state = "http_version_minor" /\ ch = "cr" -> Goto(s, "expecting_newline_1")
      [] ch \in Digits ->
             Goto([s EXCEPT !.req[n] = 10 * @ + Value(ch)],
                  IF n = "major" THEN "http_version_major" ELSE "http_version_minor")
      [] OTHER -> Invalid(s)

Blank == {"sp", "ht"}

\* Seeded fault: the byte that begins a header line is not kept.
OnHeaderLineStartDrops(s, ch) ==
    CASE ch = "cr" -> Goto(s, "expecting_newline_3")
      [] ch \in Blank /\ s.req.headers # <<>> -> Goto(s, "header_lws")
      [] IsToken(ch) -> Goto(PushPair(s, "headers"), "header_name")
      [] OTHER -> Invalid(s)

OnHeaderLineStart(s, ch) ==
    CASE ch = "cr" -> Goto(s, "expecting_newline_3")
      [] ch \in Blank /\ s.req.headers # <<>> -> Goto(s, "header_lws")
      [] IsToken(ch) ->
             Goto(PushBack(PushPair(s, "headers"), "headers", "name", ch), "header_name")
      [] OTHER -> Invalid(s)

\* A line that continues the value of the line before.
OnHeaderLws(s, ch) ==
    CASE ch = "cr" -> Goto(s, "expecting_newline_2")
      [] ch \in Blank -> s
      [] ch \in Ctl \ {"cr", "ht"} -> Invalid(s)
      [] OTHER -> Goto(PushBack(s, "headers", "value", ch), "header_value")

OnHeaderName(s, ch) ==
    CASE ch = ":" -> Goto(s, "space_before_header_value")
      [] IsToken(ch) -> PushBack(s, "headers", "name", ch)
      [] OTHER -> Invalid(s)

OnHeaderValue(s, ch) ==
    CASE ch = "cr" -> Goto(s, "expecting_newline_2")
      [] ch \in Ctl \ {"cr"} -> Invalid(s)
      [] OTHER -> PushBack(s, "headers", "value", ch)

\* The empty line: the end of a GET; before the content of a POST.
OnHeadEnd(s, ch) ==
    LET length == Header(s.req, <<"L">>) IN
    CASE ch = "lf" /\ s.req.method = <<"G">> -> Verdict(s, "true")
      [] ch = "lf" /\ s.req.method = <<"P">> /\ length # <<>> ->
             Goto([s EXCEPT !.req.content_length = Strtol(length)], "content_start")
      [] OTHER -> Invalid(s)

\* content_length counts down, and is restored when it reaches zero.
Counted(s, ch) ==
    LET t == Push([s EXCEPT !.req.content_length = @ - 1], "content", ch) IN
    IF t.req.content_length = 0
    THEN Verdict([t EXCEPT !.req.content_length = Strtol(Header(s.req, <<"L">>))], "true")
    ELSE Goto(t, "content")

OnContent(s, ch) ==
    IF s.state = "content_start" /\ (s.req.content # <<>> \/ ~IsToken(ch))
    THEN Invalid(s)
    ELSE Counted(s, ch)

\* One iteration of the loop of parse(), on byte ch.
Iteration(s, ch) ==
    CASE s.state \in DOMAIN Literal -> OnLiteral(s, ch)
      [] s.state \in {"method_start", "method"} -> OnMethod(s, ch)
      [] s.state = "uri" -> OnUri(s, ch)
      [] s.state \in {"param_name_start", "param_name", "param_value"} -> OnParam(s, ch)
      [] s.state \in {"http_version_major_start", "http_version_major",
                      "http_version_minor_start", "http_version_minor"} -> OnVersion(s, ch)
      [] s.state = "header_line_start" -> OnHeaderLineStart(s, ch)
      [] s.state = "header_lws" -> OnHeaderLws(s, ch)
      [] s.state = "header_name" -> OnHeaderName(s, ch)
      [] s.state = "header_value" -> OnHeaderValue(s, ch)
      [] s.state = "expecting_newline_3" -> OnHeadEnd(s, ch)
      [] s.state \in {"content_start", "content"} -> OnContent(s, ch)
      [] OTHER -> Invalid(s)

-----------------------------------------------------------------------------
(* The messages a browser sends.  A message has a path of segments, the    *)
(* pairs of a query, cookies, other headers, and a form or a plain body.   *)

JoinWith(seqs, sep) ==
    IF seqs = <<>> THEN <<>>
    ELSE FoldLeft(LAMBDA w, x : w \o sep \o x, Head(seqs), Tail(seqs))

Escape(ch) ==
    CASE ch = "sp" -> <<"%", "2", "0">> [] ch = "%" -> <<"%", "2", "5">>
      [] ch = "&" -> <<"%", "2", "6">> [] OTHER -> <<ch>>

Encode(w) == FlattenSeq([i \in DOMAIN w |-> Escape(w[i])])
EncodePair(p) == Pair(Encode(p.name), Encode(p.value))
RenderPairs(ps, sep) ==
    JoinWith([i \in DOMAIN ps |-> ps[i].name \o <<"=">> \o ps[i].value], sep)

EncodePairs(ps) == [i \in DOMAIN ps |-> EncodePair(ps[i])]

\* Some clients encode the dots of a path, too.
EncodeSegment(w, encode_dots) ==
    FlattenSeq([i \in DOMAIN w |-> IF w[i] = "." /\ encode_dots THEN <<"%", "2", "e">> ELSE Escape(w[i])])

RenderUri(m) ==
    <<"/">> \o JoinWith([i \in DOMAIN m.path |-> EncodeSegment(m.path[i], m.encode_dots)], <<"/">>)
    \o (IF m.query = <<>> THEN <<>> ELSE <<"?">> \o RenderPairs(EncodePairs(m.query), <<"&">>))

RenderPart(head, value) == <<"-", "-", "a">> \o CrLf \o head \o EmptyLine \o value \o CrLf

RenderMultipart(f) ==
    FlattenSeq([i \in DOMAIN f.params |->
        RenderPart(<<"D", "N">> \o f.params[i].name \o <<"q">>, f.params[i].value)])
    \o FlattenSeq([i \in DOMAIN f.uploads |->
        RenderPart(<<"D", "N">> \o f.uploads[i].name \o <<"q", ";", "E", "N">>
                   \o f.uploads[i].filename \o <<"q">> \o CrLf
                   \o <<"Y", ":", "sp">> \o f.uploads[i].filetype, f.uploads[i].value)])
    \o <<"-", "-", "a", "-", "-">> \o CrLf

\* A form: its pairs, encoded or in parts, and the files sent with it.
Content(m) ==
    CASE m.form.type = "plain" -> m.form.text
      [] m.form.type = "urlencoded" -> RenderPairs(EncodePairs(m.form.params), <<"&">>)
      [] m.form.type = "multipart" -> RenderMultipart(m.form)

\* The numeral of n, whose digits are among Digits.
Numeral(n) ==
    LET digit(d) == CHOOSE ch \in Digits : Value(ch) = d IN
    IF n < 10 THEN <<digit(n)>> ELSE <<digit(n \div 10), digit(n % 10)>>

ContentTypes(m) ==
    CASE m.form.type = "plain" -> <<>>
      [] m.form.type = "urlencoded" -> << Pair(<<"Y">>, <<"F">>) >>
      [] m.form.type = "multipart" -> << Pair(<<"Y">>, <<"M", ";", "sp", "B", "a">>) >>

Headers(m) ==
    m.fields
    \o (IF m.cookies = <<>> THEN <<>>
        ELSE << Pair(<<"C">>, RenderPairs(m.cookies, <<";", "sp">>)) >>)
    \o (IF m.method = <<"G">> THEN <<>>
        ELSE ContentTypes(m) \o << Pair(<<"L">>, Numeral(Len(Content(m)))) >>)

RenderHeaders(hs) ==
    FlattenSeq([i \in DOMAIN hs |-> hs[i].name \o <<":", "sp">> \o hs[i].value \o CrLf])

Render(m) ==
    m.method \o <<"sp">> \o RenderUri(m)
    \o <<"sp", "H", "T", "T", "P", "/", "1", ".", "1">> \o CrLf
    \o RenderHeaders(Headers(m)) \o CrLf \o Content(m)

\* One byte replaced, put in or left out.
Edited(w) ==
    {[w EXCEPT ![i] = ch] : i \in DOMAIN w, ch \in Edits}
    \cup {InsertAt(w, i, ch) : i \in DOMAIN w, ch \in Edits}
    \cup {RemoveAt(w, i) : i \in DOMAIN w}

ASSUME BytesAssumption == Edits \subseteq Bytes /\ \A m \in Messages : Render(m) \in Seq(Bytes)

NoData == [kind |-> "none", rest_params |-> <<>>, params |-> <<>>, cookies |-> <<>>,
           uploads |-> <<>>]

\* The file opened and whether the session was signed in are history.
NoAnswer == [res |-> NewResponse, opened |-> <<>>, signed_in |-> FALSE]

\* A message, alone or with the beginning of the next, or an edited one.
Init ==
    /\ message \in Messages
    /\ input \in {Render(message), Render(message) \o <<"G", "sp">>}
                 \cup (IF message \in EditedMessages THEN Edited(Render(message)) ELSE {})
    /\ begin = 0 /\ inside = FALSE
    /\ state_ = "method_start" /\ req = EmptyRequest /\ result = "indeterminate"
    /\ data = NoData /\ answer = NoAnswer

-----------------------------------------------------------------------------
(* The calls                                                               *)

\* Seeded fault: every buffer is taken for the start of a request.
CallResets ==
    /\ ~inside /\ result = "indeterminate" /\ begin < Len(input)
    /\ inside' = TRUE
    /\ state_' = "method_start"
    /\ UNCHANGED <<message, input, begin, req, result, data, answer>>

\* do_read has the next bytes, and calls parse().
Call ==
    /\ ~inside /\ result = "indeterminate" /\ begin < Len(input)
    /\ inside' = TRUE
    /\ UNCHANGED <<message, input, begin, state_, req, result, data, answer>>

\* One byte; the call returns with a verdict, or at the end of the buffer,
\* wherever that is, or goes on.
Iterate ==
    /\ inside
    /\ begin' = begin + 1
    /\ LET s == Iteration([state |-> state_, req |-> req, result |-> result],
                          input[begin + 1]) IN
       /\ state_' = s.state /\ req' = s.req /\ result' = s.result
       /\ \/ inside' = FALSE
          \/ s.result = "indeterminate" /\ begin + 1 < Len(input) /\ inside' = TRUE
    /\ UNCHANGED <<message, input, data, answer>>

\* do_read: parse_params, parse_cookies, parse_content.  The first erases the
\* first item of rest_params: undefined behaviour if the uri is empty.
Decode ==
    /\ ~inside /\ result = "true" /\ data = NoData
    /\ LET c == ParseContent(req.content, Header(req, <<"Y">>)) IN
       data' = IF Split(PercentDecode(req.uri), "/") = <<>> THEN [NoData EXCEPT !.kind = "undefined"]
               ELSE IF c.throws THEN [NoData EXCEPT !.kind = "throws"]
               ELSE [kind |-> "request", rest_params |-> RestParams(req.uri),
                     params |-> Params(req.params) \o c.params,
                     cookies |-> ParseCookies(Header(req, <<"C">>)), uploads |-> c.uploads]
    /\ UNCHANGED <<message, input, begin, inside, state_, req, result, answer>>

\* do_read: handle_request.
Handle ==
    /\ data.kind = "request" /\ answer = NoAnswer
    /\ \E env \in Environments :
        LET handled == HandleRequest([uri |-> req.uri, headers |-> req.headers, params |-> data.params], env)
        IN  answer' = [res |-> handled.res, opened |-> handled.opened, signed_in |-> env.signed_in]
    /\ UNCHANGED <<message, input, begin, inside, state_, req, result, data>>

\* An answer, an error, or nothing more to read.
Done ==
    /\ ~inside
    /\ \/ result = "true" /\ data # NoData
       \/ result = "false"
       \/ result = "indeterminate" /\ begin = Len(input)
    /\ UNCHANGED vars

Next == Call \/ Iterate \/ Decode \/ Handle \/ Done

Spec == Init /\ [][Next]_vars

-----------------------------------------------------------------------------
(* Properties                                                              *)

States ==
    DOMAIN Literal \cup
    {"method_start", "method", "uri", "param_name_start", "param_name", "param_value",
     "http_version_major_start", "http_version_major", "http_version_minor_start",
     "http_version_minor", "header_line_start", "header_lws", "header_name",
     "header_value", "expecting_newline_3", "content_start", "content"}

\* The types of the variables; the parser is only in states it has a case for.
TypeOK ==
    /\ message \in Messages
    /\ input \in Seq(Bytes) /\ begin \in 0 .. Len(input) /\ inside \in BOOLEAN
    /\ state_ \in States
    /\ result \in {"true", "false", "indeterminate"}
    /\ DOMAIN req = DOMAIN EmptyRequest
    /\ \A f \in {"method", "uri", "content"} : req[f] \in Seq(Bytes)
    /\ \A f \in {"params", "headers"} : \A i \in DOMAIN req[f] :
          req[f][i].name \in Seq(Bytes) /\ req[f][i].value \in Seq(Bytes)
    /\ req.major \in Nat /\ req.minor \in Nat /\ req.content_length \in Int
    /\ data.kind \in {"none", "request", "throws", "undefined"}

\* The input begins with the message as it was meant.
Intact == IsPrefix(Render(message), input)

\* request_parser.hpp: the result "is true when a complete request has been
\* parsed, false if the data is invalid, indeterminate when more data is
\* required": of a well-formed message, in whatever pieces it arrives, exactly
\* its bytes are consumed, and the last one gives the result true.  (A POST with an
\* empty content breaks it, for content_start waits for a byte: EmptyMessages.)
CompleteIsTrue ==
    Intact =>
        LET n == Len(Render(message)) IN
        IF begin < n THEN result = "indeterminate" ELSE begin = n /\ result = "true"

\* A message that has been accepted is the one that was sent: method, path and
\* query, every header and the content, none of it split, merged or lost.
ParsedAsSent ==
    Intact /\ result = "true" =>
        /\ req.method = message.method /\ req.uri = RenderUri(message)
        /\ req.params = EncodePairs(message.query)
        /\ req.headers = Headers(message)
        /\ req.content = Content(message)
        /\ req.method = <<"P">> => req.content_length = Len(req.content)

\* The path's segments; a "/" at its end begins none.
SegmentsOf(m) == IF m.path # <<>> /\ Last(m.path) = <<>> THEN Front(m.path) ELSE m.path

\* What the user typed is what the route reads: the pairs of the query and of
\* the form, in order, the cookies, the files and, where there is no query, the
\* segments of the path, whatever bytes of the syntax they contain.
DecodedAsSent ==
    Intact /\ data # NoData =>
        /\ data.kind = "request"
        /\ message.query = <<>> => data.rest_params = SegmentsOf(message)
        /\ data.params = message.query \o message.form.params
        /\ data.cookies = message.cookies
        /\ [i \in DOMAIN data.uploads |-> [name |-> data.uploads[i].name, value |-> data.uploads[i].value,
               filename |-> data.uploads[i].filename, filetype |-> data.uploads[i].filetype]]
           = message.form.uploads

\* A request reaches its route as the client sent it: parsed and then decoded.
ReadAsSent == ParsedAsSent /\ DecodedAsSent

\* The bytes w are the numeral of n.
IsNumeral(w, n) ==
    LET value[i \in 0 .. Len(w)] == IF i = 0 THEN 0 ELSE 10 * value[i - 1] + Value(w[i])
    IN  w # <<>> /\ Range(w) \subseteq Digits /\ value[Len(w)] = n

Folded == \E i \in 1 .. begin - 1 : input[i] = "lf" /\ input[i + 1] \in Blank

\* Whatever arrives, an accepted request is what the consumed bytes say: put
\* together again, its parts are those bytes.  (Continuation lines, which
\* lose their break, aside.)
NothingLost ==
    result = "true" /\ ~Folded =>
        LET consumed == SubSeq(input, 1, begin)
            head == req.method \o <<"sp">> \o req.uri \o <<"sp", "H", "T", "T", "P", "/">>
            tail == CrLf \o RenderHeaders(req.headers) \o CrLf \o req.content
            version == SubSeq(consumed, Len(head) + 1, Len(consumed) - Len(tail))
            dot == SelectInSeq(version, LAMBDA ch : ch = ".")
        IN /\ consumed = head \o version \o tail
           /\ dot > 0
           /\ IsNumeral(SubSeq(version, 1, dot - 1), req.major)
           /\ IsNumeral(SubSeq(version, dot + 1, Len(version)), req.minor)

\* The file a request asks for.
Requested(m) == FullPath(<<"/">> \o JoinWith(m.path, <<"/">>))

\* "Request path must be absolute and not contain '..'": no file is opened outside
\* doc_root, however its path was encoded.
UnderRoot ==
    answer.opened # <<>> => answer.opened[1] = "/" /\ Find(answer.opened, <<".", ".">>, 1) = 0

\* request_handler.cpp validates the path that get_file then opens: the file opened is
\* under doc_root, and it is the one the client named, for the path is decoded once.
ServedUnderRoot ==
    /\ UnderRoot
    /\ answer.opened # <<>> /\ Intact /\ message.query = <<>> => answer.opened = Requested(message)

\* A client on a kept connection finds the end of an answer by its length: every
\* answer has one Content-Length, of the content as it is sent, compressed once
\* if the header says so, and an answer to a failure sets no cookie of the route.
AnswerFramed ==
    answer # NoAnswer =>
        LET hs == answer.res.headers
            Of(name) == {i \in DOMAIN hs : hs[i].name = name}
        IN /\ \E i \in DOMAIN hs : Of("Content-Length") = {i} /\ hs[i].value = answer.res.content
           /\ (Of("Content-Encoding") # {})
                  <=> (answer.res.content # <<>> /\ Head(answer.res.content) = "gzip")
           /\ answer.res.status # "ok" => Of("Set-Cookie") = {}

\* Whoever is not signed in gets nothing the database has of the forum, by whatever
\* uri, encoded or with anything after it, a route is reached, and no page of it.  The
\* templates are under doc_root, so get_file hands one to anybody who names it: then
\* it is the whole answer, without the scripts that load the posts.
GuestsGetTemplatesOnly ==
    answer # NoAnswer /\ ~answer.signed_in =>
        LET pieces == Range(answer.res.content) IN
        /\ pieces \cap ForumData = {}
        /\ pieces \cap ForumTemplates # {} =>
              answer.opened \in DOMAIN Files /\ pieces \subseteq {"gzip", Files[answer.opened]}
=============================================================================
