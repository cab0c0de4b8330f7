---------------------------- MODULE RequestData -----------------------------
(***************************************************************************)
(* What a complete request is turned into before a route sees it:          *)
(* parse_params, parse_cookies and parse_content of request_parser, and    *)
(* the codec they use.  Pure functions of the text of the request.         *)
(*                                                                         *)
(* Bytes are classes of bytes, and some bytes stand for words the code     *)
(* looks for: "G" the method GET, "P" POST (and the P of HTTP), and the    *)
(* names of headers "L" Content-Length, "C" Cookie, "Y" Content-Type, "Z"  *)
(* Accept-Encoding.  "F" is application/x-www-form-urlencoded, "M"         *)
(* multipart/form-data, "m" what that has after 8 bytes, "B" boundary=,    *)
(* "N" name=", "E" file, "D" the rest of a Content-Disposition, "zip" is   *)
(* gzip, deflate.  A byte like "forum/index" is the path of a route after  *)
(* its /dir, one like "html" the name of a file or a parameter.            *)
(* Of the other bytes "a" is any ordinary one that is no hexadecimal       *)
(* digit, "{" any tspecial, "nul" any control byte, "hi" one above 127.    *)
(***************************************************************************)
EXTENDS Integers, Sequences, FiniteSets, SequencesExt

Digits == {"0", "1", "2", "5", "6"}
Value(d) ==
    CASE d = "0" -> 0 [] d = "1" -> 1 [] d = "2" -> 2 [] d = "5" -> 5 [] d = "6" -> 6
HexDigits == Digits \cup {"e"}

Ctl == {"ht", "cr", "lf", "nul"}
Tspecial == {"sp", "ht", "?", "=", ":", "/", ";", "q", "{"}
Ordinary == Digits \cup {"G", "P", "L", "C", "Y", "Z", "a", "e", "H", "T", ".", "&", "%", "+", "-",
             "title", "content"}
RouteWords ==
    {"forum/index", "_forum/index", "forum/show", "_forum/show", "forum/form", "_forum/form",
     "forum/del", "forum/post", "user/signin", "user/auth", "user/signup", "user/post",
     "user/signout", "performance/test"}
Words == {"F", "M", "m", "B", "N", "E", "D", "zip", "index", "dir_forum_index", "html", "png"} \cup RouteWords
Bytes == Ctl \cup Tspecial \cup Ordinary \cup Words \cup {"hi"}

\* is_char(c) && !is_ctl(c) && !is_tspecial(c)
IsToken(ch) == ch \in Ordinary

Pair(n, v) == [name |-> n, value |-> v]

\* The value of the first pair of that name, or the empty string.  If there is
\* none header(), cookie() and param() add an empty one, which reads the same.
Lookup(pairs, name) ==
    LET i == SelectInSeq(pairs, LAMBDA p : p.name = name) IN
    IF i = 0 THEN <<>> ELSE pairs[i].value

-----------------------------------------------------------------------------
(* Strings                                                                 *)

From(w, i) == SubSeq(w, i, Len(w))
Before(w, i) == SubSeq(w, 1, i - 1)

\* w.find_first_of(set): a position, or 0.
FirstOf(w, set) == SelectInSeq(w, LAMBDA ch : ch \in set)

\* w.find(s, from): a position, or 0.
Find(w, s, from) ==
    LET at == {i \in from .. Len(w) - Len(s) + 1 : SubSeq(w, i, i + Len(s) - 1) = s} IN
    IF at = {} THEN 0 ELSE CHOOSE i \in at : \A j \in at : i <= j

\* The pieces between separators, as many as there are separators and one.
Pieces(w, sep) ==
    FoldLeft(LAMBDA ps, ch : IF ch = sep THEN Append(ps, <<>>)
                             ELSE Append(Front(ps), Append(Last(ps), ch)),
             << <<>> >>, w)

\* split(): getline gives no last piece that is empty.
Split(w, sep) ==
    LET ps == Pieces(w, sep) IN IF Last(ps) = <<>> THEN Front(ps) ELSE ps

ExtractBetween(w, s1, s2) ==
    LET i == Find(w, s1, 1)
        limit == Find(w, s2, i + Len(s1))
    IN IF i = 0 \/ limit = 0 THEN <<>> ELSE SubSeq(w, i + Len(s1), limit - 1)

\* hex2char, in classes of bytes.
Hex2char(first, second) ==
    CASE first \in {"0", "1"} -> "nul"
      [] <<first, second>> = <<"2", "0">> -> "sp"
      [] <<first, second>> = <<"2", "2">> -> "q"
      [] <<first, second>> = <<"2", "5">> -> "%"
      [] <<first, second>> = <<"2", "6">> -> "&"
      [] <<first, second>> = <<"2", "e">> -> "."
      [] first = "e" -> "hi"
      [] OTHER -> "a"

\* A % that two hexadecimal digits do not follow is passed through.
PercentDecode(w) ==
    LET decode[i \in 1 .. Len(w) + 1] ==
          IF i > Len(w) THEN <<>>
          ELSE IF w[i] = "+" THEN <<"sp">> \o decode[i + 1]
          ELSE IF w[i] = "%" /\ i + 2 <= Len(w) /\ {w[i + 1], w[i + 2]} \subseteq HexDigits
          THEN <<Hex2char(w[i + 1], w[i + 2])>> \o decode[i + 3]
          ELSE <<w[i]>> \o decode[i + 1]
    IN decode[1]

Decoded(p) == Pair(PercentDecode(p.name), PercentDecode(p.value))

-----------------------------------------------------------------------------
(* parse_params                                                            *)

\* The uri has the query at its end.
RestParams(uri) == Tail(Split(PercentDecode(uri), "/"))

Params(params) == [i \in DOMAIN params |-> Decoded(params[i])]

-----------------------------------------------------------------------------
(* parse_cookies                                                           *)

\* Seeded fault: the blank after a ";" becomes part of the next name.
ParseCookieKeepsBlanks(piece) ==
    LET pos == FirstOf(piece, {"="}) IN
    IF pos = 0 THEN <<>> ELSE <<Pair(Before(piece, pos), From(piece, pos + 1))>>

\* A piece without "=" is skipped, blanks before the name are dropped.
ParseCookie(piece) ==
    LET pos == FirstOf(piece, {"="})
        start == SelectInSeq(piece, LAMBDA ch : ch \notin {"sp", "ht"})
    IN IF pos = 0 THEN <<>>
       ELSE <<Pair(SubSeq(piece, start, pos - 1), From(piece, pos + 1))>>

ParseCookies(data) ==
    LET pieces == Pieces(data, ";") IN
    IF data = <<>> THEN <<>>
    ELSE FlattenSeq([i \in DOMAIN pieces |-> ParseCookie(pieces[i])])

-----------------------------------------------------------------------------
(* parse_content                                                           *)

\* The pairs of a form; a last name without "=" is dropped.
FormPairs(w) ==
    LET pairs[i \in 1 .. Len(w) + 2] ==
          LET rest == From(w, i)
              pos == FirstOf(rest, {"&", "="})
              name == Before(rest, pos)
              after == From(rest, pos + 1)
              limit == FirstOf(after, {";", "&"})
          IN IF pos = 0 THEN <<>>
             ELSE IF rest[pos] = "&" /\ pos = 1 THEN pairs[i + 1]
             ELSE IF rest[pos] = "&" THEN <<Decoded(Pair(name, <<>>))>> \o pairs[i + pos]
             ELSE IF limit = 0 THEN <<Decoded(Pair(name, after))>>
             ELSE <<Decoded(Pair(name, Before(after, limit)))>> \o pairs[i + pos + limit]
    IN pairs[1]

CrLf == <<"cr", "lf">>
EmptyLine == CrLf \o CrLf

\* The name, file name and type in the head of a part, and its value without
\* the line break at its end.
Part(data) ==
    LET limit == Find(data, EmptyLine, 1)
        rest == From(data, limit + 4)
        head == Before(data, limit + 4)
    IN [valid |-> limit > 0,
        name |-> ExtractBetween(head, <<"N">>, <<"q">>),
        filename |-> PercentDecode(ExtractBetween(head, <<"E", "N">>, <<"q">>)),
        filetype |-> ExtractBetween(head, <<"Y", ":", "sp">>, EmptyLine),
        value |-> IF Len(rest) < 2 THEN rest ELSE Before(rest, Len(rest) - 1)]

\* What lies between the boundaries.  Without a first boundary, start +
\* sep_size overflows to sep_size - 1.
Parts(w, boundary) ==
    LET sep1 == <<"-", "-">> \o boundary \o CrLf
        sep2 == <<"-", "-">> \o boundary \o <<"-", "-">> \o CrLf
        parts[i \in 1 .. Len(w) + Len(sep1)] ==
          LET pos == Find(w, sep1, i)
              end == Find(w, sep2, i)
          IN IF pos > 0 THEN <<Part(SubSeq(w, i, pos - 1))>> \o parts[pos + Len(sep1)]
             ELSE IF end > 0 THEN <<Part(SubSeq(w, i, end - 1))>>
             ELSE <<>>
    IN parts[Find(w, sep1, 1) + Len(sep1)]

\* The boundary of a Content-Type, up to its next parameter.  Without "boundary=",
\* pos + b_type.size() overflows to 8, in the middle of multipart/form-data.
Boundary(type) ==
    LET pos == Find(type, <<"B">>, 1)
        after == IF pos = 0 THEN <<"m">> \o Tail(type) ELSE From(type, pos + 1)
    IN IF FirstOf(after, {";"}) = 0 THEN after ELSE Before(after, FirstOf(after, {";"}))

NoContent == [params |-> <<>>, uploads |-> <<>>, throws |-> FALSE]

\* A part whose head does not end throws.
ParseContent(w, type) ==
    CASE w = <<>> -> NoContent
      [] w # <<>> /\ (type = <<>> \/ type[1] = "F") -> [NoContent EXCEPT !.params = FormPairs(w)]
      [] w # <<>> /\ type # <<>> /\ type[1] = "M" ->
             LET ps == Parts(w, Boundary(type)) IN
             [params |-> LET fields == SelectSeq(ps, LAMBDA p : p.filename = <<>>) IN
                         [i \in DOMAIN fields |-> Pair(fields[i].name, fields[i].value)],
              uploads |-> SelectSeq(ps, LAMBDA p : p.filename # <<>>),
              throws |-> \E i \in DOMAIN ps : ~ps[i].valid]
      [] OTHER -> NoContent
=============================================================================
