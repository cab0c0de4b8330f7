------------------------- MODULE RequestParserProofs -------------------------
(***************************************************************************)
(* Machine-checked proofs about the answers of handle_request, for every   *)
(* uri the parser may accept, every environment and every set of files,    *)
(* and about the parser: what it accepts is what the bytes say, whichever  *)
(* bytes arrive.                                                           *)
(***************************************************************************)
EXTENDS RequestParser, WellFoundedInduction, TLAPS

-----------------------------------------------------------------------------
(* Responses                                                               *)

\* The positions of the headers of that name.
At(hs, name) == {i \in DOMAIN hs : hs[i].name = name}

Forum == ForumTemplates \cup ForumData

\* What AnswerFramed asks of a response.
Framed(res) ==
    /\ \E i \in DOMAIN res.headers : At(res.headers, "Content-Length") = {i} /\ res.headers[i].value = res.content
    /\ (At(res.headers, "Content-Encoding") # {}) <=> (res.content # <<>> /\ Head(res.content) = "gzip")
    /\ res.status # "ok" => At(res.headers, "Set-Cookie") = {}

\* A response that a route has written to, before its headers are filled out.
Fresh(hs, cs, ct, e) == [status |-> "none", headers |-> hs, cookies |-> cs, content |-> ct, ext |-> e]

Statuses == {"unauthorized", "bad_request", "not_found", "internal_server_error"}

\* What a route returns, to a guest or to a user: a static response, or one with
\* a redirection at most among its headers, its session among its cookies, and
\* nothing of the forum for a guest.
Made(res, signed_in) ==
    \/ \E status \in Statuses : res = StaticResponse(status)
    \/ \E hs, cs, ct, e :
          /\ res = Fresh(hs, cs, ct, e)
          /\ hs = <<>> \/ \E url : hs = <<Pair("Refresh", url)>>
          /\ cs = <<>> \/ cs = <<"session">>
          /\ (\E T : ct \in Seq(T)) /\ (ct # <<>> => Head(ct) # "gzip")
          /\ ~signed_in => Range(ct) \cap Forum = {}

\* A header is added after the others, of which there may be any.
LEMMA AppendAny ==
    ASSUME NEW S, NEW hs \in Seq(S), NEW p
    PROVE  /\ Append(hs, p) \in Seq(S \cup {p}) /\ DOMAIN Append(hs, p) = 1 .. Len(hs) + 1
           /\ Append(hs, p)[Len(hs) + 1] = p /\ Len(hs) + 1 \in DOMAIN Append(hs, p)
           /\ Len(hs) \in Nat /\ DOMAIN hs = 1 .. Len(hs)
           /\ \A i \in 1 .. Len(hs) : Append(hs, p)[i] = hs[i]
  <1>1. hs \in Seq(S \cup {p}) /\ p \in S \cup {p} /\ Len(hs) \in Nat
    OBVIOUS
  <1> QED BY <1>1

\* Where a header of another name is added, the ones of this name stay.
LEMMA AtOther ==
    ASSUME NEW S, NEW hs \in Seq(S), NEW p, NEW name, p.name # name
    PROVE  At(Append(hs, p), name) = At(hs, name)
  <1>1. PICK x : x = Append(hs, p)
    OBVIOUS
  <1>2. /\ DOMAIN x = 1 .. Len(hs) + 1 /\ x[Len(hs) + 1] = p /\ Len(hs) \in Nat /\ DOMAIN hs = 1 .. Len(hs)
        /\ \A i \in 1 .. Len(hs) : x[i] = hs[i]
    BY <1>1, AppendAny
  <1>3. ASSUME NEW i
        PROVE  i \in At(x, name) <=> i \in At(hs, name)
    <2>1. CASE i = Len(hs) + 1
      <3>1. i \notin DOMAIN hs /\ x[i] = p
        BY <1>2, <2>1
      <3> QED BY <3>1 DEF At
    <2>2. CASE i # Len(hs) + 1
      <3>1. (i \in DOMAIN x <=> i \in DOMAIN hs) /\ (i \in DOMAIN hs => x[i] = hs[i])
        BY <1>2, <2>2
      <3> QED BY <3>1 DEF At
    <2> QED BY <2>1, <2>2
  <1>4. At(x, name) = At(hs, name)
    BY <1>3
  <1> QED BY <1>1, <1>4

\* The first header of its name is the only one.
LEMMA AtFirst ==
    ASSUME NEW S, NEW hs \in Seq(S), NEW p, NEW name, p.name = name, At(hs, name) = {}
    PROVE  At(Append(hs, p), name) = {Len(hs) + 1}
  <1>1. PICK x : x = Append(hs, p)
    OBVIOUS
  <1>2. /\ DOMAIN x = 1 .. Len(hs) + 1 /\ x[Len(hs) + 1] = p /\ Len(hs) \in Nat /\ DOMAIN hs = 1 .. Len(hs)
        /\ \A i \in 1 .. Len(hs) : x[i] = hs[i]
    BY <1>1, AppendAny
  <1>3. ASSUME NEW i
        PROVE  i \in At(x, name) <=> i = Len(hs) + 1
    <2>1. CASE i = Len(hs) + 1
      <3>1. i \in DOMAIN x /\ x[i] = p
        BY <1>2, <2>1
      <3> QED BY <2>1, <3>1 DEF At
    <2>2. CASE i # Len(hs) + 1
      <3>1. (i \in DOMAIN x <=> i \in DOMAIN hs) /\ (i \in DOMAIN hs => x[i] = hs[i])
        BY <1>2, <2>2
      <3>2. i \notin At(hs, name)
        OBVIOUS
      <3> QED BY <2>2, <3>1, <3>2 DEF At
    <2> QED BY <2>1, <2>2
  <1>4. At(x, name) = {Len(hs) + 1}
    BY <1>3
  <1> QED BY <1>1, <1>4

\* The texts of a status have their length and no cookie.
LEMMA StaticFramed ==
    ASSUME NEW status \in Statuses
    PROVE  Framed(StaticResponse(status)) /\ Range(StaticResponse(status).content) \cap Forum = {}
  <1>1. PICK res : res = StaticResponse(status)
    OBVIOUS
  <1>2. PICK hs : hs = <<Pair("Content-Length", <<status>>), Pair("Content-Type", "text/html"),
                         Pair("Keep-Alive", "timeout=0, max=0")>>
    OBVIOUS
  <1>3. res = [status |-> status, headers |-> hs, cookies |-> <<>>, content |-> <<status>>, ext |-> <<>>]
    BY <1>1, <1>2 DEF StaticResponse, NewResponse
  <1>4. /\ DOMAIN hs = {1, 2, 3} /\ hs[1].name = "Content-Length" /\ hs[1].value = <<status>>
        /\ hs[2].name = "Content-Type" /\ hs[3].name = "Keep-Alive"
    <2>1. PICK p, q, r : /\ p = Pair("Content-Length", <<status>>) /\ q = Pair("Content-Type", "text/html")
                         /\ r = Pair("Keep-Alive", "timeout=0, max=0")
      OBVIOUS
    <2>2. p.name = "Content-Length" /\ p.value = <<status>> /\ q.name = "Content-Type" /\ r.name = "Keep-Alive"
      BY <2>1 DEF Pair
    <2>3. hs = <<p, q, r>>
      BY <1>2, <2>1
    <2>4. DOMAIN hs = {1, 2, 3} /\ hs[1] = p /\ hs[2] = q /\ hs[3] = r
      BY <2>3
    <2> QED BY <2>2, <2>4
  <1>5. /\ At(hs, "Content-Length") = {1} /\ At(hs, "Content-Encoding") = {} /\ At(hs, "Set-Cookie") = {}
    BY <1>4 DEF At
  <1>6. Head(<<status>>) = status /\ status # "gzip" /\ status \notin Forum
    BY DEF Statuses, Forum, ForumTemplates, ForumData
  <1>7. Range(<<status>>) = {status}
    BY DEF Range
  <1>8. Framed(res)
    <2>1. res.headers = hs /\ res.content = <<status>>
      BY <1>3
    <2>2. 1 \in DOMAIN hs
      BY <1>4
    <2> QED BY <1>4, <1>5, <1>6, <2>1, <2>2 DEF Framed
  <1>9. Range(res.content) \cap Forum = {}
    BY <1>3, <1>6, <1>7
  <1> QED BY <1>1, <1>8, <1>9

\* The headers that handle_request adds to what a route has made.
LEMMA FillOutFramed ==
    ASSUME NEW hs, NEW cs, NEW ct, NEW e, NEW r, NEW env,
           hs = <<>> \/ \E url : hs = <<Pair("Refresh", url)>>,
           cs = <<>> \/ cs = <<"session">>,
           NEW T, ct \in Seq(T), ct # <<>> => Head(ct) # "gzip",
           NEW res, res = FillOut(Fresh(hs, cs, ct, e), r, env)
    PROVE  /\ Framed(res)
           /\ Range(res.content) \subseteq {"gzip"} \cup Range(ct)
  <1>1. PICK S0 : /\ hs \in Seq(S0)
                  /\ At(hs, "Content-Length") = {} /\ At(hs, "Content-Encoding") = {}
    <2>1. CASE hs = <<>>
      <3>1. hs \in Seq({}) /\ DOMAIN hs = {}
        BY <2>1
      <3> QED BY <3>1 DEF At
    <2>2. CASE \E url : hs = <<Pair("Refresh", url)>>
      <3>1. PICK url : hs = <<Pair("Refresh", url)>>
        BY <2>2
      <3>2. PICK p : p = Pair("Refresh", url)
        OBVIOUS
      <3>3. hs = <<p>> /\ p.name = "Refresh"
        BY <3>1, <3>2 DEF Pair
      <3>4. hs \in Seq({p}) /\ DOMAIN hs = {1} /\ hs[1] = p
        BY <3>3
      <3>5. At(hs, "Content-Length") = {} /\ At(hs, "Content-Encoding") = {}
        BY <3>3, <3>4 DEF At
      <3> QED BY <3>4, <3>5
    <2> QED BY <2>1, <2>2
  <1>2. PICK typep : typep = Pair("Content-Type", ExtensionToType(e))
    OBVIOUS
  <1>3. PICK alive : alive = Pair("Keep-Alive", "timeout=0, max=0")
    OBVIOUS
  <1>4. PICK cookie : cookie = Pair("Set-Cookie", "session")
    OBVIOUS
  <1>5. PICK zipp : zipp = Pair("Content-Encoding", "gzip")
    OBVIOUS
  <1>6. /\ typep.name = "Content-Type" /\ alive.name = "Keep-Alive" /\ cookie.name = "Set-Cookie"
        /\ zipp.name = "Content-Encoding"
    BY <1>2, <1>3, <1>4, <1>5 DEF Pair
  <1>7. PICK h1 : h1 = Append(hs, typep)
    OBVIOUS
  <1>8. PICK h2 : h2 = Append(h1, alive)
    OBVIOUS
  <1>9. PICK S2 : /\ h2 \in Seq(S2)
                  /\ At(h2, "Content-Length") = {} /\ At(h2, "Content-Encoding") = {}
    <2>1. /\ h1 \in Seq(S0 \cup {typep})
          /\ At(h1, "Content-Length") = {} /\ At(h1, "Content-Encoding") = {}
      BY <1>1, <1>6, <1>7, AtOther, AppendAny
    <2>2. /\ h2 \in Seq((S0 \cup {typep}) \cup {alive})
          /\ At(h2, "Content-Length") = {} /\ At(h2, "Content-Encoding") = {}
      BY <1>6, <1>8, <2>1, AtOther, AppendAny
    <2> QED BY <2>2
  <1>10. PICK added : added = [i \in DOMAIN cs |-> Pair("Set-Cookie", cs[i])]
    OBVIOUS
  <1>11. PICK h3 : h3 = h2 \o added
    OBVIOUS
  <1>12. PICK S3 : /\ h3 \in Seq(S3)
                   /\ At(h3, "Content-Length") = {} /\ At(h3, "Content-Encoding") = {}
    <2>1. CASE cs = <<>>
      <3>1. added = <<>>
        BY <1>10, <2>1
      <3>2. h3 = h2
        BY <1>9, <1>11, <3>1
      <3> QED BY <1>9, <3>2
    <2>2. CASE cs = <<"session">>
      <3>1. DOMAIN cs = {1} /\ cs[1] = "session"
        BY <2>2
      <3>2. added = <<cookie>>
        BY <1>4, <1>10, <3>1
      <3>3. h3 = Append(h2, cookie)
        BY <1>9, <1>11, <3>2
      <3>4. /\ h3 \in Seq(S2 \cup {cookie})
            /\ At(h3, "Content-Length") = {} /\ At(h3, "Content-Encoding") = {}
        BY <1>6, <1>9, <3>3, AtOther, AppendAny
      <3> QED BY <3>4
    <2> QED BY <2>1, <2>2
  <1>13. PICK zip \in BOOLEAN :
            zip = (env.compress /\ Lookup(r.headers, <<"Z">>) = <<"zip">> /\ IsCompressible(e))
    OBVIOUS
  <1>14. PICK h4 : h4 = IF zip THEN Append(h3, zipp) ELSE h3
    OBVIOUS
  <1>15. PICK c4 : c4 = IF zip THEN <<"gzip">> \o ct ELSE ct
    OBVIOUS
  <1>16. PICK S4 : /\ h4 \in Seq(S4)
                   /\ At(h4, "Content-Length") = {} /\ (At(h4, "Content-Encoding") # {}) = zip
    <2>1. CASE zip
      <3>1. h4 = Append(h3, zipp) /\ zipp.name = "Content-Encoding" /\ zipp.name # "Content-Length"
        BY <1>6, <1>14, <2>1
      <3>2. h4 \in Seq(S3 \cup {zipp})
        BY <1>12, <3>1, AppendAny
      <3>3. At(h4, "Content-Length") = {}
        BY <1>12, <3>1, AtOther
      <3>4. At(h4, "Content-Encoding") = {Len(h3) + 1}
        BY <1>12, <3>1, AtFirst
      <3>5. At(h4, "Content-Encoding") # {}
        BY <3>4
      <3> QED BY <2>1, <3>2, <3>3, <3>5
    <2>2. CASE ~zip
      BY <1>12, <1>14, <2>2
    <2> QED BY <2>1, <2>2
  <1>17. PICK length : length = Pair("Content-Length", c4)
    OBVIOUS
  <1>18. length.name = "Content-Length" /\ length.value = c4
    BY <1>17 DEF Pair
  <1>19. PICK h5 : h5 = Append(h4, length)
    OBVIOUS
  <1>20. res.status = "ok" /\ res.headers = h5 /\ res.content = c4
    <2>1. PICK r0 : r0 = Fresh(hs, cs, ct, e)
      OBVIOUS
    <2>2. PICK r1 : r1 = AddHeader(r0, "Content-Type", ExtensionToType(r0.ext))
      OBVIOUS
    <2>3. r0.ext = e /\ r0.cookies = cs
      BY <2>1 DEF Fresh
    <2>4. r1 = Fresh(h1, cs, ct, e)
      BY <1>2, <1>7, <2>1, <2>2, <2>3 DEF Fresh, AddHeader
    <2>5. PICK r2 : r2 = AddHeader(r1, "Keep-Alive", "timeout=0, max=0")
      OBVIOUS
    <2>6. r2 = Fresh(h2, cs, ct, e)
      BY <1>3, <1>8, <2>4, <2>5 DEF Fresh, AddHeader
    <2>7. PICK r3 : r3 = [r2 EXCEPT !.headers = @ \o added]
      OBVIOUS
    <2>8. r3 = Fresh(h3, cs, ct, e)
      BY <1>11, <2>6, <2>7 DEF Fresh
    <2>9. PICK r4 : r4 = IF zip THEN [AddHeader(r3, "Content-Encoding", "gzip") EXCEPT !.content = <<"gzip">> \o @]
                         ELSE r3
      OBVIOUS
    <2>10. r4 = Fresh(h4, cs, c4, e)
      BY <1>5, <1>14, <1>15, <2>8, <2>9 DEF Fresh, AddHeader
    <2>11. res = [AddHeader(r4, "Content-Length", r4.content) EXCEPT !.status = "ok"]
      BY <1>10, <1>13, <2>1, <2>2, <2>3, <2>5, <2>7, <2>9 DEF FillOut
    <2> QED BY <1>17, <1>19, <2>10, <2>11 DEF Fresh, AddHeader
  <1>21. /\ At(h5, "Content-Length") = {Len(h4) + 1} /\ Len(h4) + 1 \in DOMAIN h5 /\ h5[Len(h4) + 1].value = c4
         /\ (At(h5, "Content-Encoding") # {}) = zip
    <2>0. At(h5, "Content-Length") = {Len(h4) + 1}
      BY <1>16, <1>18, <1>19, AtFirst
    <2>1. Len(h4) + 1 \in DOMAIN h5 /\ h5[Len(h4) + 1] = length
      BY <1>16, <1>19, AppendAny
    <2>2. At(h5, "Content-Encoding") = At(h4, "Content-Encoding")
      BY <1>16, <1>18, <1>19, AtOther
    <2> QED BY <1>16, <1>18, <2>0, <2>1, <2>2
  <1>22. zip <=> (c4 # <<>> /\ Head(c4) = "gzip")
    <2>1. PICK z : z = "gzip"
      OBVIOUS
    <2>2. ct \in Seq(T \cup {z}) /\ <<z>> \in Seq(T \cup {z})
      OBVIOUS
    <2>3. <<z>> \o ct # <<>> /\ Head(<<z>> \o ct) = z
      BY <2>2
    <2> QED BY <1>15, <2>1, <2>3
  <1>23. Framed(res)
    BY <1>20, <1>21, <1>22 DEF Framed
  <1>24. Range(c4) \subseteq {"gzip"} \cup Range(ct)
    <2>1. Range(<<"gzip">> \o ct) \subseteq {"gzip"} \cup Range(ct)
      BY DEF Range
    <2> QED BY <1>15, <2>1
  <1> QED BY <1>20, <1>23, <1>24

-----------------------------------------------------------------------------
(* Positions                                                               *)

\* A set of naturals has a least element, which Min names.
LEMMA MinFacts ==
    ASSUME NEW S, S \subseteq Nat, S # {}
    PROVE  Min(S) \in S /\ \A m \in S : Min(S) <= m
  <1> DEFINE R == OpToRel(<, Nat)
  <1>1. IsWellFoundedOn(R, Nat)
    BY NatLessThanWellFounded
  <1>2. \A m, n \in Nat : m < n => <<m, n>> \in R
    BY DEF OpToRel
  <1> HIDE DEF R
  <1>3. PICK n \in S : \A m \in S : ~(<<m, n>> \in R)
    BY <1>1, WFMin
  <1>4. ASSUME NEW m \in S
        PROVE  n <= m
    <2>1. m \in Nat /\ n \in Nat
      OBVIOUS
    <2>2. ~(m < n)
      BY <1>2, <1>3, <2>1
    <2> QED BY <2>1, <2>2
  <1> QED BY <1>4 DEF Min

-----------------------------------------------------------------------------
(* The routes                                                              *)

\* The response a route starts with, after its session.
LEMMA SessionFacts ==
    ASSUME NEW env
    PROVE  \E cs : (cs = <<>> \/ cs = <<"session">>) /\ Session(NewResponse, env) = Fresh(<<>>, cs, <<>>, <<>>)
  <1>1. NewResponse = Fresh(<<>>, <<>>, <<>>, <<>>)
    BY DEF NewResponse, Fresh
  <1>2. [Fresh(<<>>, <<>>, <<>>, <<>>) EXCEPT !.cookies = <<"session">>] = Fresh(<<>>, <<"session">>, <<>>, <<>>)
    BY DEF Fresh
  <1> QED BY <1>1, <1>2 DEF Session

\* The catch clause.
LEMMA ThrownMade ==
    ASSUME NEW signed_in
    PROVE  Made(Thrown, signed_in)
  BY DEF Made, Thrown, Statuses

\* A redirection, a page of three or four pieces, and a script of three.
LEMMA RedirectMade ==
    ASSUME NEW cs, cs = <<>> \/ cs = <<"session">>, NEW url, NEW signed_in
    PROVE  Made(RedirectTo(Fresh(<<>>, cs, <<>>, <<>>), url), signed_in)
  <1>1. PICK p : p = Pair("Refresh", url)
    OBVIOUS
  <1>2. Append(<<>>, p) = <<p>>
    OBVIOUS
  <1>3. RedirectTo(Fresh(<<>>, cs, <<>>, <<>>), url) = Fresh(<<p>>, cs, <<"blank">>, <<"html">>)
    <2>1. PICK x : x = AddHeader(Fresh(<<>>, cs, <<>>, <<>>), "Refresh", url)
      OBVIOUS
    <2>2. x = Fresh(<<p>>, cs, <<>>, <<>>)
      BY <1>1, <1>2, <2>1 DEF AddHeader, Fresh
    <2>3. PICK y : y = [x EXCEPT !.content = <<"blank">>]
      OBVIOUS
    <2>4. y = Fresh(<<p>>, cs, <<"blank">>, <<>>)
      BY <2>2, <2>3 DEF Fresh
    <2>5. RedirectTo(Fresh(<<>>, cs, <<>>, <<>>), url) = [y EXCEPT !.ext = <<"html">>]
      BY <2>1, <2>3 DEF RedirectTo
    <2> QED BY <2>4, <2>5 DEF Fresh
  <1>4. <<"blank">> \in Seq({"blank"}) /\ Head(<<"blank">>) # "gzip"
    OBVIOUS
  <1>5. Range(<<"blank">>) \cap Forum = {}
    BY DEF Range, Forum, ForumTemplates, ForumData
  <1> QED BY <1>1, <1>3, <1>4, <1>5 DEF Made

\* What a route writes, if it does not begin like a compressed content and shows
\* nothing of the forum to a guest.
LEMMA FreshMade ==
    ASSUME NEW cs, cs = <<>> \/ cs = <<"session">>, NEW T, NEW ct \in Seq(T), ct # <<>> => Head(ct) # "gzip",
           NEW signed_in, ~signed_in => Range(ct) \cap Forum = {}, NEW e
    PROVE  Made(Fresh(<<>>, cs, ct, e), signed_in)
  BY DEF Made

\* A page of templates.
LEMMA PageMade ==
    ASSUME NEW cs, cs = <<>> \/ cs = <<"session">>, NEW T, NEW ct \in Seq(T), ct # <<>> => Head(ct) # "gzip",
           NEW signed_in, ~signed_in => Range(ct) \cap Forum = {}
    PROVE  Made(Page(Fresh(<<>>, cs, <<>>, <<>>), ct), signed_in)
  <1>1. <<>> \o ct = ct
    OBVIOUS
  <1>2. Page(Fresh(<<>>, cs, <<>>, <<>>), ct) = Fresh(<<>>, cs, ct, <<"html">>)
    <2>1. PICK x : x = [Fresh(<<>>, cs, <<>>, <<>>) EXCEPT !.content = @ \o ct]
      OBVIOUS
    <2>2. x = Fresh(<<>>, cs, ct, <<>>)
      BY <1>1, <2>1 DEF Fresh
    <2>3. Page(Fresh(<<>>, cs, <<>>, <<>>), ct) = [x EXCEPT !.ext = <<"html">>]
      BY <2>1 DEF Page
    <2> QED BY <2>2, <2>3 DEF Fresh
  <1> QED BY <1>2, FreshMade

\* The three pieces of a page.
LEMMA Pieces3 ==
    ASSUME NEW a, NEW b, NEW c
    PROVE  <<a, b, c>> \in Seq({a, b, c}) /\ Head(<<a, b, c>>) = a /\ Range(<<a, b, c>>) = {a, b, c}
  BY DEF Range

\* The four pieces of a page of the forum.
LEMMA Pieces4 ==
    ASSUME NEW a, NEW b, NEW c, NEW d
    PROVE  /\ <<a, b, c, d>> \in Seq({a, b, c, d}) /\ Head(<<a, b, c, d>>) = a
           /\ Range(<<a, b, c, d>>) = {a, b, c, d}
  BY DEF Range

\* A page of the forum is for users only.
LEMMA HtmlMade ==
    ASSUME NEW page, NEW env
    PROVE  Made(Html(NewResponse, page, env), env.signed_in)
  <1>1. PICK cs : (cs = <<>> \/ cs = <<"session">>) /\ Session(NewResponse, env) = Fresh(<<>>, cs, <<>>, <<>>)
    BY SessionFacts
  <1>2. CASE env.throws
    BY <1>2, ThrownMade DEF Html
  <1>3. CASE ~env.throws /\ ~env.signed_in
    BY <1>1, <1>3, RedirectMade DEF Html
  <1>4. CASE ~env.throws /\ env.signed_in
    <2>1. PICK ct : ct = <<"dir_include_header.html", page, "jsonp", "dir_include_footer.html">>
      OBVIOUS
    <2>2. PICK T : ct \in Seq(T)
      BY <2>1, Pieces4
    <2>3. Head(ct) # "gzip"
      BY <2>1, Pieces4
    <2>4. Html(NewResponse, page, env) = Page(Fresh(<<>>, cs, <<>>, <<>>), ct)
      BY <1>1, <1>4, <2>1 DEF Html
    <2> QED BY <1>1, <1>4, <2>2, <2>3, <2>4, PageMade
  <1> QED BY <1>2, <1>3, <1>4

\* A script of a page, for users only.
LEMMA JsonpMade ==
    ASSUME NEW page, NEW env
    PROVE  Made(Jsonp(NewResponse, page, env), env.signed_in)
  <1>1. PICK cs : (cs = <<>> \/ cs = <<"session">>) /\ Session(NewResponse, env) = Fresh(<<>>, cs, <<>>, <<>>)
    BY SessionFacts
  <1>2. CASE env.throws
    BY <1>2, ThrownMade DEF Jsonp
  <1>3. CASE ~env.throws
    <2>1. PICK middle : middle = IF env.signed_in THEN page ELSE "err_unauthorized"
      OBVIOUS
    <2>2. PICK ct : ct = <<"jsonp_start", middle, "jsonp_end">>
      OBVIOUS
    <2>3. ct \in Seq({"jsonp_start", middle, "jsonp_end"}) /\ Head(ct) = "jsonp_start"
          /\ Range(ct) = {"jsonp_start", middle, "jsonp_end"}
      BY <2>2, Pieces3
    <2>4. ~env.signed_in => Range(ct) \cap Forum = {}
      BY <2>1, <2>3 DEF Forum, ForumTemplates, ForumData
    <2>5. Jsonp(NewResponse, page, env) = [Fresh(<<>>, cs, <<>>, <<>>) EXCEPT !.ext = <<"js">>, !.content = ct]
      BY <1>1, <1>3, <2>1, <2>2 DEF Jsonp
    <2>6. Jsonp(NewResponse, page, env) = Fresh(<<>>, cs, ct, <<"js">>)
      BY <2>5 DEF Fresh
    <2> QED BY <1>1, <2>3, <2>4, <2>6, FreshMade
  <1> QED BY <1>2, <1>3

\* A message on a page of its own.
LEMMA ErrMsgMade ==
    ASSUME NEW cs, cs = <<>> \/ cs = <<"session">>, NEW text, text \notin Forum, NEW signed_in
    PROVE  Made(ErrMsg(Fresh(<<>>, cs, <<>>, <<>>), text), signed_in)
  <1>1. PICK ct : ct = <<"dir_include_header.html", text, "dir_include_footer.html">>
    OBVIOUS
  <1>2. ct \in Seq({"dir_include_header.html", text, "dir_include_footer.html"}) /\ Head(ct) = "dir_include_header.html"
        /\ Range(ct) = {"dir_include_header.html", text, "dir_include_footer.html"}
    BY <1>1, Pieces3
  <1>3. Range(ct) \cap Forum = {}
    BY <1>2 DEF Forum, ForumTemplates, ForumData
  <1>4. ErrMsg(Fresh(<<>>, cs, <<>>, <<>>), text) = Page(Fresh(<<>>, cs, <<>>, <<>>), ct)
    BY <1>1 DEF ErrMsg, Fresh
  <1> QED BY <1>2, <1>3, <1>4, PageMade

\* Every route of the table, and the files.
LEMMA RoutesMade ==
    ASSUME NEW func, NEW r, NEW env,
           func \in {"index_html", "show_html", "form_html", "index_jsonp", "show_jsonp", "form_jsonp", "del", "post",
                     "signin_html", "signup_html", "user", "test"}
    PROVE  Made(CallRoute(func, r, NewResponse, env), env.signed_in)
  <1>1. PICK cs : (cs = <<>> \/ cs = <<"session">>) /\ Session(NewResponse, env) = Fresh(<<>>, cs, <<>>, <<>>)
    BY SessionFacts
  <1>2. NewResponse = Fresh(<<>>, <<>>, <<>>, <<>>)
    BY DEF NewResponse, Fresh
  <1>3. CASE func = "index_html"
    BY <1>3, HtmlMade DEF CallRoute, IndexHtml
  <1>4. CASE func = "show_html"
    BY <1>4, HtmlMade DEF CallRoute, ShowHtml
  <1>5. CASE func = "form_html"
    BY <1>5, HtmlMade DEF CallRoute, FormHtml
  <1>6. CASE func = "index_jsonp"
    <2>1. CallRoute(func, r, NewResponse, env) = IndexJsonp(NewResponse, env)
      BY <1>6 DEF CallRoute
    <2>2. IndexJsonp(NewResponse, env) = Thrown \/ IndexJsonp(NewResponse, env) = Jsonp(NewResponse, "forum_index", env)
      BY DEF IndexJsonp
    <2> QED BY <2>1, <2>2, ThrownMade, JsonpMade
  <1>7. CASE func = "show_jsonp"
    BY <1>7, JsonpMade DEF CallRoute, ShowJsonp
  <1>8. CASE func = "form_jsonp"
    BY <1>8, JsonpMade DEF CallRoute, FormJsonp
  <1>9. CASE func = "del"
    <2>1. <<>> \in Seq({}) /\ Range(<<>>) = {}
      BY DEF Range
    <2>2. Made(Fresh(<<>>, <<>>, <<>>, <<>>), env.signed_in)
      BY <2>1, FreshMade
    <2> QED BY <1>2, <1>9, <2>2 DEF CallRoute
  <1>10. CASE func = "post"
    <2>1. CallRoute(func, r, NewResponse, env) = ForumPost(r, NewResponse, env)
      BY <1>10 DEF CallRoute
    <2>2. PICK sess : sess = Fresh(<<>>, cs, <<>>, <<>>)
      OBVIOUS
    <2>3. \/ ForumPost(r, NewResponse, env) = Thrown
          \/ ForumPost(r, NewResponse, env) = RedirectTo(sess, "/dir/user/signin")
          \/ ForumPost(r, NewResponse, env) = ErrMsg(sess, "err_title_required")
          \/ ForumPost(r, NewResponse, env) = ErrMsg(sess, "err_content_required")
          \/ ForumPost(r, NewResponse, env) = RedirectTo(sess, "/dir/forum/index")
      BY <1>1, <2>2 DEF ForumPost
    <2>4. Made(RedirectTo(sess, "/dir/user/signin"), env.signed_in) /\ Made(RedirectTo(sess, "/dir/forum/index"), env.signed_in)
      BY <1>1, <2>2, RedirectMade
    <2>5. "err_title_required" \notin Forum /\ "err_content_required" \notin Forum
      BY DEF Forum, ForumTemplates, ForumData
    <2>6. Made(ErrMsg(sess, "err_title_required"), env.signed_in) /\ Made(ErrMsg(sess, "err_content_required"), env.signed_in)
      BY <1>1, <2>2, <2>5, ErrMsgMade
    <2> QED BY <2>1, <2>3, <2>4, <2>6, ThrownMade
  <1>11. CASE func \in {"signin_html", "signup_html"}
    <2>1. PICK page \in {"dir_user_signin.html", "dir_user_signup.html"} :
             CallRoute(func, r, NewResponse, env) =
                Page(Fresh(<<>>, <<>>, <<>>, <<>>), <<"dir_include_header.html", page, "dir_include_footer.html">>)
      BY <1>2, <1>11 DEF CallRoute, SigninHtml, SignupHtml
    <2>2. PICK ct : ct = <<"dir_include_header.html", page, "dir_include_footer.html">>
      OBVIOUS
    <2>3. ct \in Seq({"dir_include_header.html", page, "dir_include_footer.html"}) /\ Head(ct) = "dir_include_header.html"
          /\ Range(ct) = {"dir_include_header.html", page, "dir_include_footer.html"}
      BY <2>2, Pieces3
    <2>4. Range(ct) \cap Forum = {}
      BY <2>1, <2>3 DEF Forum, ForumTemplates, ForumData
    <2>5. Made(Page(Fresh(<<>>, <<>>, <<>>, <<>>), ct), env.signed_in)
      BY <2>3, <2>4, PageMade
    <2> QED BY <2>1, <2>2, <2>5
  <1>12. CASE func = "user"
    <2>1. CallRoute(func, r, NewResponse, env) = User(NewResponse, env)
      BY <1>12 DEF CallRoute
    <2>2. PICK sess : sess = Fresh(<<>>, cs, <<>>, <<>>)
      OBVIOUS
    <2>3. \/ User(NewResponse, env) = Thrown
          \/ User(NewResponse, env) = ErrMsg(sess, "err_user")
          \/ User(NewResponse, env) = RedirectTo(sess, "/dir/forum/index")
      BY <1>1, <2>2 DEF User
    <2>4. Made(RedirectTo(sess, "/dir/forum/index"), env.signed_in)
      BY <1>1, <2>2, RedirectMade
    <2>5. "err_user" \notin Forum
      BY DEF Forum, ForumTemplates, ForumData
    <2>6. Made(ErrMsg(sess, "err_user"), env.signed_in)
      BY <1>1, <2>2, <2>5, ErrMsgMade
    <2> QED BY <2>1, <2>3, <2>4, <2>6, ThrownMade
  <1>13. CASE func = "test"
    <2>1. ~Prepared("shard", {"forum"}, env)
      <3>1. Tables["shard"] = {"unique_keys", "users"}
        BY DEF Tables
      <3>2. "forum" \notin {"unique_keys", "users"}
        OBVIOUS
      <3> QED BY <3>1, <3>2 DEF Prepared
    <2> QED BY <1>13, <2>1, ThrownMade DEF CallRoute, Test
  <1> QED BY <1>3, <1>4, <1>5, <1>6, <1>7, <1>8, <1>9, <1>10, <1>11, <1>12, <1>13

\* The routes the table names.
LEMMA FuncFacts ==
    ASSUME NEW uri
    PROVE  GetFunc(uri) \in {"none", "index_html", "show_html", "form_html", "index_jsonp", "show_jsonp", "form_jsonp",
                             "del", "post", "signin_html", "signup_html", "user", "test"}
  <1>1. PICK n : n = Len(RouteTable)
    OBVIOUS
  <1>2. n = 14
    BY <1>1 DEF RouteTable
  <1>3. \A i \in 1 .. 14 : RouteTable[i].func \in
            {"index_html", "show_html", "form_html", "index_jsonp", "show_jsonp", "form_jsonp",
             "del", "post", "signin_html", "signup_html", "user", "test"}
    BY DEF RouteTable
  <1>4. PICK closed : closed = IF Last(uri) = "/" THEN uri ELSE Append(uri, "/")
    OBVIOUS
  <1>5. PICK I : I = {i \in 1 .. Len(RouteTable) : IsPrefix(<<"/", RouteTable[i].uri, "/">>, closed)}
    OBVIOUS
  <1>6. PICK j : j = IF I # {} THEN Min(I) ELSE 0
    OBVIOUS
  <1>7. GetFunc(uri) = IF j = 0 THEN "none" ELSE RouteTable[j].func
    BY <1>4, <1>5, <1>6 DEF GetFunc, SelectInSeq
  <1>8. I \subseteq 1 .. 14 /\ I \subseteq Nat
    <2>1. I \subseteq 1 .. Len(RouteTable)
      BY <1>5
    <2> QED BY <1>1, <1>2, <2>1
  <1>9. j = 0 \/ j \in 1 .. 14
    <2>1. I # {} => Min(I) \in I
      BY <1>8, MinFacts
    <2> QED BY <1>6, <1>8, <2>1
  <1> QED BY <1>3, <1>7, <1>9

\* A file, or the text that says it is not there.
LEMMA FileMade ==
    ASSUME NEW path
    PROVE  \/ GetFile(NewResponse, path) = StaticResponse("not_found")
           \/ /\ Opened(path) \in DOMAIN Files
              /\ \E e : GetFile(NewResponse, path) = Fresh(<<>>, <<>>, <<Files[Opened(path)]>>, e)
  <1>1. CASE Opened(path) \notin DOMAIN Files
    BY <1>1 DEF GetFile
  <1>2. CASE Opened(path) \in DOMAIN Files
    <2>1. PICK e : e = GetExtension(FullPath(path))
      OBVIOUS
    <2>2. PICK piece : piece = Files[Opened(path)]
      OBVIOUS
    <2>3. GetFile(NewResponse, path) = [NewResponse EXCEPT !.content = Append(@, piece), !.ext = e]
      BY <1>2, <2>1, <2>2 DEF GetFile
    <2>4. Append(<<>>, piece) = <<piece>>
      OBVIOUS
    <2>5. GetFile(NewResponse, path) = Fresh(<<>>, <<>>, <<piece>>, e)
      BY <2>3, <2>4 DEF NewResponse, Fresh
    <2> QED BY <1>2, <2>2, <2>5
  <1> QED BY <1>1, <1>2

\* A file as it is sent: the file alone, compressed or not, which is no row of the forum.
LEMMA FileAnswered ==
    ASSUME NEW path, NEW r, NEW env, NEW made, made = GetFile(NewResponse, path),
           NEW res, res = IF made.status # "none" THEN made ELSE FillOut(made, r, env)
    PROVE  /\ Framed(res)
           /\ \/ Range(res.content) \cap Forum = {}
              \/ /\ Opened(path) \in DOMAIN Files
                 /\ Range(res.content) \subseteq {"gzip", Files[Opened(path)]}
                 /\ Range(res.content) \cap ForumData = {}
  <1>1. CASE made = StaticResponse("not_found")
    <2>1. made.status # "none" /\ "not_found" \in Statuses
      BY <1>1 DEF StaticResponse, NewResponse, Statuses
    <2> QED BY <1>1, <2>1, StaticFramed
  <1>2. CASE made # StaticResponse("not_found")
    <2>1. PICK e : Opened(path) \in DOMAIN Files /\ made = Fresh(<<>>, <<>>, <<Files[Opened(path)]>>, e)
      BY <1>2, FileMade
    <2>2. PICK piece : piece = Files[Opened(path)]
      OBVIOUS
    <2>3. piece # "gzip" /\ piece \notin ForumData
      BY <2>1, <2>2, FilesAssumption
    <2>4. PICK ct : ct = <<piece>>
      OBVIOUS
    <2>5. ct \in Seq({piece}) /\ (ct # <<>> => Head(ct) # "gzip") /\ Range(ct) = {piece}
      BY <2>3, <2>4 DEF Range
    <2>6. made.status = "none" /\ made = Fresh(<<>>, <<>>, ct, e)
      BY <2>1, <2>2, <2>4 DEF Fresh
    <2>7. res = FillOut(Fresh(<<>>, <<>>, ct, e), r, env)
      BY <2>6
    <2>8. Framed(res) /\ Range(res.content) \subseteq {"gzip"} \cup Range(ct)
      BY <2>5, <2>7, FillOutFramed
    <2>9. "gzip" \notin ForumData
      BY DEF ForumData
    <2> QED BY <2>1, <2>2, <2>3, <2>5, <2>8, <2>9
  <1> QED BY <1>1, <1>2

\* What a route has made has the status none, unless it is a static response.
LEMMA MadeAnswered ==
    ASSUME NEW made, NEW r, NEW env, Made(made, env.signed_in),
           NEW res, res = IF made.status # "none" THEN made ELSE FillOut(made, r, env)
    PROVE  Framed(res) /\ (~env.signed_in => Range(res.content) \cap Forum = {})
  <1>1. CASE \E status \in Statuses : made = StaticResponse(status)
    <2>1. PICK status \in Statuses : made = StaticResponse(status)
      BY <1>1
    <2>2. made.status = status /\ status # "none"
      BY <2>1 DEF StaticResponse, NewResponse, Statuses
    <2> QED BY <2>1, <2>2, StaticFramed
  <1>2. CASE \E hs, cs, ct, e :
                /\ made = Fresh(hs, cs, ct, e)
                /\ hs = <<>> \/ \E url : hs = <<Pair("Refresh", url)>>
                /\ cs = <<>> \/ cs = <<"session">>
                /\ (\E T : ct \in Seq(T)) /\ (ct # <<>> => Head(ct) # "gzip")
                /\ ~env.signed_in => Range(ct) \cap Forum = {}
    <2>1. PICK hs, cs, ct, e :
                /\ made = Fresh(hs, cs, ct, e)
                /\ hs = <<>> \/ \E url : hs = <<Pair("Refresh", url)>>
                /\ cs = <<>> \/ cs = <<"session">>
                /\ (\E T : ct \in Seq(T)) /\ (ct # <<>> => Head(ct) # "gzip")
                /\ ~env.signed_in => Range(ct) \cap Forum = {}
      BY <1>2
    <2>2. PICK T : ct \in Seq(T)
      BY <2>1
    <2>3. made.status = "none"
      BY <2>1 DEF Fresh
    <2>4. res = FillOut(Fresh(hs, cs, ct, e), r, env)
      BY <2>1, <2>3
    <2>5. Framed(res) /\ Range(res.content) \subseteq {"gzip"} \cup Range(ct)
      BY <2>1, <2>2, <2>4, FillOutFramed
    <2>6. "gzip" \notin Forum
      BY DEF Forum, ForumTemplates, ForumData
    <2> QED BY <2>1, <2>5, <2>6
  <1> QED BY <1>1, <1>2 DEF Made

\* What GuestsGetTemplatesOnly allows an answer to have of the forum.
OfForum(a) ==
    \/ Range(a.res.content) \cap Forum = {}
    \/ /\ a.opened \in DOMAIN Files
       /\ Range(a.res.content) \subseteq {"gzip", Files[a.opened]}
       /\ Range(a.res.content) \cap ForumData = {}

\* What handle_request answers to any request: a response with its true length, for a
\* guest at most a template of the forum, and no file that was not validated.
LEMMA HandleFacts ==
    ASSUME NEW r, NEW env, NEW handled, handled = HandleRequest(r, env)
    PROVE  /\ Framed(handled.res)
           /\ ~env.signed_in => OfForum(handled)
           /\ handled.opened = <<>> \/ \E w \in DecodeAndValidate(r.uri) : IsAbsolute(w) /\ handled.opened = Opened(w)
  <1>1. PICK decoded : decoded = DecodeAndValidate(r.uri)
    OBVIOUS
  <1>2. PICK uri : uri = CHOOSE w \in decoded : TRUE
    OBVIOUS
  <1>3. PICK func : func = GetFunc(uri)
    OBVIOUS
  <1>4. PICK made : made = IF func = "none" THEN GetFile(NewResponse, uri) ELSE CallRoute(func, r, NewResponse, env)
    OBVIOUS
  <1>5. func # "none" => Made(made, env.signed_in)
    BY <1>3, <1>4, FuncFacts, RoutesMade
  <1>6. PICK res : res = IF made.status # "none" THEN made ELSE FillOut(made, r, env)
    OBVIOUS
  <1>7. /\ Framed(res)
        /\ ~env.signed_in => OfForum([res |-> res, opened |-> IF func = "none" THEN Opened(uri) ELSE <<>>])
    <2>1. CASE func = "none"
      <3>1. made = GetFile(NewResponse, uri)
        BY <1>4, <2>1
      <3>2. /\ Framed(res)
            /\ \/ Range(res.content) \cap Forum = {}
               \/ /\ Opened(uri) \in DOMAIN Files
                  /\ Range(res.content) \subseteq {"gzip", Files[Opened(uri)]}
                  /\ Range(res.content) \cap ForumData = {}
        BY <1>6, <3>1, FileAnswered
      <3> QED BY <2>1, <3>2 DEF OfForum
    <2>2. CASE func # "none"
      <3>1. Framed(res) /\ (~env.signed_in => Range(res.content) \cap Forum = {})
        BY <1>5, <1>6, <2>2, MadeAnswered
      <3> QED BY <3>1 DEF OfForum
    <2> QED BY <2>1, <2>2
  <1>8. \/ \E status \in {"unauthorized", "bad_request"} : handled = [res |-> StaticResponse(status), opened |-> <<>>]
        \/ /\ decoded # {} /\ IsAbsolute(uri)
           /\ handled = [res |-> res, opened |-> IF func = "none" THEN Opened(uri) ELSE <<>>]
    BY <1>1, <1>2, <1>3, <1>4, <1>6 DEF HandleRequest
  <1>9. CASE \E status \in {"unauthorized", "bad_request"} : handled = [res |-> StaticResponse(status), opened |-> <<>>]
    <2>1. PICK status \in {"unauthorized", "bad_request"} : handled = [res |-> StaticResponse(status), opened |-> <<>>]
      BY <1>9
    <2>2. status \in Statuses /\ handled.res = StaticResponse(status) /\ handled.opened = <<>>
      BY <2>1 DEF Statuses
    <2> QED BY <2>2, StaticFramed DEF OfForum
  <1>10. CASE /\ decoded # {} /\ IsAbsolute(uri)
              /\ handled = [res |-> res, opened |-> IF func = "none" THEN Opened(uri) ELSE <<>>]
    <2>1. uri \in decoded
      BY <1>2, <1>10
    <2>2. handled.res = res /\ (handled.opened = <<>> \/ handled.opened = Opened(uri))
      BY <1>10
    <2> QED BY <1>1, <1>7, <1>10, <2>1, <2>2
  <1> QED BY <1>8, <1>9, <1>10

-----------------------------------------------------------------------------
(* Paths                                                                   *)

\* A byte that two after a "%" stand for.
LEMMA HexStreamBytes ==
    ASSUME NEW x, NEW y
    PROVE  HexStream(x, y) \subseteq Bytes
  <1>1. Hex2char(x, y) \in {"nul", "sp", "q", "%", "&", ".", "hi", "a"}
    BY DEF Hex2char
  <1>2. {"nul", "sp", "q", "%", "&", ".", "hi", "a"} \subseteq Bytes
    BY DEF Bytes, Ctl, Tspecial, Ordinary
  <1>3. HexStream(x, y) \subseteq {Hex2char(x, y), "nul", "hi"}
    BY DEF HexStream
  <1> QED BY <1>1, <1>2, <1>3

\* One step of percent_decode_and_validate, at position i of w, when g has what
\* follows.
DecodeStep(w, g, i) ==
    IF i > Len(w) THEN {<<>>}
    ELSE IF w[i] = "%"
    THEN IF i + 2 > Len(w) THEN {}
         ELSE {<<ch>> \o rest : ch \in HexStream(w[i + 1], w[i + 2]), rest \in g[i + 3]}
    ELSE {<<IF w[i] = "+" THEN "sp" ELSE w[i]>> \o rest : rest \in g[i + 1]}

\* A step depends on what follows its position only.
LEMMA DecodeStepLocal ==
    ASSUME NEW S, NEW w \in Seq(S), NEW g, NEW h, NEW i \in 1 .. Len(w) + 1,
           \A k \in i + 1 .. Len(w) + 1 : g[k] = h[k]
    PROVE  DecodeStep(w, g, i) = DecodeStep(w, h, i)
  <1>1. Len(w) \in Nat
    OBVIOUS
  <1>2. CASE i > Len(w)
    BY <1>2 DEF DecodeStep
  <1>3. CASE i <= Len(w) /\ i + 2 <= Len(w)
    <2>1. i + 3 \in i + 1 .. Len(w) + 1 /\ i + 1 \in i + 1 .. Len(w) + 1
      BY <1>1, <1>3
    <2>2. g[i + 3] = h[i + 3] /\ g[i + 1] = h[i + 1]
      BY <2>1
    <2> QED BY <2>2 DEF DecodeStep
  <1>4. CASE i <= Len(w) /\ i + 2 > Len(w)
    <2>1. i + 1 \in i + 1 .. Len(w) + 1
      BY <1>1, <1>4
    <2>2. g[i + 1] = h[i + 1]
      BY <2>1
    <2> QED BY <1>4, <2>2 DEF DecodeStep
  <1> QED BY <1>1, <1>2, <1>3, <1>4

\* Induction over the naturals up to a bound.
LEMMA InductionTo ==
    ASSUME NEW n \in Nat, NEW S, 0 \in S, \A k \in 1 .. n : k - 1 \in S => k \in S
    PROVE  \A k \in 0 .. n : k \in S
  <1> DEFINE B == {k \in 0 .. n : k \notin S}
  <1> SUFFICES ASSUME B # {}
               PROVE  FALSE
    OBVIOUS
  <1>1. B \subseteq Nat
    OBVIOUS
  <1>2. PICK m \in B : \A k \in B : m <= k
    BY <1>1, MinFacts
  <1>3. m \in 0 .. n /\ m \notin S
    OBVIOUS
  <1>4. m # 0 /\ m \in 1 .. n /\ m - 1 \in 0 .. n
    BY <1>3
  <1>5. m - 1 \in S
    BY <1>2, <1>3, <1>4
  <1> QED BY <1>3, <1>4, <1>5

\* The recursion of percent_decode_and_validate is well defined.
LEMMA DecodedFromDef ==
    ASSUME NEW S, NEW w \in Seq(S)
    PROVE  \A i \in 1 .. Len(w) + 1 : DecodedFrom(w)[i] = DecodeStep(w, DecodedFrom(w), i)
  <1>1. PICK L : L = Len(w)
    OBVIOUS
  <1>2. L \in Nat
    BY <1>1
  <1> DEFINE Def(g, n) == [i \in L + 1 - n .. L + 1 |-> DecodeStep(w, g, i)]
  <1> DEFINE Some == {n \in Nat : \E g : g = Def(g, n)}
  <1>3. 0 \in Some
    <2>1. PICK g : g = [i \in L + 1 - 0 .. L + 1 |-> DecodeStep(w, <<>>, i)]
      OBVIOUS
    <2>2. ASSUME NEW i \in L + 1 - 0 .. L + 1
          PROVE  DecodeStep(w, g, i) = DecodeStep(w, <<>>, i)
      <3>1. i > Len(w)
        BY <1>1, <1>2
      <3> QED BY <3>1 DEF DecodeStep
    <2>3. g = Def(g, 0)
      BY <2>1, <2>2
    <2> QED BY <2>3
  <1>4. ASSUME NEW n \in 1 .. L, n - 1 \in Some
        PROVE  n \in Some
    <2>1. PICK g : g = Def(g, n - 1)
      BY <1>4
    <2>2. PICK m : m = L + 1 - n
      OBVIOUS
    <2>3. m \in 1 .. L /\ L + 1 - (n - 1) = m + 1 /\ n \in Nat
      BY <1>2, <2>2
    <2>4. /\ \A i \in m + 1 .. L + 1 : g[i] = DecodeStep(w, g, i)
      BY <2>1, <2>3
    <2>5. PICK h : h = [i \in m .. L + 1 |-> DecodeStep(w, g, i)]
      OBVIOUS
    <2>6. \A i \in m + 1 .. L + 1 : h[i] = g[i]
      <3>1. \A i \in m + 1 .. L + 1 : i \in m .. L + 1
        BY <1>2, <2>3
      <3> QED BY <2>4, <2>5, <3>1
    <2>7. ASSUME NEW i \in m .. L + 1
          PROVE  DecodeStep(w, g, i) = DecodeStep(w, h, i)
      <3>1. i \in 1 .. Len(w) + 1
        BY <1>1, <1>2, <2>3
      <3>2. \A k \in i + 1 .. Len(w) + 1 : k \in m + 1 .. L + 1
        BY <1>1, <1>2, <2>3
      <3>3. \A k \in i + 1 .. Len(w) + 1 : g[k] = h[k]
        BY <2>6, <3>2
      <3> QED BY <3>1, <3>3, DecodeStepLocal
    <2>8. h = [i \in m .. L + 1 |-> DecodeStep(w, h, i)]
      BY <2>5, <2>7
    <2>9. h = Def(h, n)
      BY <2>2, <2>8
    <2> QED BY <2>3, <2>9
  <1>5. L \in Some
    <2> HIDE DEF Some
    <2>1. \A k \in 0 .. L : k \in Some
      BY <1>2, <1>3, <1>4, InductionTo
    <2> QED BY <1>2, <2>1
  <1>6. \E g : g = Def(g, L)
    BY <1>5
  <1> DEFINE Full(g) == [i \in 1 .. Len(w) + 1 |-> DecodeStep(w, g, i)]
  <1>7. L + 1 - L = 1
    BY <1>2
  <1>8. \E g : g = Full(g)
    BY <1>1, <1>6, <1>7
  <1>9. DecodedFrom(w) = CHOOSE g : g = Full(g)
    BY DEF DecodedFrom, DecodeStep
  <1> HIDE DEF Full
  <1>10. DecodedFrom(w) = Full(DecodedFrom(w))
    BY <1>8, <1>9
  <1>11. ASSUME NEW A, A = Full(A), NEW i \in 1 .. Len(w) + 1
         PROVE  A[i] = DecodeStep(w, A, i)
    <2>1. \A g : Full(g)[i] = DecodeStep(w, g, i)
      BY DEF Full
    <2> QED BY <1>11, <2>1
  <1> QED BY <1>10, <1>11

\* A step adds bytes to what follows.
LEMMA DecodeStepBytes ==
    ASSUME NEW T, Bytes \subseteq T, NEW w \in Seq(T), NEW g, NEW i \in 1 .. Len(w) + 1,
           \A k \in i + 1 .. Len(w) + 1 : g[k] \subseteq Seq(T)
    PROVE  DecodeStep(w, g, i) \subseteq Seq(T)
  <1>1. PICK L : L = Len(w)
    OBVIOUS
  <1>2. L \in Nat /\ i \in Nat /\ i >= 1 /\ i <= L + 1
    BY <1>1
  <1>3. \A b \in T : \A rest \in Seq(T) : <<b>> \o rest \in Seq(T)
    OBVIOUS
  <1>4. CASE i > L
    <2>1. DecodeStep(w, g, i) = {<<>>}
      BY <1>1, <1>4 DEF DecodeStep
    <2> QED BY <2>1
  <1>5. CASE i <= L /\ w[i] = "%" /\ i + 2 > L
    <2>1. ~(i > L)
      BY <1>2, <1>5
    <2>2. DecodeStep(w, g, i) = {}
      BY <1>1, <1>5, <2>1 DEF DecodeStep
    <2> QED BY <2>2
  <1>6. CASE i <= L /\ w[i] = "%" /\ i + 2 <= L
    <2>1. ~(i > L) /\ ~(i + 2 > L) /\ i + 3 \in i + 1 .. L + 1
      BY <1>2, <1>6
    <2>2. PICK H : H = HexStream(w[i + 1], w[i + 2])
      OBVIOUS
    <2>3. PICK R : R = g[i + 3]
      OBVIOUS
    <2> DEFINE Cat(ch, rest) == <<ch>> \o rest
    <2>4. DecodeStep(w, g, i) = {Cat(ch, rest) : ch \in H, rest \in R}
      BY <1>1, <1>6, <2>1, <2>2, <2>3 DEF DecodeStep
    <2>5. R \subseteq Seq(T)
      BY <1>1, <2>1, <2>3
    <2>6. H \subseteq T
      BY <2>2, HexStreamBytes
    <2>7. \A ch \in H : \A rest \in R : Cat(ch, rest) \in Seq(T)
      BY <1>3, <2>5, <2>6
    <2> HIDE DEF Cat
    <2>8. \A x \in {Cat(ch, rest) : ch \in H, rest \in R} : x \in Seq(T)
      BY <2>7
    <2> QED BY <2>4, <2>8
  <1>7. CASE i <= L /\ w[i] # "%"
    <2>1. ~(i > L) /\ i + 1 \in i + 1 .. L + 1 /\ i \in 1 .. L
      BY <1>2, <1>7
    <2>2. PICK b : b = IF w[i] = "+" THEN "sp" ELSE w[i]
      OBVIOUS
    <2>3. PICK R : R = g[i + 1]
      OBVIOUS
    <2>4. DecodeStep(w, g, i) = {<<b>> \o rest : rest \in R}
      BY <1>1, <1>7, <2>1, <2>2, <2>3 DEF DecodeStep
    <2>5. R \subseteq Seq(T)
      BY <1>1, <2>1, <2>3
    <2>6. "sp" \in Bytes
      BY DEF Bytes, Tspecial
    <2>7. w[i] \in T
      BY <1>1, <2>1
    <2>8. b \in T
      BY <2>2, <2>6, <2>7
    <2>9. ASSUME NEW x \in {<<b>> \o rest : rest \in R}
          PROVE  x \in Seq(T)
      <3>1. PICK rest \in R : x = <<b>> \o rest
        OBVIOUS
      <3>2. rest \in Seq(T)
        BY <2>5
      <3> QED BY <1>3, <2>8, <3>1, <3>2
    <2> QED BY <2>4, <2>9
  <1> QED BY <1>2, <1>4, <1>5, <1>6, <1>7

\* What is decoded are bytes.
LEMMA DecodedBytes ==
    ASSUME NEW T, Bytes \subseteq T, NEW w \in Seq(T)
    PROVE  DecodeAndValidate(w) \subseteq Seq(T)
  <1>1. PICK L : L = Len(w)
    OBVIOUS
  <1>2. L \in Nat
    BY <1>1
  <1>3. PICK A : A = DecodedFrom(w)
    OBVIOUS
  <1>4. \A i \in 1 .. L + 1 : A[i] = DecodeStep(w, A, i)
    BY <1>1, <1>3, DecodedFromDef
  <1> DEFINE G == {n \in Nat : \A i \in 1 .. L + 1 : i >= L + 1 - n => A[i] \subseteq Seq(T)}
  <1>5. 0 \in G
    <2>1. ASSUME NEW i \in 1 .. L + 1, i >= L + 1 - 0
          PROVE  A[i] \subseteq Seq(T)
      <3>1. \A k \in i + 1 .. L + 1 : A[k] \subseteq Seq(T)
        BY <1>2, <2>1
      <3>2. DecodeStep(w, A, i) \subseteq Seq(T)
        BY <1>1, <3>1, DecodeStepBytes
      <3> QED BY <1>4, <3>2
    <2> QED BY <2>1
  <1>6. ASSUME NEW n \in 1 .. L, n - 1 \in G
        PROVE  n \in G
    <2>1. ASSUME NEW i \in 1 .. L + 1, i >= L + 1 - n
          PROVE  A[i] \subseteq Seq(T)
      <3>1. \A k \in 1 .. L + 1 : k >= L + 1 - (n - 1) => A[k] \subseteq Seq(T)
        BY <1>6
      <3>2. \A k \in i + 1 .. L + 1 : k \in 1 .. L + 1 /\ k >= L + 1 - (n - 1)
        BY <1>2, <2>1
      <3>3. \A k \in i + 1 .. L + 1 : A[k] \subseteq Seq(T)
        BY <3>1, <3>2
      <3>4. DecodeStep(w, A, i) \subseteq Seq(T)
        BY <1>1, <3>3, DecodeStepBytes
      <3> QED BY <1>4, <3>4
    <2>2. n \in Nat
      BY <1>2
    <2> QED BY <2>1, <2>2
  <1>7. L \in G
    <2> HIDE DEF G
    <2>1. \A k \in 0 .. L : k \in G
      BY <1>2, <1>5, <1>6, InductionTo
    <2> QED BY <1>2, <2>1
  <1>8. 1 \in 1 .. L + 1 /\ 1 >= L + 1 - L
    BY <1>2
  <1>9. A[1] \subseteq Seq(T)
    BY <1>7, <1>8
  <1> QED BY <1>3, <1>9 DEF DecodeAndValidate

NoDots(w) == \A i \in 1 .. Len(w) - 1 : ~(w[i] = "." /\ w[i + 1] = ".")

\* find("..") finds nothing exactly if no two dots follow each other.
LEMMA FindDots ==
    ASSUME NEW S, NEW w \in Seq(S)
    PROVE  Find(w, <<".", ".">>, 1) = 0 <=> NoDots(w)
  <1>1. PICK dots : dots = <<".", ".">>
    OBVIOUS
  <1>2. Len(dots) = 2 /\ dots[1] = "." /\ dots[2] = "." /\ Len(w) \in Nat
    BY <1>1
  <1>3. PICK at : at = {i \in 1 .. Len(w) - Len(dots) + 1 : SubSeq(w, i, i + Len(dots) - 1) = dots}
    OBVIOUS
  <1>4. Find(w, dots, 1) = IF at = {} THEN 0 ELSE CHOOSE i \in at : \A j \in at : i <= j
    BY <1>3 DEF Find
  <1>5. Len(w) - Len(dots) + 1 = Len(w) - 1
    BY <1>2
  <1>6. ASSUME NEW i \in 1 .. Len(w) - 1
        PROVE  SubSeq(w, i, i + Len(dots) - 1) = dots <=> w[i] = "." /\ w[i + 1] = "."
    <2>1. i + Len(dots) - 1 = i + 1 /\ i \in 1 .. Len(w) /\ i + 1 \in 1 .. Len(w)
      BY <1>2
    <2>2. PICK p : p = SubSeq(w, i, i + 1)
      OBVIOUS
    <2>3. p \in Seq(S) /\ Len(p) = 2 /\ p[1] = w[i] /\ p[2] = w[i + 1]
      <3>1. PICK j : j = i + 1
        OBVIOUS
      <3>2. i \in 1 .. Len(w) /\ j \in 1 .. Len(w) /\ j - i + 1 = 2 /\ i + 1 - 1 = i /\ i + 2 - 1 = j
        BY <2>1, <3>1
      <3>3. \A m, n \in 1 .. Len(w) : m <= n =>
               /\ SubSeq(w, m, n) \in Seq(S) /\ Len(SubSeq(w, m, n)) = n - m + 1
               /\ \A k \in 1 .. n - m + 1 : SubSeq(w, m, n)[k] = w[m + k - 1]
        OBVIOUS
      <3>4. i <= j
        BY <3>1
      <3>5. p \in Seq(S) /\ Len(p) = j - i + 1 /\ \A k \in 1 .. j - i + 1 : p[k] = w[i + k - 1]
        BY <2>2, <3>1, <3>2, <3>3, <3>4
      <3>6. 1 \in 1 .. 2 /\ 2 \in 1 .. 2
        OBVIOUS
      <3>7. p[1] = w[i + 1 - 1] /\ p[2] = w[i + 2 - 1]
        BY <3>2, <3>5, <3>6
      <3> QED BY <3>1, <3>2, <3>5, <3>7
    <2>4. p = dots <=> p[1] = "." /\ p[2] = "."
      <3>1. ASSUME p[1] = ".", p[2] = "."
            PROVE  p = dots
        <4>1. dots \in Seq({"."})
          BY <1>1
        <4>2. \A k \in 1 .. 2 : p[k] = dots[k]
          <5>1. \A k \in 1 .. 2 : k = 1 \/ k = 2
            OBVIOUS
          <5> QED BY <1>2, <3>1, <5>1
        <4> QED BY <1>2, <2>3, <4>1, <4>2
      <3> QED BY <1>2, <3>1
    <2> QED BY <2>1, <2>2, <2>3, <2>4
  <1>7. at = {i \in 1 .. Len(w) - 1 : w[i] = "." /\ w[i + 1] = "."}
    BY <1>3, <1>5, <1>6
  <1>8. at \subseteq Nat /\ 0 \notin at
    BY <1>7
  <1>9. at # {} => Find(w, dots, 1) # 0
    <2>1. at # {} => \E i \in at : \A j \in at : i <= j
      BY <1>8, MinFacts
    <2> QED BY <1>4, <1>8, <2>1
  <1>10. at = {} <=> NoDots(w)
    BY <1>7 DEF NoDots
  <1> QED BY <1>1, <1>4, <1>9, <1>10

\* A path that was validated stays under doc_root when get_file completes it and
\* ifstream cuts it at a zero byte.
LEMMA OpenedUnderRoot ==
    ASSUME NEW T, Bytes \subseteq T, NEW w \in Seq(T), IsAbsolute(w), NEW o, o = Opened(w), o # <<>>
    PROVE  o[1] = "/" /\ Find(o, <<".", ".">>, 1) = 0
  <1>1. w # <<>> /\ w[1] = "/" /\ NoDots(w) /\ Len(w) \in Nat /\ Len(w) > 0
    BY FindDots DEF IsAbsolute
  <1>2. PICK p : p = FullPath(w)
    OBVIOUS
  <1>3. PICK tail : tail = <<"/", "index", ".", "html">>
    OBVIOUS
  <1>4. /\ tail \in Seq(T) /\ Len(tail) = 4 /\ tail[1] = "/" /\ tail[2] = "index" /\ tail[3] = "."
        /\ tail[4] = "html"
    <2>1. "/" \in Bytes /\ "index" \in Bytes /\ "." \in Bytes /\ "html" \in Bytes
      BY DEF Bytes, Tspecial, Words, Ordinary
    <2>2. "/" \in T /\ "index" \in T /\ "." \in T /\ "html" \in T
      BY <2>1
    <2>3. tail \in Seq(T)
      BY <1>3, <2>2
    <2>4. Len(tail) = 4
      BY <1>3
    <2>5. tail[1] = "/" /\ tail[2] = "index"
      BY <1>3
    <2>6. tail[3] = "." /\ tail[4] = "html"
      BY <1>3
    <2> QED BY <2>3, <2>4, <2>5, <2>6
  <1>5. p \in Seq(T) /\ Len(p) \in Nat /\ Len(p) > 0 /\ p[1] = "/" /\ NoDots(p)
    <2>1. CASE Last(w) = "/"
      <3>1. p = w \o tail
        BY <1>2, <1>3, <2>1 DEF FullPath
      <3>2. /\ p \in Seq(T) /\ Len(p) = Len(w) + 4
            /\ \A i \in 1 .. Len(w) : p[i] = w[i]
            /\ \A i \in Len(w) + 1 .. Len(w) + 4 : p[i] = tail[i - Len(w)]
        <4>1. \A x \in Seq(T) : \A y \in Seq(T) :
                 /\ x \o y \in Seq(T) /\ Len(x \o y) = Len(x) + Len(y)
                 /\ \A i \in 1 .. Len(x) : (x \o y)[i] = x[i]
                 /\ \A i \in Len(x) + 1 .. Len(x) + Len(y) : (x \o y)[i] = y[i - Len(x)]
          OBVIOUS
        <4>2. w \in Seq(T) /\ tail \in Seq(T) /\ Len(tail) = 4
          BY <1>4
        <4>3. /\ w \o tail \in Seq(T) /\ Len(w \o tail) = Len(w) + Len(tail)
              /\ \A i \in 1 .. Len(w) : (w \o tail)[i] = w[i]
              /\ \A i \in Len(w) + 1 .. Len(w) + Len(tail) : (w \o tail)[i] = tail[i - Len(w)]
          BY <4>1, <4>2, Zenon
        <4> QED BY <3>1, <4>2, <4>3
      <3>3. w[Len(w)] = "/"
        BY <2>1 DEF Last
      <3>4. ASSUME NEW i \in 1 .. Len(p) - 1, p[i] = ".", p[i + 1] = "."
            PROVE  FALSE
        <4>1. CASE i < Len(w)
          <5>1. i \in 1 .. Len(w) /\ i + 1 \in 1 .. Len(w) /\ i \in 1 .. Len(w) - 1
            BY <1>1, <4>1
          <5>2. w[i] = "." /\ w[i + 1] = "."
            BY <3>2, <3>4, <5>1
          <5> QED BY <1>1, <5>1, <5>2 DEF NoDots
        <4>2. CASE i = Len(w)
          <5>1. i \in 1 .. Len(w)
            BY <1>1, <4>2
          <5>2. p[i] = "/"
            BY <3>2, <3>3, <4>2, <5>1
          <5> QED BY <3>4, <5>2
        <4>3. CASE i > Len(w)
          <5>1. PICK j : j = i - Len(w)
            OBVIOUS
          <5>2. j \in 1 .. 3 /\ i \in Len(w) + 1 .. Len(w) + 4 /\ i + 1 \in Len(w) + 1 .. Len(w) + 4 /\ (i + 1) - Len(w) = j + 1
            BY <1>1, <3>2, <4>3, <5>1
          <5>3. p[i] = tail[j] /\ p[i + 1] = tail[j + 1]
            BY <3>2, <5>1, <5>2
          <5>4. CASE j = 1
            BY <1>4, <3>4, <5>3, <5>4
          <5>5. CASE j = 2
            BY <1>4, <3>4, <5>3, <5>5
          <5>6. CASE j = 3
            BY <1>4, <3>4, <5>3, <5>6
          <5> QED BY <5>2, <5>4, <5>5, <5>6
        <4> QED BY <1>1, <4>1, <4>2, <4>3
      <3>5. NoDots(p)
        BY <3>4 DEF NoDots
      <3>6. 1 \in 1 .. Len(w) /\ Len(p) \in Nat /\ Len(p) > 0
        BY <1>1, <3>2
      <3> QED BY <1>1, <3>2, <3>5, <3>6
    <2>2. CASE Last(w) # "/"
      BY <1>1, <1>2, <2>2 DEF FullPath
    <2> QED BY <2>1, <2>2
  <1>6. PICK n \in 0 .. Len(p) : o = SubSeq(p, 1, n)
    <2>1. PICK I : I = {i \in 1 .. Len(p) : p[i] \in {"nul"}}
      OBVIOUS
    <2>2. PICK nul : nul = IF I # {} THEN Min(I) ELSE 0
      OBVIOUS
    <2>3. o = IF nul = 0 THEN p ELSE SubSeq(p, 1, nul - 1)
      BY <1>2, <2>1, <2>2 DEF Opened, CString, FirstOf, SelectInSeq, Before
    <2>4. I \subseteq Nat /\ I \subseteq 1 .. Len(p)
      BY <1>5, <2>1
    <2>5. nul = 0 \/ nul \in 1 .. Len(p)
      BY <2>2, <2>4, MinFacts
    <2>6. CASE nul = 0
      <3>1. SubSeq(p, 1, Len(p)) = p /\ Len(p) \in 0 .. Len(p)
        BY <1>5
      <3> QED BY <2>3, <2>6, <3>1
    <2>7. CASE nul \in 1 .. Len(p)
      <3>1. nul - 1 \in 0 .. Len(p) /\ nul # 0
        BY <1>5, <2>7
      <3> QED BY <2>3, <3>1
    <2> QED BY <2>5, <2>6, <2>7
  <1>7. /\ o \in Seq(T) /\ Len(o) = n /\ \A i \in 1 .. n : o[i] = p[i]
    BY <1>5, <1>6
  <1>8. n # 0
    BY <1>7
  <1>9. o[1] = "/"
    <2>1. 1 \in 1 .. n
      BY <1>6, <1>8
    <2> QED BY <1>5, <1>7, <2>1
  <1>10. NoDots(o)
    <2>1. ASSUME NEW i \in 1 .. Len(o) - 1, o[i] = ".", o[i + 1] = "."
          PROVE  FALSE
      <3>1. i \in 1 .. n /\ i + 1 \in 1 .. n /\ i \in 1 .. Len(p) - 1
        BY <1>5, <1>6, <1>7
      <3>2. p[i] = "." /\ p[i + 1] = "."
        BY <1>7, <2>1, <3>1
      <3> QED BY <1>5, <3>1, <3>2 DEF NoDots
    <2> QED BY <2>1 DEF NoDots
  <1> QED BY <1>7, <1>9, <1>10, FindDots

-----------------------------------------------------------------------------
(* The parser: a byte is appended to the uri, or leaves it alone.          *)

\* The fields of the parser's state that parse() assigns to are there.
Shaped(s) == DOMAIN s = {"state", "req", "result"} /\ "uri" \in DOMAIN s.req

\* A step of parse() leaves the uri alone, or appends ch to it.
UriKept(s, t) == Shaped(t) /\ t.req.uri = s.req.uri
UriGrown(s, t, ch) == Shaped(t) /\ t.req.uri = Append(s.req.uri, ch)

\* What the operations on the state of the parser do to the uri.
LEMMA UriOperations ==
    ASSUME NEW s, Shaped(s), NEW ch
    PROVE  /\ \A q : UriKept(s, Goto(s, q))
           /\ \A r : UriKept(s, Verdict(s, r))
           /\ UriKept(s, Invalid(s))
           /\ \A f : f # "uri" => UriKept(s, Push(s, f, ch)) /\ UriKept(s, PushPair(s, f))
           /\ \A f, part : f # "uri" => UriKept(s, PushBack(s, f, part, ch))
           /\ UriGrown(s, Push(s, "uri", ch), ch)
  <1>1. \A q : UriKept(s, Goto(s, q))
    BY DEF Shaped, UriKept, Goto
  <1>2. \A r : UriKept(s, Verdict(s, r))
    BY DEF Shaped, UriKept, Verdict
  <1>3. UriKept(s, Invalid(s))
    BY <1>2 DEF Invalid
  <1>4. \A f : f # "uri" => UriKept(s, Push(s, f, ch))
    BY DEF Shaped, UriKept, Push
  <1>5. \A f : f # "uri" => UriKept(s, PushPair(s, f))
    BY DEF Shaped, UriKept, PushPair
  <1>6. \A f, part : f # "uri" => UriKept(s, PushBack(s, f, part, ch))
    BY DEF Shaped, UriKept, PushBack
  <1>7. UriGrown(s, Push(s, "uri", ch), ch)
    BY DEF Shaped, UriGrown, Push
  <1> QED BY <1>1, <1>2, <1>3, <1>4, <1>5, <1>6, <1>7

\* The same, when several of them follow each other.
LEMMA UriChains ==
    ASSUME NEW s, Shaped(s), NEW ch, NEW t, UriKept(s, t) \/ UriGrown(s, t, ch), NEW u, UriKept(t, u)
    PROVE  UriKept(s, u) \/ UriGrown(s, u, ch)
  BY DEF UriKept, UriGrown

\* Numbers in other fields than the uri.
LEMMA UriOther ==
    ASSUME NEW s, Shaped(s), NEW f, f # "uri", NEW v
    PROVE  UriKept(s, [s EXCEPT !.req[f] = v])
  BY DEF Shaped, UriKept

\* One iteration of parse() leaves the uri alone, or appends the byte to it.
LEMMA IterationUri ==
    ASSUME NEW s, Shaped(s), NEW ch, NEW t, t = Iteration(s, ch)
    PROVE  UriKept(s, t) \/ UriGrown(s, t, ch)
  <1> DEFINE Ok(u) == UriKept(s, u) \/ UriGrown(s, u, ch)
  <1>1. /\ \A q : Ok(Goto(s, q))
        /\ \A r : Ok(Verdict(s, r))
        /\ Ok(Invalid(s)) /\ Ok(s)
        /\ \A f : Ok(PushPair(s, f)) \/ f = "uri"
        /\ \A f : Ok(Push(s, f, ch)) 
        /\ \A f, part : Ok(PushBack(s, f, part, ch)) \/ f = "uri"
    <2>1. UriKept(s, s)
      BY DEF UriKept
    <2>2. \A f : f = "uri" \/ f # "uri"
      OBVIOUS
    <2> QED BY <2>1, <2>2, UriOperations
  <1>2. ASSUME NEW u, Ok(u)
        PROVE  /\ \A q : Ok(Goto(u, q))
               /\ \A r : Ok(Verdict(u, r))
               /\ \A f : f # "uri" => Ok(Push(u, f, ch)) /\ Ok(PushPair(u, f))
               /\ \A f, part : f # "uri" => Ok(PushBack(u, f, part, ch))
    <2>1. Shaped(u)
      BY <1>2 DEF UriKept, UriGrown
    <2>2. /\ \A q : UriKept(u, Goto(u, q))
          /\ \A r : UriKept(u, Verdict(u, r))
          /\ \A f : f # "uri" => UriKept(u, Push(u, f, ch)) /\ UriKept(u, PushPair(u, f))
          /\ \A f, part : f # "uri" => UriKept(u, PushBack(u, f, part, ch))
      BY <2>1, UriOperations
    <2>3. \A v : UriKept(u, v) => Ok(v)
      BY <1>2, UriChains
    <2> QED BY <2>2, <2>3
  <1>3. "method" # "uri" /\ "params" # "uri" /\ "headers" # "uri" /\ "content" # "uri" /\ "major" # "uri" /\ "minor" # "uri"
        /\ "content_length" # "uri"
    OBVIOUS
  <1> HIDE DEF Ok
  <1>4. Ok(OnLiteral(s, ch))
    BY <1>1 DEF OnLiteral
  <1>5. Ok(OnMethod(s, ch))
    BY <1>1, <1>2, <1>3 DEF OnMethod
  <1>6. Ok(OnUri(s, ch))
    BY <1>1, <1>2, <1>3 DEF OnUri
  <1>7. Ok(OnParam(s, ch))
    BY <1>1, <1>2, <1>3 DEF OnParam
  <1>8. Ok(OnVersion(s, ch))
    <2>1. PICK n : n = IF s.state \in {"http_version_major_start", "http_version_major"} THEN "major" ELSE "minor"
      OBVIOUS
    <2>2. n # "uri"
      BY <1>3, <2>1
    <2>3. PICK u : u = [s EXCEPT !.req[n] = 10 * s.req[n] + Value(ch)]
      OBVIOUS
    <2>4. Ok(u)
      BY <2>2, <2>3, UriOther DEF Ok
    <2> QED BY <1>1, <1>2, <2>1, <2>3, <2>4 DEF OnVersion
  <1>9. Ok(OnHeaderLineStart(s, ch))
    BY <1>1, <1>2, <1>3 DEF OnHeaderLineStart
  <1>10. Ok(OnHeaderLws(s, ch))
    BY <1>1, <1>2, <1>3 DEF OnHeaderLws
  <1>11. Ok(OnHeaderName(s, ch))
    BY <1>1, <1>2, <1>3 DEF OnHeaderName
  <1>12. Ok(OnHeaderValue(s, ch))
    BY <1>1, <1>2, <1>3 DEF OnHeaderValue
  <1>13. Ok(OnHeadEnd(s, ch))
    <2>1. PICK n : n = Strtol(Header(s.req, <<"L">>))
      OBVIOUS
    <2>2. PICK u : u = [s EXCEPT !.req["content_length"] = n]
      OBVIOUS
    <2>3. Ok(u)
      BY <1>3, <2>2, UriOther DEF Ok
    <2> QED BY <1>1, <1>2, <2>1, <2>2, <2>3 DEF OnHeadEnd
  <1>14. Ok(Counted(s, ch))
    <2>1. PICK u : u = [s EXCEPT !.req["content_length"] = s.req["content_length"] - 1]
      OBVIOUS
    <2>2. Ok(u)
      BY <1>3, <2>1, UriOther DEF Ok
    <2>3. PICK v : v = Push(u, "content", ch)
      OBVIOUS
    <2>4. Ok(v)
      BY <1>2, <1>3, <2>2, <2>3
    <2>5. PICK n : n = Strtol(Header(s.req, <<"L">>))
      OBVIOUS
    <2>6. PICK x : x = [v EXCEPT !.req["content_length"] = n]
      OBVIOUS
    <2>7. Ok(x)
      <3>1. Shaped(v)
        BY <2>4 DEF Ok, UriKept, UriGrown
      <3>2. UriKept(v, x)
        BY <1>3, <2>6, <3>1, UriOther
      <3> QED BY <2>4, <3>2, UriChains DEF Ok
    <2>8. Counted(s, ch) = IF v.req.content_length = 0 THEN Verdict(x, "true") ELSE Goto(v, "content")
      BY <2>1, <2>3, <2>5, <2>6 DEF Counted
    <2> QED BY <1>2, <2>4, <2>7, <2>8
  <1>15. Ok(OnContent(s, ch))
    BY <1>1, <1>14 DEF OnContent
  <1>16. Ok(t)
    BY <1>1, <1>4, <1>5, <1>6, <1>7, <1>8, <1>9, <1>10, <1>11, <1>12, <1>13, <1>15 DEF Iteration
  <1> QED BY <1>16 DEF Ok

-----------------------------------------------------------------------------
(* The invariant                                                           *)

\* The uri is a sequence, whatever bytes have come in.
UriSound == "uri" \in DOMAIN req /\ \E T : req.uri \in Seq(T)

\* An answer is what handle_request made, for somebody, of the uri that was
\* parsed by then.
AnswerSound ==
    answer # NoAnswer =>
        \E r, env, T :
            LET handled == HandleRequest(r, env) IN
            /\ r.uri \in Seq(T)
            /\ answer = [res |-> handled.res, opened |-> handled.opened, signed_in |-> env.signed_in]

IInv == UriSound /\ AnswerSound

\* The invariant holds in every state of the parser and of what follows it.
THEOREM Invariance == Spec => []IInv
  <1>1. Init => IInv
    <2> SUFFICES ASSUME Init PROVE IInv
      OBVIOUS
    <2>1. UriSound
      <3>1. req = EmptyRequest
        BY DEF Init
      <3>2. req.uri = <<>> /\ "uri" \in DOMAIN req
        BY <3>1 DEF EmptyRequest
      <3>3. req.uri \in Seq({})
        BY <3>2
      <3> QED BY <3>2, <3>3 DEF UriSound
    <2>2. AnswerSound
      BY DEF Init, AnswerSound
    <2> QED BY <2>1, <2>2 DEF IInv
  <1>2. IInv /\ [Next]_vars => IInv'
    <2> SUFFICES ASSUME IInv, [Next]_vars PROVE IInv'
      OBVIOUS
    <2>1. ASSUME req' = req PROVE UriSound'
      BY <2>1 DEF IInv, UriSound
    <2>2. ASSUME answer' = answer PROVE AnswerSound'
      BY <2>2 DEF IInv, AnswerSound
    <2>3. CASE Call
      BY <2>1, <2>2, <2>3 DEF Call, IInv
    <2>4. CASE Iterate
      <3>1. PICK s : s = [state |-> state_, req |-> req, result |-> result]
        OBVIOUS
      <3>2. PICK ch : ch = input[begin + 1]
        OBVIOUS
      <3>3. PICK t : t = Iteration(s, ch)
        OBVIOUS
      <3>4. req' = t.req
        BY <2>4, <3>1, <3>2, <3>3 DEF Iterate
      <3>5. Shaped(s) /\ s.req = req
        BY <3>1 DEF IInv, UriSound, Shaped
      <3>6. UriKept(s, t) \/ UriGrown(s, t, ch)
        BY <3>3, <3>5, IterationUri
      <3>7. PICK T : req.uri \in Seq(T)
        BY DEF IInv, UriSound
      <3>8. PICK w : w = req.uri
        OBVIOUS
      <3>9. w \in Seq(T) /\ (t.req.uri = w \/ t.req.uri = Append(w, ch)) /\ "uri" \in DOMAIN t.req
        BY <3>5, <3>6, <3>7, <3>8 DEF UriKept, UriGrown, Shaped
      <3>10. \E X : t.req.uri \in Seq(X)
        <4>1. w \in Seq(T \cup {ch}) /\ Append(w, ch) \in Seq(T \cup {ch})
          BY <3>9, AppendAny
        <4> QED BY <3>9, <4>1
      <3>11. UriSound'
        BY <3>4, <3>9, <3>10 DEF UriSound
      <3>12. answer' = answer
        BY <2>4 DEF Iterate
      <3> QED BY <2>2, <3>11, <3>12 DEF IInv
    <2>5. CASE Decode
      BY <2>1, <2>2, <2>5 DEF Decode, IInv
    <2>6. CASE Handle
      <3>1. PICK T : req.uri \in Seq(T)
        BY DEF IInv, UriSound
      <3>2. PICK r : r = [uri |-> req.uri, headers |-> req.headers, params |-> data.params]
        OBVIOUS
      <3>3. PICK env \in Environments :
               answer' = [res |-> HandleRequest(r, env).res, opened |-> HandleRequest(r, env).opened,
                          signed_in |-> env.signed_in]
        BY <2>6, <3>2 DEF Handle
      <3>4. r.uri \in Seq(T)
        BY <3>1, <3>2
      <3>5. AnswerSound'
        BY <3>3, <3>4 DEF AnswerSound
      <3> QED BY <2>1, <2>6, <3>5 DEF Handle, IInv
    <2>7. CASE UNCHANGED vars
      BY <2>1, <2>2, <2>7 DEF vars, IInv
    <2>8. CASE Done
      BY <2>7, <2>8 DEF Done
    <2> QED BY <2>3, <2>4, <2>5, <2>6, <2>7, <2>8 DEF Next
  <1> QED BY <1>1, <1>2, PTL DEF Spec

\* An answer in a state of the invariant, with what handle_request promises.
LEMMA AnswerFacts ==
    ASSUME IInv, answer # NoAnswer
    PROVE  /\ Framed(answer.res)
           /\ ~answer.signed_in => OfForum(answer)
           /\ answer.opened = <<>> \/ \E T : \E w \in Seq(T) :
                 Bytes \subseteq T /\ IsAbsolute(w) /\ answer.opened = Opened(w)
  <1>1. PICK r, env, S :
           /\ r.uri \in Seq(S)
           /\ answer = [res |-> HandleRequest(r, env).res, opened |-> HandleRequest(r, env).opened,
                        signed_in |-> env.signed_in]
    BY DEF IInv, AnswerSound
  <1>2. PICK handled : handled = HandleRequest(r, env)
    OBVIOUS
  <1>3. answer.res = handled.res /\ answer.opened = handled.opened /\ answer.signed_in = env.signed_in
    BY <1>1, <1>2
  <1>4. /\ Framed(handled.res)
        /\ ~env.signed_in => OfForum(handled)
        /\ handled.opened = <<>> \/ \E w \in DecodeAndValidate(r.uri) : IsAbsolute(w) /\ handled.opened = Opened(w)
    BY <1>2, HandleFacts
  <1>5. PICK T : T = S \cup Bytes
    OBVIOUS
  <1>6. PICK v : v = r.uri
    OBVIOUS
  <1>7. v \in Seq(T)
    BY <1>1, <1>5, <1>6
  <1>8. DecodeAndValidate(v) \subseteq Seq(T)
    BY <1>5, <1>7, DecodedBytes
  <1>9. OfForum(handled) => OfForum(answer)
    BY <1>3 DEF OfForum
  <1> QED BY <1>3, <1>4, <1>5, <1>6, <1>8, <1>9

\* Every answer, of a route, of a file or of a failure, has one Content-Length, which
\* is that of the content as it is sent, says it is compressed exactly if it is, and
\* sets no cookie if it reports a failure.
THEOREM AnswersFramed == Spec => []AnswerFramed
  <1>1. IInv => AnswerFramed
    <2> SUFFICES ASSUME IInv, answer # NoAnswer
                 PROVE  LET hs == answer.res.headers
                            Of(name) == {i \in DOMAIN hs : hs[i].name = name}
                        IN /\ \E i \in DOMAIN hs : Of("Content-Length") = {i} /\ hs[i].value = answer.res.content
                           /\ (Of("Content-Encoding") # {})
                                  <=> (answer.res.content # <<>> /\ Head(answer.res.content) = "gzip")
                           /\ answer.res.status # "ok" => Of("Set-Cookie") = {}
      BY DEF AnswerFramed
    <2>1. Framed(answer.res)
      BY AnswerFacts
    <2> QED BY <2>1 DEF Framed, At
  <1> QED BY <1>1, Invariance, PTL

\* Whoever is not signed in gets no row of the forum and none of its pages by any uri,
\* any route or any file: at most a template, alone, as the static file the uri names.
THEOREM GuestsExcluded == Spec => []GuestsGetTemplatesOnly
  <1>1. IInv => GuestsGetTemplatesOnly
    <2> SUFFICES ASSUME IInv, answer # NoAnswer, ~answer.signed_in
                 PROVE  /\ Range(answer.res.content) \cap ForumData = {}
                        /\ Range(answer.res.content) \cap ForumTemplates # {} =>
                              /\ answer.opened \in DOMAIN Files
                              /\ Range(answer.res.content) \subseteq {"gzip", Files[answer.opened]}
      BY DEF GuestsGetTemplatesOnly
    <2>1. OfForum(answer)
      BY AnswerFacts
    <2> QED BY <2>1 DEF OfForum, Forum
  <1> QED BY <1>1, Invariance, PTL

\* Whatever bytes the uri has and however they are encoded, the file that get_file
\* opens is under doc_root: its path is absolute and has no "..".
THEOREM FilesUnderRoot == Spec => []UnderRoot
  <1>1. IInv => UnderRoot
    <2> SUFFICES ASSUME IInv, answer.opened # <<>>
                 PROVE  answer.opened[1] = "/" /\ Find(answer.opened, <<".", ".">>, 1) = 0
      BY DEF UnderRoot
    <2>1. answer # NoAnswer
      BY DEF NoAnswer
    <2>2. PICK T : \E w \in Seq(T) : Bytes \subseteq T /\ IsAbsolute(w) /\ answer.opened = Opened(w)
      BY <2>1, AnswerFacts
    <2>3. PICK w \in Seq(T) : Bytes \subseteq T /\ IsAbsolute(w) /\ answer.opened = Opened(w)
      BY <2>2
    <2>4. PICK o : o = answer.opened
      OBVIOUS
    <2>5. o[1] = "/" /\ Find(o, <<".", ".">>, 1) = 0
      BY <2>3, <2>4, OpenedUnderRoot
    <2> QED BY <2>4, <2>5
  <1> QED BY <1>1, Invariance, PTL

-----------------------------------------------------------------------------
(* Texts                                                                   *)

\* How texts are put together, byte by byte.
LEMMA Texts ==
    ASSUME NEW S
    PROVE  /\ \A u, v \in Seq(S) : u \o v \in Seq(S) /\ Len(u \o v) = Len(u) + Len(v) /\ Len(u) \in Nat
           /\ \A u, v, w \in Seq(S) : (u \o v) \o w = u \o (v \o w)
           /\ \A u, v \in Seq(S), x \in S : Append(u \o v, x) = u \o Append(v, x)
           /\ \A u \in Seq(S), x \in S : Append(u, x) = u \o <<x>> /\ Append(u, x) \in Seq(S) /\ <<x>> \in Seq(S)
           /\ \A u \in Seq(S) : u \o <<>> = u /\ <<>> \o u = u
           /\ <<>> \in Seq(S)
  <1>1. \A u, v, w \in Seq(S) : (u \o v) \o w = u \o (v \o w)
    OBVIOUS
  <1>2. \A u, v \in Seq(S), x \in S : Append(u \o v, x) = u \o Append(v, x)
    OBVIOUS
  <1>3. \A u \in Seq(S), x \in S : Append(u, x) = u \o <<x>> /\ Append(u, x) \in Seq(S) /\ <<x>> \in Seq(S)
    OBVIOUS
  <1>4. \A u \in Seq(S) : u \o <<>> = u /\ <<>> \o u = u
    OBVIOUS
  <1>5. \A u, v \in Seq(S) : u \o v \in Seq(S) /\ Len(u \o v) = Len(u) + Len(v) /\ Len(u) \in Nat
    OBVIOUS
  <1>6. <<>> \in Seq(S)
    OBVIOUS
  <1> QED BY <1>1, <1>2, <1>3, <1>4, <1>5, <1>6

\* A function that a recursion over the positions up to n determines.
Solves(f, n, T, base, step) ==
    f \in [0 .. n -> T] /\ f[0] = base /\ \A i \in 1 .. n : f[i] = step[<<i, f[i - 1]>>]

\* Two functions that start the same and take the same steps, and two with the
\* same values.
InStep(f, g, n) == f[0] = g[0] /\ \A i \in 1 .. n : f[i - 1] = g[i - 1] => f[i] = g[i]
Alike(f, g, n) == \A i \in 0 .. n : f[i] = g[i]

\* A recursion over positions, with its step as a function, has a solution.
LEMMA Recursion ==
    ASSUME NEW n \in Nat, NEW T, NEW base \in T, NEW step \in [(1 .. n) \X T -> T]
    PROVE  \E f : Solves(f, n, T, base, step)
  <1> DEFINE Partial(m, f) == f \in [0 .. m -> T] /\ f[0] = base /\ \A i \in 1 .. m : f[i] = step[<<i, f[i - 1]>>]
  <1> DEFINE Some == {m \in 0 .. n : \E f : Partial(m, f)}
  <1>1. 0 \in Some
    <2>1. PICK f : f = [i \in 0 .. 0 |-> base]
      OBVIOUS
    <2>2. Partial(0, f)
      BY <2>1
    <2> QED BY <2>2
  <1>2. ASSUME NEW m \in 1 .. n, m - 1 \in Some
        PROVE  m \in Some
    <2>1. PICK f : Partial(m - 1, f)
      BY <1>2
    <2>2. m - 1 \in 0 .. m - 1 /\ f[m - 1] \in T
      BY <2>1
    <2>3. PICK g : g = [i \in 0 .. m |-> IF i = m THEN step[<<m, f[m - 1]>>] ELSE f[i]]
      OBVIOUS
    <2>4. step[<<m, f[m - 1]>>] \in T
      BY <2>2
    <2>5. \A i \in 0 .. m - 1 : g[i] = f[i] /\ f[i] \in T
      BY <2>1, <2>3
    <2>6. g \in [0 .. m -> T]
      <3>1. ASSUME NEW i \in 0 .. m
            PROVE  g[i] \in T
        <4>1. i = m \/ i \in 0 .. m - 1
          OBVIOUS
        <4> QED BY <2>3, <2>4, <2>5, <4>1
      <3> QED BY <2>3, <3>1
    <2>7. ASSUME NEW i \in 1 .. m
          PROVE  g[i] = step[<<i, g[i - 1]>>]
      <3>1. i - 1 \in 0 .. m - 1 /\ g[i - 1] = f[i - 1]
        BY <2>5
      <3>2. CASE i = m
        <4>1. g[m] = step[<<m, f[m - 1]>>]
          BY <2>3
        <4>2. g[m - 1] = f[m - 1]
          BY <3>1, <3>2, Zenon
        <4> QED BY <3>2, <4>1, <4>2, Zenon
      <3>3. CASE i # m
        <4>1. i \in 1 .. m - 1 /\ i \in 0 .. m - 1
          BY <3>3
        <4> QED BY <2>1, <2>5, <3>1, <4>1
      <3> QED BY <3>2, <3>3
    <2>8. g[0] = base
      BY <2>1, <2>5
    <2> QED BY <2>6, <2>7, <2>8
  <1>3. n \in Some
    <2> HIDE DEF Some
    <2>1. \A k \in 0 .. n : k \in Some
      BY <1>1, <1>2, InductionTo
    <2> QED BY <2>1
  <1> QED BY <1>3 DEF Solves

\* Two functions that follow the same recursion agree.
LEMMA Agreement ==
    ASSUME NEW n \in Nat, NEW f, NEW g, InStep(f, g, n)
    PROVE  Alike(f, g, n)
  <1> DEFINE Same == {i \in 0 .. n : f[i] = g[i]}
  <1>1. 0 \in Same /\ \A k \in 1 .. n : k - 1 \in Same => k \in Same
    BY DEF InStep
  <1> HIDE DEF Same
  <1>2. \A k \in 0 .. n : k \in Same
    BY <1>1, InductionTo
  <1> QED BY <1>2 DEF Same, Alike

\* What FlattenSeq computes, position by position.
LEMMA FlattenDef ==
    ASSUME NEW S, NEW ss \in Seq(Seq(S)), ss # <<>>
    PROVE  \E f \in [1 .. Len(ss) -> Seq(S)] :
              /\ f[1] = ss[1] /\ (\A i \in 2 .. Len(ss) : f[i] = f[i - 1] \o ss[i])
              /\ FlattenSeq(ss) = f[Len(ss)]
  <1>1. PICK n : n = Len(ss)
    OBVIOUS
  <1>2. n \in Nat /\ n > 0 /\ 1 \in 1 .. n /\ \A i \in 1 .. n : ss[i] \in Seq(S)
    BY <1>1
  <1>3. PICK step : step = [x \in (1 .. n) \X Seq(S) |-> IF x[1] = 1 THEN ss[1] ELSE x[2] \o ss[x[1]]]
    OBVIOUS
  <1>4. step \in [(1 .. n) \X Seq(S) -> Seq(S)]
    <2>1. ASSUME NEW x \in (1 .. n) \X Seq(S)
          PROVE  step[x] \in Seq(S)
      <3>1. x[1] \in 1 .. n /\ x[2] \in Seq(S) /\ ss[x[1]] \in Seq(S) /\ ss[1] \in Seq(S)
        BY <1>2
      <3>2. x[2] \o ss[x[1]] \in Seq(S)
        BY <3>1
      <3> QED BY <1>3, <3>1, <3>2
    <2> QED BY <1>3, <2>1
  <1>5. PICK h \in [0 .. n -> Seq(S)] : h[0] = <<>> /\ \A i \in 1 .. n : h[i] = step[<<i, h[i - 1]>>]
    <2>1. PICK T : T = Seq(S)
      OBVIOUS
    <2>2. PICK b : b = <<>>
      OBVIOUS
    <2>3. b \in T /\ n \in Nat /\ step \in [(1 .. n) \X T -> T]
      BY <1>2, <1>4, <2>1, <2>2
    <2>4. \E h : Solves(h, n, T, b, step)
      BY <2>3, Recursion, Zenon
    <2> QED BY <2>1, <2>2, <2>4 DEF Solves
  <1>6. PICK e : e = [i \in 1 .. n |-> h[i]]
    OBVIOUS
  <1> DEFINE Full(g) == [i \in 1 .. Len(ss) |-> IF i = 1 THEN ss[i] ELSE g[i - 1] \o ss[i]]
  <1>7. e = Full(e)
    <2>1. ASSUME NEW i \in 1 .. n
          PROVE  e[i] = IF i = 1 THEN ss[i] ELSE e[i - 1] \o ss[i]
      <3>1. i - 1 \in 0 .. n /\ h[i - 1] \in Seq(S) /\ <<i, h[i - 1]>> \in (1 .. n) \X Seq(S)
        BY <1>2
      <3>2. h[i] = IF i = 1 THEN ss[1] ELSE h[i - 1] \o ss[i]
        BY <1>3, <1>5, <3>1
      <3>3. i # 1 => i - 1 \in 1 .. n
        BY <1>2
      <3> QED BY <1>6, <3>2, <3>3
    <2> QED BY <1>1, <1>6, <2>1
  <1>8. \E g : g = Full(g)
    BY <1>7
  <1>9. PICK f : f = CHOOSE g : g = Full(g)
    OBVIOUS
  <1>10. FlattenSeq(ss) = f[Len(ss)]
    BY <1>1, <1>2, <1>9 DEF FlattenSeq
  <1> HIDE DEF Full
  <1>11. f = Full(f)
    BY <1>8, <1>9
  <1>12. ASSUME NEW g, g = Full(g)
         PROVE  \A i \in 1 .. n : g[i] = IF i = 1 THEN ss[i] ELSE g[i - 1] \o ss[i]
    <2>1. ASSUME NEW i \in 1 .. n
          PROVE  Full(g)[i] = IF i = 1 THEN ss[i] ELSE g[i - 1] \o ss[i]
      BY <1>1 DEF Full
    <2> QED BY <1>12, <2>1
  <1>13. DOMAIN f = 1 .. n
    <2>1. \A g : DOMAIN Full(g) = 1 .. n
      BY <1>1 DEF Full
    <2>2. DOMAIN Full(f) = 1 .. n
      BY <2>1
    <2> QED BY <1>11, <2>2
  <1>14. \A i \in 1 .. n : f[i] = IF i = 1 THEN ss[i] ELSE f[i - 1] \o ss[i]
    BY <1>11, <1>12
  <1>15. f \in [1 .. n -> Seq(S)]
    <2>1. PICK k : k = [i \in 0 .. n |-> IF i = 0 THEN <<>> ELSE f[i]]
      OBVIOUS
    <2>2. k[0] = h[0]
      BY <1>2, <1>5, <2>1
    <2>3. ASSUME NEW i \in 1 .. n, k[i - 1] = h[i - 1]
          PROVE  k[i] = h[i]
      <3>1. i - 1 \in 0 .. n /\ h[i - 1] \in Seq(S) /\ <<i, h[i - 1]>> \in (1 .. n) \X Seq(S)
        BY <1>2
      <3>2. h[i] = IF i = 1 THEN ss[1] ELSE h[i - 1] \o ss[i]
        BY <1>3, <1>5, <3>1
      <3>3. k[i] = f[i] /\ (i # 1 => k[i - 1] = f[i - 1])
        BY <1>2, <2>1, <3>1
      <3> QED BY <1>14, <2>3, <3>2, <3>3
    <2>4. \A i \in 1 .. n : k[i - 1] = h[i - 1] => k[i] = h[i]
      BY <2>3
    <2>5. \A i \in 0 .. n : k[i] = h[i]
      <3>1. InStep(k, h, n)
        BY <2>2, <2>4 DEF InStep
      <3>2. Alike(k, h, n)
        BY <1>2, <3>1, Agreement, Zenon
      <3> QED BY <3>2 DEF Alike
    <2>6. ASSUME NEW i \in 1 .. n
          PROVE  f[i] \in Seq(S)
      <3>1. i \in 0 .. n /\ i # 0
        BY <1>2
      <3>2. k[i] = f[i] /\ k[i] = h[i] /\ h[i] \in Seq(S)
        BY <2>1, <2>5, <3>1
      <3> QED BY <3>2
    <2>7. f = [i \in 1 .. n |-> f[i]]
      <3>1. ASSUME NEW g, g = Full(g)
            PROVE  g = [i \in DOMAIN g |-> g[i]]
        BY <3>1 DEF Full
      <3> QED BY <1>11, <1>13, <3>1
    <2> QED BY <2>6, <2>7
  <1>16. f[1] = ss[1] /\ \A i \in 2 .. n : f[i] = f[i - 1] \o ss[i]
    <2>1. \A i \in 2 .. n : i \in 1 .. n /\ i # 1
      BY <1>2
    <2> QED BY <1>2, <1>14, <2>1
  <1> QED BY <1>1, <1>10, <1>15, <1>16

\* One more piece goes to the end.
LEMMA FlattenAppend ==
    ASSUME NEW S, NEW ss \in Seq(Seq(S)), NEW x \in Seq(S)
    PROVE  /\ FlattenSeq(ss) \in Seq(S)
           /\ FlattenSeq(Append(ss, x)) = FlattenSeq(ss) \o x
  <1>1. PICK tt : tt = Append(ss, x)
    OBVIOUS
  <1>2. PICK n : n = Len(ss)
    OBVIOUS
  <1>3. /\ tt \in Seq(Seq(S)) /\ tt # <<>> /\ Len(tt) = n + 1 /\ n \in Nat /\ tt[n + 1] = x
        /\ \A i \in 1 .. n : tt[i] = ss[i] /\ ss[i] \in Seq(S)
    BY <1>1, <1>2
  <1>4. PICK g \in [1 .. n + 1 -> Seq(S)] :
              /\ g[1] = tt[1] /\ (\A i \in 2 .. n + 1 : g[i] = g[i - 1] \o tt[i])
              /\ FlattenSeq(tt) = g[n + 1]
    <2>1. \E g \in [1 .. Len(tt) -> Seq(S)] :
              /\ g[1] = tt[1] /\ (\A i \in 2 .. Len(tt) : g[i] = g[i - 1] \o tt[i])
              /\ FlattenSeq(tt) = g[Len(tt)]
      BY <1>3, FlattenDef
    <2> QED BY <1>3, <2>1
  <1>5. CASE n = 0
    <2>1. FlattenSeq(ss) = <<>> /\ FlattenSeq(tt) = x /\ ss = <<>>
      <3>1. ss = <<>> /\ Len(ss) = 0
        <4>1. PICK U : U = Seq(S)
          OBVIOUS
        <4>2. \A z \in Seq(U) : Len(z) = 0 => z = <<>>
          OBVIOUS
        <4> QED BY <1>2, <1>5, <4>1, <4>2
      <3>2. FlattenSeq(ss) = ss
        BY <3>1 DEF FlattenSeq
      <3>3. n + 1 = 1
        BY <1>5
      <3> QED BY <1>3, <1>4, <3>1, <3>2, <3>3
    <2> QED BY <1>1, <2>1, Texts
  <1>6. CASE n # 0
    <2>1. ss # <<>>
      BY <1>2, <1>6
    <2>2. PICK f \in [1 .. n -> Seq(S)] :
              /\ f[1] = ss[1] /\ (\A i \in 2 .. n : f[i] = f[i - 1] \o ss[i])
              /\ FlattenSeq(ss) = f[n]
      BY <1>2, <2>1, FlattenDef
    <2>3. PICK a : a = [i \in 0 .. n - 1 |-> f[i + 1]]
      OBVIOUS
    <2>4. PICK b : b = [i \in 0 .. n - 1 |-> g[i + 1]]
      OBVIOUS
    <2>5. a[0] = b[0]
      BY <1>3, <1>4, <1>6, <2>2, <2>3, <2>4
    <2>6. ASSUME NEW i \in 1 .. n - 1, a[i - 1] = b[i - 1]
          PROVE  a[i] = b[i]
      <3>1. i + 1 \in 2 .. n /\ i + 1 \in 2 .. n + 1 /\ i + 1 \in 1 .. n /\ (i + 1) - 1 = i /\ i \in 0 .. n - 1 /\ i - 1 \in 0 .. n - 1 /\ (i - 1) + 1 = i
        BY <1>3
      <3>2. a[i] = f[i] \o ss[i + 1]
        BY <2>2, <2>3, <3>1
      <3>3. b[i] = g[i] \o ss[i + 1]
        BY <1>3, <1>4, <2>4, <3>1
      <3>4. f[i] = g[i]
        BY <2>3, <2>4, <2>6, <3>1
      <3> QED BY <3>2, <3>3, <3>4
    <2>7. n - 1 \in Nat /\ n - 1 \in 0 .. n - 1 /\ (n - 1) + 1 = n
      BY <1>3, <1>6
    <2>8. a[n - 1] = b[n - 1]
      <3>1. \A i \in 1 .. n - 1 : a[i - 1] = b[i - 1] => a[i] = b[i]
        BY <2>6
      <3>2. InStep(a, b, n - 1)
        BY <2>5, <3>1 DEF InStep
      <3>3. Alike(a, b, n - 1)
        BY <2>7, <3>2, Agreement, Zenon
      <3> QED BY <2>7, <3>3 DEF Alike
    <2>9. f[n] = g[n] /\ f[n] \in Seq(S)
      BY <1>6, <2>2, <2>3, <2>4, <2>7, <2>8
    <2>10. g[n + 1] = g[n] \o x
      <3>1. n + 1 \in 2 .. n + 1 /\ (n + 1) - 1 = n
        BY <1>3, <1>6
      <3> QED BY <1>3, <1>4, <3>1
    <2> QED BY <1>1, <1>4, <2>2, <2>9, <2>10
  <1> QED BY <1>5, <1>6

\* The number that decimal digits stand for, as IsNumeral reads it.
NumberOf(w) ==
    LET value[i \in 0 .. Len(w)] == IF i = 0 THEN 0 ELSE 10 * value[i - 1] + Value(w[i])
    IN  value[Len(w)]

\* What NumberOf computes, digit by digit.
LEMMA NumberDef ==
    ASSUME NEW w \in Seq(Digits)
    PROVE  \E f \in [0 .. Len(w) -> Nat] :
              /\ f[0] = 0 /\ (\A i \in 1 .. Len(w) : f[i] = 10 * f[i - 1] + Value(w[i]))
              /\ NumberOf(w) = f[Len(w)]
  <1>1. PICK n : n = Len(w)
    OBVIOUS
  <1>2. n \in Nat /\ \A i \in 1 .. n : w[i] \in Digits
    BY <1>1
  <1>3. \A d \in Digits : Value(d) \in Nat
    BY DEF Digits, Value
  <1>4. PICK step : step = [x \in (1 .. n) \X Nat |-> 10 * x[2] + Value(w[x[1]])]
    OBVIOUS
  <1>5. step \in [(1 .. n) \X Nat -> Nat]
    <2>1. ASSUME NEW x \in (1 .. n) \X Nat
          PROVE  step[x] \in Nat
      <3>1. x[1] \in 1 .. n /\ x[2] \in Nat
        OBVIOUS
      <3>2. Value(w[x[1]]) \in Nat
        BY <1>2, <1>3, <3>1
      <3>3. \A k, v \in Nat : 10 * k + v \in Nat
        OBVIOUS
      <3> QED BY <1>4, <3>1, <3>2, <3>3
    <2> QED BY <1>4, <2>1
  <1>6. PICK h \in [0 .. n -> Nat] : h[0] = 0 /\ \A i \in 1 .. n : h[i] = step[<<i, h[i - 1]>>]
    <2>1. 0 \in Nat
      OBVIOUS
    <2>2. PICK T : T = Nat
      OBVIOUS
    <2>3. PICK b : b = 0
      OBVIOUS
    <2>4. b \in T /\ n \in Nat /\ step \in [(1 .. n) \X T -> T]
      BY <1>2, <1>5, <2>1, <2>2, <2>3
    <2>5. \E h : Solves(h, n, T, b, step)
      BY <2>4, Recursion, Zenon
    <2> QED BY <2>2, <2>3, <2>5 DEF Solves
  <1> DEFINE Full(g) == [i \in 0 .. Len(w) |-> IF i = 0 THEN 0 ELSE 10 * g[i - 1] + Value(w[i])]
  <1>7. h = Full(h)
    <2>1. ASSUME NEW i \in 0 .. n
          PROVE  h[i] = IF i = 0 THEN 0 ELSE 10 * h[i - 1] + Value(w[i])
      <3>1. CASE i = 0
        BY <1>6, <3>1
      <3>2. CASE i # 0
        <4>1. i \in 1 .. n /\ i - 1 \in 0 .. n /\ <<i, h[i - 1]>> \in (1 .. n) \X Nat
          BY <1>2, <3>2
        <4> QED BY <1>4, <1>6, <3>2, <4>1
      <3> QED BY <3>1, <3>2
    <2> QED BY <1>1, <1>6, <2>1
  <1>8. \E g : g = Full(g)
    BY <1>7
  <1>9. PICK f : f = CHOOSE g : g = Full(g)
    OBVIOUS
  <1>10. NumberOf(w) = f[Len(w)]
    BY <1>9 DEF NumberOf
  <1> HIDE DEF Full
  <1>11. f = Full(f)
    BY <1>8, <1>9
  <1>12. ASSUME NEW g, g = Full(g)
         PROVE  \A i \in 0 .. n : g[i] = IF i = 0 THEN 0 ELSE 10 * g[i - 1] + Value(w[i])
    <2>1. ASSUME NEW i \in 0 .. n
          PROVE  Full(g)[i] = IF i = 0 THEN 0 ELSE 10 * g[i - 1] + Value(w[i])
      BY <1>1 DEF Full
    <2> QED BY <1>12, <2>1
  <1>13. \A i \in 0 .. n : f[i] = IF i = 0 THEN 0 ELSE 10 * f[i - 1] + Value(w[i])
    BY <1>11, <1>12
  <1>14. \A i \in 0 .. n : f[i] = h[i]
    <2>1. f[0] = h[0]
      BY <1>2, <1>6, <1>13
    <2>2. ASSUME NEW i \in 1 .. n, f[i - 1] = h[i - 1]
          PROVE  f[i] = h[i]
      <3>1. i \in 0 .. n /\ i # 0
        BY <1>2
      <3>2. h[i] = IF i = 0 THEN 0 ELSE 10 * h[i - 1] + Value(w[i])
        BY <1>7, <1>12, <3>1
      <3> QED BY <1>13, <2>2, <3>1, <3>2
    <2>3. \A i \in 1 .. n : f[i - 1] = h[i - 1] => f[i] = h[i]
      BY <2>2
    <2>4. InStep(f, h, n)
      BY <2>1, <2>3 DEF InStep
    <2>5. Alike(f, h, n)
      BY <1>2, <2>4, Agreement, Zenon
    <2> QED BY <2>5 DEF Alike
  <1>15. DOMAIN f = 0 .. n
    <2>1. \A g : DOMAIN Full(g) = 0 .. n
      BY <1>1 DEF Full
    <2>2. DOMAIN Full(f) = 0 .. n
      BY <2>1
    <2> QED BY <1>11, <2>2
  <1>16. f = h
    <2>1. ASSUME NEW g, g = Full(g)
          PROVE  g = [i \in DOMAIN g |-> g[i]]
      BY <2>1 DEF Full
    <2>2. f = [i \in 0 .. n |-> f[i]] /\ h = [i \in 0 .. n |-> h[i]]
      BY <1>6, <1>11, <1>15, <2>1
    <2>3. f = [i \in 0 .. n |-> h[i]]
      BY <1>14, <2>2
    <2> QED BY <2>2, <2>3
  <1>17. \A i \in 1 .. n : f[i] = 10 * f[i - 1] + Value(w[i])
    BY <1>2, <1>13
  <1> QED BY <1>1, <1>6, <1>10, <1>16, <1>17

\* No digits stand for zero, and one more digit for ten times as much and itself.
LEMMA NumberAppend ==
    ASSUME NEW w \in Seq(Digits), NEW d \in Digits
    PROVE  /\ NumberOf(<<>>) = 0 /\ NumberOf(w) \in Nat
           /\ NumberOf(Append(w, d)) = 10 * NumberOf(w) + Value(d)
  <1>1. NumberOf(<<>>) = 0
    <2>1. PICK e : e = <<>>
      OBVIOUS
    <2>2. e \in Seq(Digits) /\ Len(e) = 0
      BY <2>1
    <2>3. \E f \in [0 .. Len(e) -> Nat] : f[0] = 0 /\ NumberOf(e) = f[Len(e)]
      BY <2>2, NumberDef
    <2> QED BY <2>1, <2>2, <2>3
  <1>2. PICK n : n = Len(w)
    OBVIOUS
  <1>3. PICK f \in [0 .. n -> Nat] :
            /\ f[0] = 0 /\ (\A i \in 1 .. n : f[i] = 10 * f[i - 1] + Value(w[i]))
            /\ NumberOf(w) = f[n]
    BY <1>2, NumberDef
  <1>4. n \in Nat /\ n \in 0 .. n
    BY <1>2
  <1>5. NumberOf(w) \in Nat
    BY <1>3, <1>4
  <1>6. PICK x : x = Append(w, d)
    OBVIOUS
  <1>7. x \in Seq(Digits) /\ Len(x) = n + 1 /\ x[n + 1] = d /\ \A i \in 1 .. n : x[i] = w[i]
    BY <1>2, <1>6
  <1>8. PICK g \in [0 .. n + 1 -> Nat] :
            /\ g[0] = 0 /\ (\A i \in 1 .. n + 1 : g[i] = 10 * g[i - 1] + Value(x[i]))
            /\ NumberOf(x) = g[n + 1]
    <2>1. \E g \in [0 .. Len(x) -> Nat] :
            /\ g[0] = 0 /\ (\A i \in 1 .. Len(x) : g[i] = 10 * g[i - 1] + Value(x[i]))
            /\ NumberOf(x) = g[Len(x)]
      BY <1>7, NumberDef
    <2> QED BY <1>7, <2>1
  <1>9. \A i \in 1 .. n : f[i - 1] = g[i - 1] => f[i] = g[i]
    <2>1. ASSUME NEW i \in 1 .. n, f[i - 1] = g[i - 1]
          PROVE  f[i] = g[i]
      <3>1. i \in 1 .. n + 1 /\ x[i] = w[i]
        BY <1>4, <1>7
      <3>2. f[i] = 10 * f[i - 1] + Value(w[i]) /\ g[i] = 10 * g[i - 1] + Value(x[i])
        BY <1>3, <1>8, <3>1
      <3> QED BY <2>1, <3>1, <3>2
    <2> QED BY <2>1
  <1>10. f[0] = g[0]
    BY <1>3, <1>8
  <1>11. \A i \in 0 .. n : f[i] = g[i]
    <2>1. InStep(f, g, n)
      BY <1>9, <1>10 DEF InStep
    <2>2. Alike(f, g, n)
      BY <1>4, <2>1, Agreement, Zenon
    <2> QED BY <2>2 DEF Alike
  <1>12. g[n + 1] = 10 * g[n] + Value(d)
    <2>1. n + 1 \in 1 .. n + 1 /\ (n + 1) - 1 = n
      BY <1>4
    <2> QED BY <1>7, <1>8, <2>1
  <1> QED BY <1>1, <1>3, <1>4, <1>5, <1>6, <1>8, <1>11, <1>12

\* Some digits are a numeral of the number they stand for.
LEMMA NumeralOf ==
    ASSUME NEW w \in Seq(Digits), w # <<>>
    PROVE  IsNumeral(w, NumberOf(w))
  <1>1. Range(w) \subseteq Digits
    BY DEF Range
  <1> QED BY <1>1 DEF IsNumeral, NumberOf

Pairs == [name : Seq(Bytes), value : Seq(Bytes)]

\* A header as it is sent, with the end of its line.
HeaderLine(p) == p.name \o <<":", "sp">> \o p.value \o CrLf

\* The names of the bytes that parse() looks for.
LEMMA SomeBytes ==
    /\ {"sp", "cr", "lf", "ht", "H", "T", "P", "/", ".", ":", "?", "=", "&"} \subseteq Bytes
    /\ Digits \subseteq Bytes /\ Ordinary \subseteq Bytes /\ "." \notin Digits
  BY DEF Bytes, Ctl, Tspecial, Ordinary, Digits

\* One more header is one more line.
LEMMA RenderAppend ==
    ASSUME NEW hs \in Seq(Pairs), NEW p \in Pairs
    PROVE  /\ RenderHeaders(<<>>) = <<>> /\ RenderHeaders(hs) \in Seq(Bytes) /\ HeaderLine(p) \in Seq(Bytes)
           /\ RenderHeaders(Append(hs, p)) = RenderHeaders(hs) \o HeaderLine(p)
  <1>1. ASSUME NEW q \in Pairs
        PROVE  HeaderLine(q) \in Seq(Bytes)
    <2>1. CrLf \in Seq(Bytes) /\ <<":", "sp">> \in Seq(Bytes)
      BY SomeBytes DEF CrLf
    <2>2. q.name \in Seq(Bytes) /\ q.value \in Seq(Bytes)
      BY DEF Pairs
    <2> QED BY <2>1, <2>2, Texts DEF HeaderLine
  <1>2. \A gs : RenderHeaders(gs) = FlattenSeq([i \in DOMAIN gs |-> HeaderLine(gs[i])])
    BY DEF RenderHeaders, HeaderLine
  <1>3. PICK ss : ss = [i \in DOMAIN hs |-> HeaderLine(hs[i])]
    OBVIOUS
  <1>4. PICK n : n = Len(hs)
    OBVIOUS
  <1>5. n \in Nat /\ DOMAIN hs = 1 .. n /\ \A i \in 1 .. n : hs[i] \in Pairs
    BY <1>4
  <1>6. ss \in Seq(Seq(Bytes)) /\ Len(ss) = n /\ \A i \in 1 .. n : ss[i] = HeaderLine(hs[i])
    <2>1. PICK U : U = Seq(Bytes)
      OBVIOUS
    <2>2. ss = [i \in 1 .. n |-> ss[i]] /\ \A i \in 1 .. n : ss[i] \in U /\ ss[i] = HeaderLine(hs[i])
      BY <1>1, <1>3, <1>5, <2>1
    <2>3. ss \in Seq(U) /\ Len(ss) = n
      BY <1>5, <2>2
    <2> QED BY <2>1, <2>2, <2>3
  <1>7. RenderHeaders(<<>>) = <<>>
    <2>1. PICK e : e = <<>>
      OBVIOUS
    <2>2. [i \in DOMAIN e |-> HeaderLine(e[i])] = <<>>
      BY <2>1
    <2>3. FlattenSeq(<<>>) = <<>>
      BY DEF FlattenSeq
    <2> QED BY <1>2, <2>1, <2>2, <2>3
  <1>8. PICK gs : gs = Append(hs, p)
    OBVIOUS
  <1>9. PICK x : x = HeaderLine(p)
    OBVIOUS
  <1>10. x \in Seq(Bytes)
    BY <1>1, <1>9
  <1>11. [i \in DOMAIN gs |-> HeaderLine(gs[i])] = Append(ss, x)
    <2>1. DOMAIN gs = 1 .. n + 1 /\ gs[n + 1] = p /\ \A i \in 1 .. n : gs[i] = hs[i]
      BY <1>4, <1>5, <1>8
    <2>2. PICK tt : tt = Append(ss, x)
      OBVIOUS
    <2>3. PICK U : U = Seq(Bytes)
      OBVIOUS
    <2>4. ss \in Seq(U) /\ x \in U
      BY <1>6, <1>10, <2>3
    <2>5. tt = [i \in 1 .. n + 1 |-> tt[i]] /\ tt[n + 1] = x /\ \A i \in 1 .. n : tt[i] = ss[i]
      <3>1. ASSUME NEW z \in Seq(U), NEW y \in U
            PROVE  /\ Append(z, y) = [i \in 1 .. Len(z) + 1 |-> Append(z, y)[i]] /\ Append(z, y)[Len(z) + 1] = y
                   /\ \A i \in 1 .. Len(z) : Append(z, y)[i] = z[i]
        <4>1. Append(z, y)[Len(z) + 1] = y /\ \A i \in 1 .. Len(z) : Append(z, y)[i] = z[i]
          OBVIOUS
        <4>2. PICK a : a = Append(z, y)
          OBVIOUS
        <4>3. a \in Seq(U) /\ Len(a) = Len(z) + 1
          BY <4>2
        <4>4. a = [i \in 1 .. Len(z) + 1 |-> a[i]]
          BY <4>3
        <4> QED BY <4>1, <4>2, <4>4
      <3>2. Len(ss) = n
        BY <1>5, <1>6
      <3> QED BY <2>2, <2>4, <3>1, <3>2, Zenon
    <2>6. ASSUME NEW i \in 1 .. n + 1
          PROVE  tt[i] = HeaderLine(gs[i])
      <3>1. i = n + 1 \/ i \in 1 .. n
        BY <1>5
      <3> QED BY <1>6, <1>9, <2>1, <2>5, <3>1
    <2> QED BY <2>1, <2>2, <2>5, <2>6
  <1>12. FlattenSeq(ss) \in Seq(Bytes) /\ FlattenSeq(Append(ss, x)) = FlattenSeq(ss) \o x
    BY <1>6, <1>10, FlattenAppend
  <1> QED BY <1>2, <1>3, <1>7, <1>8, <1>9, <1>10, <1>11, <1>12

-----------------------------------------------------------------------------
(* What the parser has read                                                *)

RequestFields == {"method", "uri", "params", "major", "minor", "headers", "content", "content_length"}

\* The parser's state and its request have their fields, and these their types.
Formed(s) == DOMAIN s = {"state", "req", "result"} /\ DOMAIN s.req = RequestFields

Typed(r) ==
    /\ r.method \in Seq(Bytes) /\ r.uri \in Seq(Bytes) /\ r.content \in Seq(Bytes)
    /\ r.headers \in Seq(Pairs)

\* The method and the uri as they are sent, and what precedes the version.
RequestLine(r) == r.method \o <<"sp">> \o r.uri
Start(r) == RequestLine(r) \o <<"sp", "H", "T", "T", "P", "/">>

\* The version, and all that is sent up to it.
Numbered(r, v) ==
    \E a, b \in Seq(Digits) :
        /\ a # <<>> /\ b # <<>> /\ v = a \o <<".">> \o b
        /\ NumberOf(a) = r.major /\ NumberOf(b) = r.minor

Versioned(r, d) == \E v \in Seq(Bytes) : Numbered(r, v) /\ d = Start(r) \o v

\* The headers after their empty line, and then the content.
Rest(r) == CrLf \o RenderHeaders(r.headers) \o CrLf \o r.content

Unversioned(r) == r.major = 0 /\ r.minor = 0 /\ r.headers = <<>> /\ r.content = <<>>

\* What has been read of " HTTP/".
VersionRead ==
    [http_version_h |-> <<"sp">>,
     http_version_t_1 |-> <<"sp", "H">>,
     http_version_t_2 |-> <<"sp", "H", "T">>,
     http_version_p |-> <<"sp", "H", "T", "T">>,
     http_version_slash |-> <<"sp", "H", "T", "T", "P">>,
     http_version_major_start |-> <<"sp", "H", "T", "T", "P", "/">>]

ReadMethod(q, r, c) ==
    /\ q \in {"method_start", "method"} /\ c = r.method /\ r.uri = <<>> /\ Unversioned(r)

ReadUri(q, r, c) ==
    /\ q \in {"uri", "param_name_start", "param_name", "param_value"}
    /\ c = RequestLine(r) /\ Unversioned(r)

ReadLiteral(q, r, c) ==
    /\ q \in DOMAIN VersionRead /\ c = RequestLine(r) \o VersionRead[q] /\ Unversioned(r)

ReadMajor(q, r, c) ==
    /\ q = "http_version_major" /\ r.minor = 0 /\ r.headers = <<>> /\ r.content = <<>>
    /\ \E a \in Seq(Digits) : a # <<>> /\ NumberOf(a) = r.major /\ c = Start(r) \o a

ReadMinor(q, r, c) ==
    /\ q \in {"http_version_minor_start", "http_version_minor"} /\ r.headers = <<>> /\ r.content = <<>>
    /\ \E a, b \in Seq(Digits) :
          /\ a # <<>> /\ NumberOf(a) = r.major /\ NumberOf(b) = r.minor
          /\ q = "http_version_minor" => b # <<>>
          /\ c = Start(r) \o (a \o <<".">> \o b)

ReadVersion(q, r, c) ==
    /\ q = "expecting_newline_1" /\ r.headers = <<>> /\ r.content = <<>>
    /\ \E d \in Seq(Bytes) : Versioned(r, d) /\ c = d \o <<"cr">>

ReadLine(q, r, c) ==
    /\ q = "header_line_start" /\ r.content = <<>>
    /\ \E d \in Seq(Bytes) : Versioned(r, d) /\ c = d \o (CrLf \o RenderHeaders(r.headers))
    /\ Len(c) > 0 /\ c[Len(c)] = "lf"

\* What has been read of a header.
HeaderRead(q, p) ==
    CASE q = "header_name" -> p.name
      [] q = "space_before_header_value" -> p.name \o <<":">>
      [] q = "header_value" -> (p.name \o <<":", "sp">>) \o p.value
      [] q = "expecting_newline_2" -> ((p.name \o <<":", "sp">>) \o p.value) \o <<"cr">>

ReadHeader(q, r, c) ==
    /\ q \in {"header_name", "space_before_header_value", "header_value", "expecting_newline_2"}
    /\ r.content = <<>>
    /\ \E fs \in Seq(Pairs), p \in Pairs, d \in Seq(Bytes) :
          /\ r.headers = Append(fs, p) /\ Versioned(r, d)
          /\ q \in {"header_name", "space_before_header_value"} => p.value = <<>>
          /\ c = (d \o (CrLf \o RenderHeaders(fs))) \o HeaderRead(q, p)

ReadHead(q, r, c) ==
    /\ q = "expecting_newline_3" /\ r.content = <<>>
    /\ \E d \in Seq(Bytes) : Versioned(r, d) /\ c = d \o (CrLf \o RenderHeaders(r.headers) \o <<"cr">>)

Complete(r, c) == \E d \in Seq(Bytes) : Versioned(r, d) /\ c = d \o Rest(r)

ReadContent(q, r, c) == q \in {"content_start", "content"} /\ Complete(r, c)

Partly(q, r, c) ==
    \/ ReadMethod(q, r, c) \/ ReadUri(q, r, c) \/ ReadLiteral(q, r, c) \/ ReadMajor(q, r, c) \/ ReadMinor(q, r, c)
    \/ ReadVersion(q, r, c) \/ ReadLine(q, r, c) \/ ReadHeader(q, r, c) \/ ReadHead(q, r, c) \/ ReadContent(q, r, c)

\* The request, put together again, is what has been read.
Told(s, c) ==
    /\ Formed(s) /\ Typed(s.req)
    /\ IF s.result = "true" THEN Complete(s.req, c) ELSE Partly(s.state, s.req, c)

Parser == [state |-> state_, req |-> req, result |-> result]

\* As long as no line is folded into the one before, the request of a parser
\* that has not refused it is what it has consumed.
ReadSound ==
    /\ input \in Seq(Bytes) /\ begin \in 0 .. Len(input)
    /\ inside => result = "indeterminate" /\ begin < Len(input)
    /\ ~Folded /\ result # "false" => Told(Parser, SubSeq(input, 1, begin))

\* In each state the parser has read what belongs to that state.
LEMMA ReadParts ==
    ASSUME NEW q, NEW r, NEW c, Partly(q, r, c)
    PROVE  /\ q \in {"method_start", "method"} => ReadMethod(q, r, c)
           /\ q \in {"uri", "param_name_start", "param_name", "param_value"} => ReadUri(q, r, c)
           /\ q \in DOMAIN VersionRead => ReadLiteral(q, r, c)
           /\ q = "http_version_major" => ReadMajor(q, r, c)
           /\ q \in {"http_version_minor_start", "http_version_minor"} => ReadMinor(q, r, c)
           /\ q = "expecting_newline_1" => ReadVersion(q, r, c)
           /\ q = "header_line_start" => ReadLine(q, r, c)
           /\ q \in {"header_name", "space_before_header_value", "header_value", "expecting_newline_2"} => ReadHeader(q, r, c)
           /\ q = "expecting_newline_3" => ReadHead(q, r, c)
           /\ q \in {"content_start", "content"} => ReadContent(q, r, c)
           /\ q # "header_lws"
  <1>1. /\ ReadMethod(q, r, c) => q \in {"method_start", "method"}
        /\ ReadUri(q, r, c) => q \in {"uri", "param_name_start", "param_name", "param_value"}
        /\ ReadLiteral(q, r, c) => q \in DOMAIN VersionRead
        /\ ReadMajor(q, r, c) => q = "http_version_major"
        /\ ReadMinor(q, r, c) => q \in {"http_version_minor_start", "http_version_minor"}
        /\ ReadVersion(q, r, c) => q = "expecting_newline_1"
        /\ ReadLine(q, r, c) => q = "header_line_start"
        /\ ReadHeader(q, r, c) => q \in {"header_name", "space_before_header_value", "header_value", "expecting_newline_2"}
        /\ ReadHead(q, r, c) => q = "expecting_newline_3"
        /\ ReadContent(q, r, c) => q \in {"content_start", "content"}
    BY DEF ReadMethod, ReadUri, ReadLiteral, ReadMajor, ReadMinor, ReadVersion, ReadLine, ReadHeader, ReadHead, ReadContent
  <1>2. DOMAIN VersionRead = {"http_version_h", "http_version_t_1", "http_version_t_2", "http_version_p",
                              "http_version_slash", "http_version_major_start"}
    BY DEF VersionRead
  <1> QED BY <1>1, <1>2 DEF Partly

\* A field of the request gets a value.
SetField(s, f, v) == [s EXCEPT !.req[f] = v]

\* What the operations on the state of the parser change.
LEMMA Operations ==
    ASSUME NEW s, Formed(s)
    PROVE  /\ \A q : /\ Formed(Goto(s, q)) /\ Goto(s, q).state = q
                     /\ Goto(s, q).req = s.req /\ Goto(s, q).result = s.result
           /\ \A v : /\ Formed(Verdict(s, v)) /\ Verdict(s, v).state = s.state
                     /\ Verdict(s, v).req = s.req /\ Verdict(s, v).result = v
           /\ Invalid(s).result = "false"
  <1>1. \A q : /\ Formed(Goto(s, q)) /\ Goto(s, q).state = q
               /\ Goto(s, q).req = s.req /\ Goto(s, q).result = s.result
    BY DEF Formed, Goto
  <1>2. \A v : /\ Formed(Verdict(s, v)) /\ Verdict(s, v).state = s.state
               /\ Verdict(s, v).req = s.req /\ Verdict(s, v).result = v
    BY DEF Formed, Verdict
  <1>3. Invalid(s).result = "false"
    BY <1>2 DEF Invalid
  <1> QED BY <1>1, <1>2, <1>3

\* One field at a time.
LEMMA FieldSet ==
    ASSUME NEW s, Formed(s), NEW f \in RequestFields, NEW v, NEW u, u = SetField(s, f, v)
    PROVE  /\ Formed(u) /\ u.state = s.state /\ u.result = s.result /\ u.req[f] = v
           /\ \A g \in RequestFields : g # f => u.req[g] = s.req[g]
  BY DEF Formed, SetField

\* The operations that write to a field of the request, and what they write.
LEMMA Pushed ==
    ASSUME NEW s, Formed(s), NEW f \in RequestFields, NEW ch, NEW u, u = Push(s, f, ch)
    PROVE  /\ Formed(u) /\ u.state = s.state /\ u.result = s.result
           /\ u.req[f] = Append(s.req[f], ch)
           /\ \A g \in RequestFields : g # f => u.req[g] = s.req[g]
  <1>1. PICK v : v = Append(s.req[f], ch)
    OBVIOUS
  <1>2. u = SetField(s, f, v)
    BY <1>1 DEF Push, SetField
  <1>3. /\ Formed(u) /\ u.state = s.state /\ u.result = s.result /\ u.req[f] = v
        /\ \A g \in RequestFields : g # f => u.req[g] = s.req[g]
    BY <1>2, FieldSet
  <1> QED BY <1>1, <1>3

\* A new pair.
LEMMA PairPushed ==
    ASSUME NEW s, Formed(s), NEW f \in RequestFields, NEW u, u = PushPair(s, f)
    PROVE  /\ Formed(u) /\ u.state = s.state /\ u.result = s.result
           /\ u.req[f] = Append(s.req[f], NameValue)
           /\ \A g \in RequestFields : g # f => u.req[g] = s.req[g]
  <1>1. PICK v : v = Append(s.req[f], NameValue)
    OBVIOUS
  <1>2. u = SetField(s, f, v)
    BY <1>1 DEF PushPair, SetField
  <1>3. /\ Formed(u) /\ u.state = s.state /\ u.result = s.result /\ u.req[f] = v
        /\ \A g \in RequestFields : g # f => u.req[g] = s.req[g]
    BY <1>2, FieldSet
  <1> QED BY <1>1, <1>3

\* One more byte of the last pair.
WithByte(hs, part, ch) == [hs EXCEPT ![Len(hs)][part] = Append(@, ch)]

\* A byte goes to the last pair.
LEMMA BackPushed ==
    ASSUME NEW s, Formed(s), NEW f \in RequestFields, NEW part, NEW ch, NEW u, u = PushBack(s, f, part, ch)
    PROVE  /\ Formed(u) /\ u.state = s.state /\ u.result = s.result
           /\ u.req[f] = WithByte(s.req[f], part, ch)
           /\ \A g \in RequestFields : g # f => u.req[g] = s.req[g]
  <1>1. PICK v : v = WithByte(s.req[f], part, ch)
    OBVIOUS
  <1>2. u = SetField(s, f, v)
    BY <1>1 DEF PushBack, SetField, WithByte
  <1>3. /\ Formed(u) /\ u.state = s.state /\ u.result = s.result /\ u.req[f] = v
        /\ \A g \in RequestFields : g # f => u.req[g] = s.req[g]
    BY <1>2, FieldSet
  <1> QED BY <1>1, <1>3

\* The last two leave the other fields alone.
LEMMA OthersKept ==
    ASSUME NEW s, Formed(s), NEW f \in RequestFields, NEW part, NEW ch, NEW u,
           u = PushPair(s, f) \/ u = PushBack(s, f, part, ch)
    PROVE  /\ Formed(u) /\ u.state = s.state /\ u.result = s.result
           /\ \A g \in RequestFields : g # f => u.req[g] = s.req[g]
  <1>1. \E v : u = SetField(s, f, v)
    BY DEF PushPair, PushBack, SetField
  <1> QED BY <1>1, FieldSet

\* The names of the fields.
LEMMA FieldNames ==
    /\ "method" \in RequestFields /\ "uri" \in RequestFields /\ "params" \in RequestFields /\ "major" \in RequestFields
    /\ "minor" \in RequestFields /\ "headers" \in RequestFields /\ "content" \in RequestFields
    /\ "content_length" \in RequestFields
  BY DEF RequestFields

\* The byte that was read is the last.
LEMMA LastRead ==
    ASSUME NEW c \in Seq(Bytes), NEW ch \in Bytes
    PROVE  /\ Append(c, ch) \in Seq(Bytes) /\ Len(Append(c, ch)) = Len(c) + 1 /\ Len(Append(c, ch)) > 0
           /\ Append(c, ch)[Len(Append(c, ch))] = ch
  OBVIOUS

\* The byte goes to the part that is read last.
LEMMA AppendTo ==
    ASSUME NEW a \in Seq(Bytes), NEW b \in Seq(Bytes), NEW ch \in Bytes
    PROVE  Append(a \o b, ch) = a \o Append(b, ch) /\ Append(b, ch) \in Seq(Bytes) /\ a \o b \in Seq(Bytes)
  OBVIOUS

\* It does not matter in which order texts are joined.
LEMMA Joined ==
    ASSUME NEW a \in Seq(Bytes), NEW b \in Seq(Bytes), NEW c \in Seq(Bytes)
    PROVE  (a \o b) \o c = a \o (b \o c) /\ a \o b \in Seq(Bytes)
  OBVIOUS

\* The bytes of the method.
LEMMA ToldMethod ==
    ASSUME NEW s, NEW c \in Seq(Bytes), NEW ch \in Bytes, Told(s, c), s.result = "indeterminate",
           s.state \in {"method_start", "method"}, NEW t, t = OnMethod(s, ch), t.result # "false"
    PROVE  Told(t, Append(c, ch))
  <1>1. Formed(s) /\ Typed(s.req) /\ ReadMethod(s.state, s.req, c)
    BY ReadParts DEF Told
  <1>2. PICK m : m = s.req.method
    OBVIOUS
  <1>3. m \in Seq(Bytes) /\ c = m /\ s.req.uri = <<>>
    BY <1>1, <1>2 DEF Typed, ReadMethod
  <1>4. CASE s.state = "method" /\ ch = "sp"
    <2>1. t = Goto(s, "uri")
      BY <1>4 DEF OnMethod, IsToken, Ordinary, Digits
    <2>2. Formed(t) /\ t.state = "uri" /\ t.req = s.req /\ t.result = "indeterminate"
      BY <1>1, <2>1, Operations
    <2>3. Append(c, ch) = RequestLine(s.req)
      <3>1. m \o <<"sp">> \in Seq(Bytes) /\ Append(m, "sp") = m \o <<"sp">>
        BY <1>3, <1>4, Texts
      <3>2. (m \o <<"sp">>) \o <<>> = m \o <<"sp">>
        BY <3>1, Texts
      <3> QED BY <1>2, <1>3, <1>4, <3>1, <3>2 DEF RequestLine
    <2>4. ReadUri(t.state, t.req, Append(c, ch))
      BY <1>1, <2>2, <2>3 DEF ReadMethod, ReadUri
    <2> QED BY <1>1, <2>2, <2>4 DEF Told, Partly
  <1>5. CASE ~(s.state = "method" /\ ch = "sp")
    <2>1. PICK u : u = Push(s, "method", ch)
      OBVIOUS
    <2>2. t = Goto(u, "method")
      <3>1. t = Goto(u, "method") \/ t = Invalid(s)
        BY <1>5, <2>1 DEF OnMethod
      <3> QED BY <1>1, <3>1, Operations
    <2>3. /\ Formed(u) /\ u.result = s.result /\ u.req["method"] = Append(m, ch)
          /\ \A g \in RequestFields : g # "method" => u.req[g] = s.req[g]
      <3>1. "method" \in RequestFields
        BY FieldNames
      <3> QED BY <1>1, <1>2, <2>1, <3>1, Pushed
    <2>4. Formed(t) /\ t.state = "method" /\ t.req = u.req /\ t.result = "indeterminate"
      BY <2>2, <2>3, Operations
    <2>5. Append(m, ch) \in Seq(Bytes)
      BY <1>3, LastRead
    <2>6. ReadMethod(t.state, t.req, Append(c, ch))
      BY <1>1, <1>3, <2>3, <2>4 DEF ReadMethod, Unversioned, RequestFields
    <2>7. Typed(t.req)
      BY <1>1, <2>3, <2>4, <2>5 DEF Typed, RequestFields
    <2> QED BY <2>4, <2>6, <2>7 DEF Told, Partly
  <1> QED BY <1>4, <1>5

\* What has been read is the request line, up to where it has been read.
LineRead(u, x) ==
    Formed(u) /\ Typed(u.req) /\ Unversioned(u.req) /\ x = RequestLine(u.req) /\ u.result = "indeterminate"

\* The uri and its parameters, of which the latter are kept twice.
LEMMA LineSteps ==
    ASSUME NEW u, NEW x \in Seq(Bytes), LineRead(u, x)
    PROVE  /\ \A q : LineRead(Goto(u, q), x) /\ Goto(u, q).state = q
           /\ LineRead(PushPair(u, "params"), x)
           /\ \A part, ch : /\ LineRead(PushBack(u, "params", part, ch), x)
                            /\ PushBack(u, "params", part, ch).state = u.state
           /\ \A ch \in Bytes : LineRead(Push(u, "uri", ch), Append(x, ch)) /\ Push(u, "uri", ch).state = u.state
           /\ Told(Goto(u, "http_version_h"), Append(x, "sp"))
  <1>1. Formed(u) /\ Typed(u.req) /\ Unversioned(u.req) /\ x = RequestLine(u.req) /\ u.result = "indeterminate"
    BY DEF LineRead
  <1>2. ASSUME NEW w, Formed(w), w.result = u.result, \A g \in RequestFields : g # "params" => w.req[g] = u.req[g]
        PROVE  LineRead(w, x)
    <2>1. /\ w.req.method = u.req.method /\ w.req.uri = u.req.uri /\ w.req.headers = u.req.headers
          /\ w.req.content = u.req.content /\ w.req.major = u.req.major /\ w.req.minor = u.req.minor
      BY <1>2, FieldNames
    <2> QED BY <1>1, <1>2, <2>1 DEF LineRead, Typed, Unversioned, RequestLine
  <1>3. \A q : LineRead(Goto(u, q), x) /\ Goto(u, q).state = q
    BY <1>1, Operations DEF LineRead
  <1>4. LineRead(PushPair(u, "params"), x)
    <2>1. PICK w : w = PushPair(u, "params")
      OBVIOUS
    <2>2. "params" \in RequestFields
      BY FieldNames
    <2>3. Formed(w) /\ w.result = u.result /\ \A g \in RequestFields : g # "params" => w.req[g] = u.req[g]
      BY <1>1, <2>1, <2>2, OthersKept
    <2> QED BY <1>2, <2>1, <2>3
  <1>5. ASSUME NEW part, NEW ch
        PROVE  LineRead(PushBack(u, "params", part, ch), x) /\ PushBack(u, "params", part, ch).state = u.state
    <2>1. PICK w : w = PushBack(u, "params", part, ch)
      OBVIOUS
    <2>2. "params" \in RequestFields
      BY FieldNames
    <2>3. /\ Formed(w) /\ w.result = u.result /\ w.state = u.state
          /\ \A g \in RequestFields : g # "params" => w.req[g] = u.req[g]
      BY <1>1, <2>1, <2>2, OthersKept
    <2> QED BY <1>2, <2>1, <2>3
  <1>6. ASSUME NEW ch \in Bytes
        PROVE  LineRead(Push(u, "uri", ch), Append(x, ch)) /\ Push(u, "uri", ch).state = u.state
    <2>1. PICK w : w = Push(u, "uri", ch)
      OBVIOUS
    <2>2. "uri" \in RequestFields
      BY FieldNames
    <2>3. /\ Formed(w) /\ w.state = u.state /\ w.result = u.result /\ w.req["uri"] = Append(u.req["uri"], ch)
          /\ \A g \in RequestFields : g # "uri" => w.req[g] = u.req[g]
      BY <1>1, <2>1, <2>2, Pushed
    <2>4. /\ w.req.method = u.req.method /\ w.req.headers = u.req.headers
          /\ w.req.content = u.req.content /\ w.req.major = u.req.major /\ w.req.minor = u.req.minor
      BY <2>3, FieldNames
    <2>5. PICK a : a = u.req.method \o <<"sp">>
      OBVIOUS
    <2>6. PICK b : b = u.req.uri
      OBVIOUS
    <2>7. a \in Seq(Bytes) /\ b \in Seq(Bytes) /\ x = a \o b
      <3>1. <<"sp">> \in Seq(Bytes) /\ u.req.method \in Seq(Bytes)
        BY <1>1, SomeBytes DEF Typed
      <3> QED BY <1>1, <2>5, <2>6, <3>1, Texts DEF Typed, RequestLine
    <2>8. Append(x, ch) = a \o Append(b, ch) /\ Append(b, ch) \in Seq(Bytes)
      <3>1. Append(a \o b, ch) = a \o Append(b, ch) /\ Append(b, ch) \in Seq(Bytes)
        BY <2>7, AppendTo
      <3> QED BY <2>7, <3>1
    <2>9. Append(x, ch) = RequestLine(w.req)
      BY <2>3, <2>4, <2>5, <2>6, <2>8 DEF RequestLine
    <2>10. Typed(w.req)
      BY <1>1, <2>3, <2>4, <2>6, <2>8 DEF Typed
    <2>11. Unversioned(w.req)
      BY <1>1, <2>4 DEF Unversioned
    <2> QED BY <1>1, <2>1, <2>3, <2>9, <2>10, <2>11 DEF LineRead
  <1>8. Told(Goto(u, "http_version_h"), Append(x, "sp"))
    <2>1. PICK t : t = Goto(u, "http_version_h")
      OBVIOUS
    <2>2. Formed(t) /\ t.state = "http_version_h" /\ t.req = u.req /\ t.result = "indeterminate"
      BY <1>1, <2>1, Operations
    <2>3. Append(x, "sp") = x \o <<"sp">>
      BY SomeBytes, Texts
    <2>4. ReadLiteral(t.state, t.req, Append(x, "sp"))
      BY <1>1, <2>2, <2>3 DEF ReadLiteral, VersionRead
    <2> QED BY <1>1, <2>1, <2>2, <2>4 DEF Told, Partly
  <1> QED BY <1>3, <1>4, <1>5, <1>6, <1>8

\* In the states of the uri that is all there is to tell.
LEMMA LineTold ==
    ASSUME NEW u, NEW x, LineRead(u, x), u.state \in {"uri", "param_name_start", "param_name", "param_value"}
    PROVE  Told(u, x)
  BY DEF LineRead, Told, Partly, ReadUri

\* The bytes of the uri, with or without parameters, and the blank after it.
LEMMA ToldUri ==
    ASSUME NEW s, NEW c \in Seq(Bytes), NEW ch \in Bytes, Told(s, c), s.result = "indeterminate",
           s.state \in {"uri", "param_name_start", "param_name", "param_value"},
           NEW t, t = (IF s.state = "uri" THEN OnUri(s, ch) ELSE OnParam(s, ch)), t.result # "false"
    PROVE  Told(t, Append(c, ch))
  <1>1. Formed(s) /\ Typed(s.req) /\ ReadUri(s.state, s.req, c)
    BY ReadParts DEF Told
  <1>2. LineRead(s, c)
    BY <1>1 DEF LineRead, ReadUri
  <1>x. PICK x : x = Append(c, ch)
    OBVIOUS
  <1> SUFFICES Told(t, x)
    BY <1>x
  <1>3. x \in Seq(Bytes)
    BY <1>x, LastRead
  <1>4. PICK u : u = Push(s, "uri", ch)
    OBVIOUS
  <1>5. LineRead(u, x) /\ u.state = s.state
    BY <1>2, <1>4, <1>x, LineSteps
  <1>6. t # Invalid(s)
    BY <1>1, Operations
  <1>7. ASSUME NEW q \in {"uri", "param_name_start", "param_name", "param_value"}, NEW w,
               LineRead(w, x), t = Goto(w, q)
        PROVE  Told(t, x)
    <2>1. LineRead(t, x) /\ t.state = q
      BY <1>3, <1>7, LineSteps
    <2> QED BY <1>7, <2>1, LineTold
  <1>8. ASSUME ch = "sp", t = Goto(s, "http_version_h")
        PROVE  Told(t, x)
    BY <1>2, <1>8, <1>x, LineSteps
  <1>9. CASE s.state = "uri"
    <2>1. t = OnUri(s, ch)
      BY <1>9
    <2>2. \/ t = Goto(u, "param_name_start")
          \/ ch = "sp" /\ t = Goto(s, "http_version_h")
          \/ t = u
      BY <1>4, <1>6, <2>1 DEF OnUri
    <2>3. CASE t = u
      BY <1>5, <1>9, <2>3, LineTold
    <2>4. CASE t = Goto(u, "param_name_start")
      BY <1>5, <1>7, <2>4
    <2> QED BY <1>8, <2>2, <2>3, <2>4
  <1>10. CASE s.state # "uri"
    <2>1. t = OnParam(s, ch)
      BY <1>10
    <2>2. PICK part : part = IF s.state = "param_value" THEN "value" ELSE "name"
      OBVIOUS
    <2>3. PICK v : v = PushPair(u, "params")
      OBVIOUS
    <2>4. PICK w : w = PushBack(v, "params", "name", ch)
      OBVIOUS
    <2>5. PICK y : y = PushBack(u, "params", part, ch)
      OBVIOUS
    <2>6. \/ ch = "sp" /\ t = Goto(s, "http_version_h")
          \/ t = Goto(u, "param_value") \/ t = Goto(u, "param_name_start")
          \/ t = Goto(w, "param_name") \/ t = y
      BY <1>4, <1>6, <2>1, <2>2, <2>3, <2>4, <2>5 DEF OnParam
    <2>7. LineRead(v, x)
      BY <1>3, <1>5, <2>3, LineSteps
    <2>8. LineRead(w, x)
      BY <1>3, <2>4, <2>7, LineSteps
    <2>9. LineRead(y, x) /\ y.state = s.state
      BY <1>3, <1>5, <2>5, LineSteps
    <2>10. CASE t = y
      BY <2>9, <2>10, LineTold
    <2> QED BY <1>5, <1>7, <1>8, <2>6, <2>8, <2>10
  <1> QED BY <1>9, <1>10

\* The bytes that are expected, one at a time.
LEMMA LiteralFacts ==
    /\ DOMAIN Literal = {"http_version_h", "http_version_t_1", "http_version_t_2", "http_version_p", "http_version_slash",
                         "expecting_newline_1", "space_before_header_value", "expecting_newline_2"}
    /\ Literal["http_version_h"] = [ch |-> "H", to |-> "http_version_t_1"]
    /\ Literal["http_version_t_1"] = [ch |-> "T", to |-> "http_version_t_2"]
    /\ Literal["http_version_t_2"] = [ch |-> "T", to |-> "http_version_p"]
    /\ Literal["http_version_p"] = [ch |-> "P", to |-> "http_version_slash"]
    /\ Literal["http_version_slash"] = [ch |-> "/", to |-> "http_version_major_start"]
    /\ Literal["expecting_newline_1"] = [ch |-> "lf", to |-> "header_line_start"]
    /\ Literal["space_before_header_value"] = [ch |-> "sp", to |-> "header_value"]
    /\ Literal["expecting_newline_2"] = [ch |-> "lf", to |-> "header_line_start"]
  <1>1. PICK f : f = VersionLiteral
    OBVIOUS
  <1>2. PICK g : g = HeaderLiteral
    OBVIOUS
  <1>3. Literal = [x \in DOMAIN f \cup DOMAIN g |-> IF x \in DOMAIN f THEN f[x] ELSE g[x]]
    BY <1>1, <1>2 DEF Literal
  <1>4. /\ DOMAIN f = {"http_version_h", "http_version_t_1", "http_version_t_2", "http_version_p", "http_version_slash"}
        /\ f["http_version_h"] = [ch |-> "H", to |-> "http_version_t_1"]
        /\ f["http_version_t_1"] = [ch |-> "T", to |-> "http_version_t_2"]
        /\ f["http_version_t_2"] = [ch |-> "T", to |-> "http_version_p"]
        /\ f["http_version_p"] = [ch |-> "P", to |-> "http_version_slash"]
        /\ f["http_version_slash"] = [ch |-> "/", to |-> "http_version_major_start"]
    BY <1>1 DEF VersionLiteral
  <1>5. /\ DOMAIN g = {"expecting_newline_1", "space_before_header_value", "expecting_newline_2"}
        /\ g["expecting_newline_1"] = [ch |-> "lf", to |-> "header_line_start"]
        /\ g["space_before_header_value"] = [ch |-> "sp", to |-> "header_value"]
        /\ g["expecting_newline_2"] = [ch |-> "lf", to |-> "header_line_start"]
    BY <1>2 DEF HeaderLiteral
  <1>6. DOMAIN Literal = DOMAIN f \cup DOMAIN g
    BY <1>3
  <1>7. \A x \in DOMAIN f : Literal[x] = f[x]
    BY <1>3
  <1>8. \A x \in DOMAIN g : x \notin DOMAIN f => Literal[x] = g[x]
    BY <1>3
  <1>9. DOMAIN Literal = {"http_version_h", "http_version_t_1", "http_version_t_2", "http_version_p", "http_version_slash",
                          "expecting_newline_1", "space_before_header_value", "expecting_newline_2"}
    BY <1>4, <1>5, <1>6
  <1> QED BY <1>4, <1>5, <1>7, <1>8, <1>9

\* One of them has been read: the state changes and nothing else.
LEMMA LiteralStep ==
    ASSUME NEW s, Formed(s), NEW ch, s.state \in DOMAIN Literal, NEW t, t = OnLiteral(s, ch), t.result # "false"
    PROVE  /\ ch = Literal[s.state].ch /\ t.state = Literal[s.state].to
           /\ Formed(t) /\ t.req = s.req /\ t.result = s.result
  <1>1. PICK q : q = Literal[s.state].to
    OBVIOUS
  <1>2. ch = Literal[s.state].ch /\ t = Goto(s, q)
    <2>1. t = Invalid(s) \/ (ch = Literal[s.state].ch /\ t = Goto(s, q))
      BY <1>1 DEF OnLiteral
    <2> QED BY <2>1, Operations
  <1> QED BY <1>1, <1>2, Operations

\* The pieces of the request line are texts.
LEMMA LineTexts ==
    ASSUME NEW r, Typed(r)
    PROVE  RequestLine(r) \in Seq(Bytes) /\ Start(r) \in Seq(Bytes)
  <1>1. <<"sp">> \in Seq(Bytes) /\ <<"sp", "H", "T", "T", "P", "/">> \in Seq(Bytes)
    BY SomeBytes
  <1>2. RequestLine(r) \in Seq(Bytes)
    BY <1>1, Texts DEF Typed, RequestLine
  <1> QED BY <1>1, <1>2, Texts DEF Start

\* What has been read of " HTTP/", byte by byte.
LEMMA VersionReadFacts ==
    ASSUME NEW q, q \in {"http_version_h", "http_version_t_1", "http_version_t_2", "http_version_p", "http_version_slash"}
    PROVE  /\ q \in DOMAIN VersionRead /\ Literal[q].to \in DOMAIN VersionRead
           /\ VersionRead[q] \in Seq(Bytes) /\ VersionRead[Literal[q].to] = Append(VersionRead[q], Literal[q].ch)
  <1>1. CASE q = "http_version_h"
    <2>1. Literal[q].ch = "H" /\ Literal[q].to = "http_version_t_1"
      BY <1>1, LiteralFacts
    <2>2. <<"sp">> \in Seq(Bytes)
      BY SomeBytes
    <2> QED BY <1>1, <2>1, <2>2 DEF VersionRead
  <1>2. CASE q = "http_version_t_1"
    <2>1. Literal[q].ch = "T" /\ Literal[q].to = "http_version_t_2"
      BY <1>2, LiteralFacts
    <2>2. <<"sp", "H">> \in Seq(Bytes)
      BY SomeBytes
    <2> QED BY <1>2, <2>1, <2>2 DEF VersionRead
  <1>3. CASE q = "http_version_t_2"
    <2>1. Literal[q].ch = "T" /\ Literal[q].to = "http_version_p"
      BY <1>3, LiteralFacts
    <2>2. <<"sp", "H", "T">> \in Seq(Bytes)
      BY SomeBytes
    <2> QED BY <1>3, <2>1, <2>2 DEF VersionRead
  <1>4. CASE q = "http_version_p"
    <2>1. Literal[q].ch = "P" /\ Literal[q].to = "http_version_slash"
      BY <1>4, LiteralFacts
    <2>2. <<"sp", "H", "T", "T">> \in Seq(Bytes)
      BY SomeBytes
    <2> QED BY <1>4, <2>1, <2>2 DEF VersionRead
  <1>5. CASE q = "http_version_slash"
    <2>1. Literal[q].ch = "/" /\ Literal[q].to = "http_version_major_start"
      BY <1>5, LiteralFacts
    <2>2. <<"sp", "H", "T", "T", "P">> \in Seq(Bytes)
      BY SomeBytes
    <2> QED BY <1>5, <2>1, <2>2 DEF VersionRead
  <1> QED BY <1>1, <1>2, <1>3, <1>4, <1>5

\* The bytes of " HTTP/".
LEMMA ToldLiteral ==
    ASSUME NEW s, NEW c \in Seq(Bytes), NEW ch \in Bytes, Told(s, c), s.result = "indeterminate",
           s.state \in {"http_version_h", "http_version_t_1", "http_version_t_2", "http_version_p", "http_version_slash"},
           NEW t, t = OnLiteral(s, ch), t.result # "false"
    PROVE  Told(t, Append(c, ch))
  <1>1. s.state \in DOMAIN VersionRead
    BY DEF VersionRead
  <1>2. Formed(s) /\ Typed(s.req) /\ ReadLiteral(s.state, s.req, c)
    BY <1>1, ReadParts DEF Told
  <1>3. s.state \in DOMAIN Literal
    BY LiteralFacts
  <1>4. /\ ch = Literal[s.state].ch /\ t.state = Literal[s.state].to
        /\ Formed(t) /\ t.req = s.req /\ t.result = s.result
    BY <1>2, <1>3, LiteralStep
  <1>5. PICK a : a = RequestLine(s.req)
    OBVIOUS
  <1>6. PICK b : b = VersionRead[s.state]
    OBVIOUS
  <1>7. a \in Seq(Bytes) /\ c = a \o b
    BY <1>2, <1>5, <1>6, LineTexts DEF ReadLiteral
  <1>8. b \in Seq(Bytes)
    BY <1>6, VersionReadFacts
  <1>9. t.state \in DOMAIN VersionRead /\ Append(b, ch) = VersionRead[t.state]
    BY <1>4, <1>6, VersionReadFacts
  <1>10. Append(a \o b, ch) = a \o Append(b, ch)
    BY <1>7, <1>8, AppendTo
  <1>11. ReadLiteral(t.state, t.req, Append(c, ch))
    BY <1>2, <1>4, <1>5, <1>7, <1>9, <1>10 DEF ReadLiteral
  <1> QED BY <1>2, <1>4, <1>11 DEF Told, Partly

\* A digit of the version goes to its number.
LEMMA DigitRead ==
    ASSUME NEW s, Formed(s), NEW f \in RequestFields, NEW v, NEW q, NEW t,
           t = Goto(SetField(s, f, v), q)
    PROVE  /\ Formed(t) /\ t.state = q /\ t.result = s.result /\ t.req[f] = v
           /\ \A g \in RequestFields : g # f => t.req[g] = s.req[g]
  <1>1. PICK u : u = SetField(s, f, v)
    OBVIOUS
  <1>2. t = Goto(u, q)
    BY <1>1
  <1>3. /\ Formed(u) /\ u.state = s.state /\ u.result = s.result /\ u.req[f] = v
        /\ \A g \in RequestFields : g # f => u.req[g] = s.req[g]
    BY <1>1, FieldSet
  <1>4. Formed(t) /\ t.state = q /\ t.req = u.req /\ t.result = u.result
    BY <1>2, <1>3, Operations
  <1> QED BY <1>3, <1>4

\* The bytes of the first number of the version, and the dot after it.
LEMMA ToldMajor ==
    ASSUME NEW s, NEW c \in Seq(Bytes), NEW ch \in Bytes, Told(s, c), s.result = "indeterminate",
           s.state \in {"http_version_major_start", "http_version_major"},
           NEW t, t = OnVersion(s, ch), t.result # "false"
    PROVE  Told(t, Append(c, ch))
  <1>1. Formed(s) /\ Typed(s.req) /\ Partly(s.state, s.req, c)
    BY DEF Told
  <1>2. PICK a \in Seq(Digits) : /\ NumberOf(a) = s.req.major /\ c = Start(s.req) \o a
                                 /\ s.state = "http_version_major" => a # <<>>
    <2>1. CASE s.state = "http_version_major_start"
      <3>1. s.state \in DOMAIN VersionRead /\ VersionRead[s.state] = <<"sp", "H", "T", "T", "P", "/">>
        BY <2>1 DEF VersionRead
      <3>2. ReadLiteral(s.state, s.req, c)
        BY <1>1, <3>1, ReadParts
      <3>3. c = Start(s.req) /\ s.req.major = 0
        BY <3>1, <3>2 DEF ReadLiteral, Start, Unversioned
      <3>4. c \o <<>> = c /\ <<>> \in Seq(Digits)
        BY Texts
      <3>5. NumberOf(<<>>) = 0
        <4>1. "0" \in Digits
          BY DEF Digits
        <4> QED BY <3>4, <4>1, NumberAppend
      <3> QED BY <2>1, <3>3, <3>4, <3>5
    <2>2. CASE s.state = "http_version_major"
      <3>1. ReadMajor(s.state, s.req, c)
        BY <1>1, <2>2, ReadParts
      <3> QED BY <3>1 DEF ReadMajor
    <2> QED BY <2>1, <2>2
  <1>3. s.req.minor = 0 /\ s.req.headers = <<>> /\ s.req.content = <<>>
    <2>1. CASE s.state = "http_version_major_start"
      <3>1. s.state \in DOMAIN VersionRead
        BY <2>1 DEF VersionRead
      <3>2. ReadLiteral(s.state, s.req, c)
        BY <1>1, <3>1, ReadParts
      <3> QED BY <3>2 DEF ReadLiteral, Unversioned
    <2>2. CASE s.state = "http_version_major"
      <3>1. ReadMajor(s.state, s.req, c)
        BY <1>1, <2>2, ReadParts
      <3> QED BY <3>1 DEF ReadMajor
    <2> QED BY <2>1, <2>2
  <1>4. PICK d : d = Start(s.req)
    OBVIOUS
  <1>5. d \in Seq(Bytes) /\ a \in Seq(Bytes) /\ c = d \o a
    <2>1. a \in Seq(Bytes)
      BY SomeBytes
    <2> QED BY <1>1, <1>2, <1>4, <2>1, LineTexts
  <1>6. CASE s.state = "http_version_major" /\ ch = "."
    <2>1. t = Goto(s, "http_version_minor_start")
      BY <1>6, SomeBytes DEF OnVersion
    <2>2. Formed(t) /\ t.state = "http_version_minor_start" /\ t.req = s.req /\ t.result = s.result
      BY <1>1, <2>1, Operations
    <2>3. PICK b : b = <<>>
      OBVIOUS
    <2>4. b \in Seq(Digits) /\ NumberOf(b) = 0
      <3>1. "0" \in Digits /\ <<>> \in Seq(Digits)
        BY DEF Digits
      <3> QED BY <2>3, <3>1, NumberAppend
    <2>5. Append(c, ch) = d \o ((a \o <<".">>) \o b)
      <3>1. Append(d \o a, ch) = d \o Append(a, ch)
        BY <1>5, AppendTo
      <3>2. Append(a, ch) = a \o <<ch>> /\ Append(a, ch) \in Seq(Bytes)
        BY <1>5, Texts
      <3>3. (a \o <<ch>>) \o <<>> = a \o <<ch>>
        BY <3>2, Texts
      <3> QED BY <1>5, <1>6, <2>3, <3>1, <3>2, <3>3
    <2>6. ReadMinor(t.state, t.req, Append(c, ch))
      BY <1>2, <1>3, <1>4, <1>6, <2>2, <2>4, <2>5 DEF ReadMinor
    <2> QED BY <1>1, <2>2, <2>6 DEF Told, Partly
  <1>7. CASE ~(s.state = "http_version_major" /\ ch = ".")
    <2>1. PICK v : v = 10 * s.req["major"] + Value(ch)
      OBVIOUS
    <2>2. ch \in Digits /\ t = Goto(SetField(s, "major", v), "http_version_major")
      <3>1. t = Invalid(s) \/ (ch \in Digits /\ t = Goto(SetField(s, "major", v), "http_version_major"))
        BY <1>7, <2>1 DEF OnVersion, SetField
      <3> QED BY <1>1, <3>1, Operations
    <2>3. "major" \in RequestFields
      BY FieldNames
    <2>4. /\ Formed(t) /\ t.state = "http_version_major" /\ t.result = s.result /\ t.req["major"] = v
          /\ \A g \in RequestFields : g # "major" => t.req[g] = s.req[g]
      BY <1>1, <2>2, <2>3, DigitRead
    <2>5. /\ t.req.method = s.req.method /\ t.req.uri = s.req.uri /\ t.req.headers = s.req.headers
          /\ t.req.content = s.req.content /\ t.req.minor = s.req.minor
      BY <2>4, FieldNames
    <2>6. PICK e : e = Append(a, ch)
      OBVIOUS
    <2>7. e \in Seq(Digits) /\ e # <<>> /\ NumberOf(e) = v
      <3>1. NumberOf(e) = 10 * NumberOf(a) + Value(ch)
        BY <2>2, <2>6, NumberAppend
      <3>2. e \in Seq(Digits) /\ e # <<>>
        BY <2>2, <2>6
      <3> QED BY <1>2, <2>1, <3>1, <3>2
    <2>8. Append(c, ch) = d \o e
      BY <1>5, <2>6, AppendTo
    <2>9. Start(t.req) = d /\ Typed(t.req)
      BY <1>1, <1>4, <2>5 DEF Start, RequestLine, Typed
    <2>10. ReadMajor(t.state, t.req, Append(c, ch))
      BY <1>3, <2>4, <2>5, <2>7, <2>8, <2>9 DEF ReadMajor
    <2> QED BY <2>4, <2>9, <2>10 DEF Told, Partly
  <1> QED BY <1>6, <1>7

\* The text up to the version is a matter of four fields.
LEMMA VersionedKept ==
    ASSUME NEW r, NEW x, x.method = r.method, x.uri = r.uri, x.major = r.major, x.minor = r.minor,
           NEW d, Versioned(r, d)
    PROVE  Versioned(x, d)
  <1>1. Start(x) = Start(r)
    BY DEF Start, RequestLine
  <1>2. \A v : Numbered(r, v) => Numbered(x, v)
    BY DEF Numbered
  <1> QED BY <1>1, <1>2 DEF Versioned

\* The bytes of the second number, and the end of the line.
LEMMA ToldMinor ==
    ASSUME NEW s, NEW c \in Seq(Bytes), NEW ch \in Bytes, Told(s, c), s.result = "indeterminate",
           s.state \in {"http_version_minor_start", "http_version_minor"},
           NEW t, t = OnVersion(s, ch), t.result # "false"
    PROVE  Told(t, Append(c, ch))
  <1>1. Formed(s) /\ Typed(s.req) /\ ReadMinor(s.state, s.req, c)
    BY ReadParts DEF Told
  <1>2. PICK a \in Seq(Digits), b \in Seq(Digits) :
           /\ a # <<>> /\ NumberOf(a) = s.req.major /\ NumberOf(b) = s.req.minor
           /\ s.state = "http_version_minor" => b # <<>>
           /\ c = Start(s.req) \o (a \o <<".">> \o b)
    BY <1>1 DEF ReadMinor
  <1>3. PICK d : d = Start(s.req)
    OBVIOUS
  <1>4. PICK w : w = a \o <<".">>
    OBVIOUS
  <1>5. d \in Seq(Bytes) /\ w \in Seq(Bytes) /\ b \in Seq(Bytes) /\ c = d \o (w \o b)
    <2>1. a \in Seq(Bytes) /\ b \in Seq(Bytes) /\ <<".">> \in Seq(Bytes)
      BY SomeBytes
    <2>2. w \in Seq(Bytes)
      BY <1>4, <2>1, Texts
    <2> QED BY <1>1, <1>2, <1>3, <1>4, <2>1, <2>2, LineTexts
  <1>6. s.req.headers = <<>> /\ s.req.content = <<>>
    BY <1>1 DEF ReadMinor
  <1>7. CASE s.state = "http_version_minor" /\ ch = "cr"
    <2>1. t = Goto(s, "expecting_newline_1")
      <3>1. "cr" \notin Digits
        BY DEF Digits
      <3> QED BY <1>7, <3>1 DEF OnVersion
    <2>2. Formed(t) /\ t.state = "expecting_newline_1" /\ t.req = s.req /\ t.result = s.result
      BY <1>1, <2>1, Operations
    <2>3. Append(c, ch) = c \o <<"cr">>
      BY <1>7, Texts
    <2>4. Versioned(s.req, c)
      <3>1. w \o b \in Seq(Bytes)
        BY <1>5, Texts
      <3>2. Numbered(s.req, w \o b)
        BY <1>2, <1>4, <1>7 DEF Numbered
      <3> QED BY <1>3, <1>5, <3>1, <3>2 DEF Versioned
    <2>5. ReadVersion(t.state, t.req, Append(c, ch))
      BY <1>6, <2>2, <2>3, <2>4 DEF ReadVersion
    <2> QED BY <1>1, <2>2, <2>5 DEF Told, Partly
  <1>8. CASE ~(s.state = "http_version_minor" /\ ch = "cr")
    <2>1. PICK v : v = 10 * s.req["minor"] + Value(ch)
      OBVIOUS
    <2>2. ch \in Digits /\ t = Goto(SetField(s, "minor", v), "http_version_minor")
      <3>1. t = Invalid(s) \/ (ch \in Digits /\ t = Goto(SetField(s, "minor", v), "http_version_minor"))
        BY <1>8, <2>1 DEF OnVersion, SetField
      <3> QED BY <1>1, <3>1, Operations
    <2>3. "minor" \in RequestFields
      BY FieldNames
    <2>4. /\ Formed(t) /\ t.state = "http_version_minor" /\ t.result = s.result /\ t.req["minor"] = v
          /\ \A g \in RequestFields : g # "minor" => t.req[g] = s.req[g]
      BY <1>1, <2>2, <2>3, DigitRead
    <2>5. /\ t.req.method = s.req.method /\ t.req.uri = s.req.uri /\ t.req.headers = s.req.headers
          /\ t.req.content = s.req.content /\ t.req.major = s.req.major
      BY <2>4, FieldNames
    <2>6. PICK e : e = Append(b, ch)
      OBVIOUS
    <2>7. e \in Seq(Digits) /\ e # <<>> /\ NumberOf(e) = v
      <3>1. NumberOf(e) = 10 * NumberOf(b) + Value(ch)
        BY <2>2, <2>6, NumberAppend
      <3>2. e \in Seq(Digits) /\ e # <<>>
        BY <2>2, <2>6
      <3> QED BY <1>2, <2>1, <3>1, <3>2
    <2>8. Append(c, ch) = d \o (w \o e)
      <3>1. PICK y : y = w \o b
        OBVIOUS
      <3>2. y \in Seq(Bytes) /\ Append(y, ch) = w \o e
        BY <1>5, <2>6, <3>1, AppendTo
      <3>3. Append(d \o y, ch) = d \o Append(y, ch)
        BY <1>5, <3>2, AppendTo
      <3> QED BY <1>5, <3>1, <3>2, <3>3
    <2>9. Start(t.req) = d /\ Typed(t.req)
      BY <1>1, <1>3, <2>5 DEF Start, RequestLine, Typed
    <2>10. ReadMinor(t.state, t.req, Append(c, ch))
      BY <1>2, <1>4, <1>6, <2>4, <2>5, <2>7, <2>8, <2>9 DEF ReadMinor
    <2> QED BY <2>4, <2>9, <2>10 DEF Told, Partly
  <1> QED BY <1>7, <1>8

\* The texts of which the headers are made.
LEMMA HeaderTexts ==
    /\ CrLf \in Seq(Bytes) /\ CrLf = <<"cr">> \o <<"lf">> /\ CrLf \o <<>> = CrLf /\ <<"cr">> \in Seq(Bytes)
    /\ Append(<<"cr">>, "lf") = CrLf /\ Append(<<":">>, "sp") = <<":", "sp">>
    /\ <<":">> \in Seq(Bytes) /\ <<":", "sp">> \in Seq(Bytes) /\ RenderHeaders(<<>>) = <<>>
    /\ \A hs \in Seq(Pairs) : RenderHeaders(hs) \in Seq(Bytes) /\ CrLf \o RenderHeaders(hs) \in Seq(Bytes)
    /\ \A p \in Pairs : p.name \in Seq(Bytes) /\ p.value \in Seq(Bytes)
  <1>1. /\ CrLf \in Seq(Bytes) /\ CrLf = <<"cr">> \o <<"lf">> /\ CrLf \o <<>> = CrLf /\ <<"cr">> \in Seq(Bytes)
        /\ Append(<<"cr">>, "lf") = CrLf /\ Append(<<":">>, "sp") = <<":", "sp">>
        /\ <<":">> \in Seq(Bytes) /\ <<":", "sp">> \in Seq(Bytes)
    <2>1. Append(<<"cr">>, "lf") = CrLf
      <3>1. PICK a : a = <<"cr">>
        OBVIOUS
      <3>2. a \in Seq(Bytes) /\ "lf" \in Bytes /\ a = <<"cr">>
        BY <3>1, SomeBytes
      <3>3. Append(a, "lf") = a \o <<"lf">>
        BY <3>2, Texts
      <3>4. CrLf = <<"cr">> \o <<"lf">>
        BY SomeBytes DEF CrLf
      <3> QED BY <3>2, <3>3, <3>4
    <2>2. Append(<<":">>, "sp") = <<":", "sp">>
      <3>1. PICK a : a = <<":">>
        OBVIOUS
      <3>2. a \in Seq(Bytes) /\ "sp" \in Bytes /\ a = <<":">>
        BY <3>1, SomeBytes
      <3>3. Append(a, "sp") = a \o <<"sp">>
        BY <3>2, Texts
      <3>4. <<":", "sp">> = <<":">> \o <<"sp">>
        BY SomeBytes
      <3> QED BY <3>2, <3>3, <3>4
    <2> QED BY <2>1, <2>2, SomeBytes DEF CrLf
  <1>2. NameValue \in Pairs
    BY DEF NameValue, Pairs
  <1>3. \A hs \in Seq(Pairs) : RenderHeaders(hs) \in Seq(Bytes)
    BY <1>2, RenderAppend
  <1>4. \A hs \in Seq(Pairs) : CrLf \o RenderHeaders(hs) \in Seq(Bytes)
    BY <1>1, <1>3, Texts
  <1>5. RenderHeaders(<<>>) = <<>>
    <2>1. <<>> \in Seq(Pairs)
      OBVIOUS
    <2> QED BY <1>2, <2>1, RenderAppend
  <1>6. \A p \in Pairs : p.name \in Seq(Bytes) /\ p.value \in Seq(Bytes)
    BY DEF Pairs
  <1> QED BY <1>1, <1>3, <1>4, <1>5, <1>6

\* A line that has ended is one of the headers.
LEMMA LineEnded ==
    ASSUME NEW d \in Seq(Bytes), NEW fs \in Seq(Pairs), NEW p \in Pairs
    PROVE  (d \o (CrLf \o RenderHeaders(fs))) \o HeaderLine(p) = d \o (CrLf \o RenderHeaders(Append(fs, p)))
  <1>1. PICK l : l = HeaderLine(p)
    OBVIOUS
  <1>2. PICK h : h = RenderHeaders(fs)
    OBVIOUS
  <1>3. PICK k : k = CrLf
    OBVIOUS
  <1>4. l \in Seq(Bytes) /\ h \in Seq(Bytes) /\ k \in Seq(Bytes)
    BY <1>1, <1>2, <1>3, HeaderTexts, RenderAppend
  <1>5. (d \o (k \o h)) \o l = d \o (k \o (h \o l))
    <2>1. PICK z : z = k \o h
      OBVIOUS
    <2>2. z \in Seq(Bytes)
      BY <1>4, <2>1
    <2>3. (d \o z) \o l = d \o (z \o l)
      BY <1>4, <2>2
    <2>4. (k \o h) \o l = k \o (h \o l)
      BY <1>4
    <2> QED BY <2>1, <2>3, <2>4
  <1>6. RenderHeaders(Append(fs, p)) = h \o l
    BY <1>1, <1>2, RenderAppend
  <1> QED BY <1>1, <1>2, <1>3, <1>5, <1>6

\* The end of the request line.
LEMMA ToldVersion ==
    ASSUME NEW s, NEW c \in Seq(Bytes), NEW ch \in Bytes, Told(s, c), s.result = "indeterminate",
           s.state = "expecting_newline_1", NEW t, t = OnLiteral(s, ch), t.result # "false"
    PROVE  Told(t, Append(c, ch))
  <1>1. Formed(s) /\ Typed(s.req) /\ ReadVersion(s.state, s.req, c)
    BY ReadParts DEF Told
  <1>2. PICK d \in Seq(Bytes) : Versioned(s.req, d) /\ c = d \o <<"cr">>
    BY <1>1 DEF ReadVersion
  <1>3. ch = "lf" /\ t.state = "header_line_start" /\ Formed(t) /\ t.req = s.req /\ t.result = s.result
    BY <1>1, LiteralFacts, LiteralStep
  <1>4. Append(c, ch) = d \o (CrLf \o RenderHeaders(t.req.headers))
    <2>1. Append(d \o <<"cr">>, ch) = d \o Append(<<"cr">>, ch)
      BY <1>2, HeaderTexts, AppendTo
    <2>2. Append(<<"cr">>, ch) = CrLf
      BY <1>3, HeaderTexts
    <2>3. RenderHeaders(t.req.headers) = <<>>
      BY <1>1, <1>3, HeaderTexts DEF ReadVersion
    <2> QED BY <1>2, <2>1, <2>2, <2>3, HeaderTexts
  <1>5. ReadLine(t.state, t.req, Append(c, ch))
    BY <1>1, <1>2, <1>3, <1>4, LastRead DEF ReadLine, ReadVersion
  <1> QED BY <1>1, <1>3, <1>5 DEF Told, Partly

\* One more byte of the name or the value of a pair.
Longer(p, part, ch) == [p EXCEPT ![part] = Append(@, ch)]

\* A byte of the last header goes to its name or to its value.
LEMMA LastPair ==
    ASSUME NEW fs \in Seq(Pairs), NEW p \in Pairs, NEW part \in {"name", "value"}, NEW ch \in Bytes
    PROVE  WithByte(Append(fs, p), part, ch) = Append(fs, Longer(p, part, ch)) /\ Longer(p, part, ch) \in Pairs
  <1>1. PICK x : x = [p EXCEPT ![part] = Append(@, ch)]
    OBVIOUS
  <1>2. DOMAIN p = {"name", "value"} /\ p["name"] \in Seq(Bytes) /\ p["value"] \in Seq(Bytes)
    BY DEF Pairs
  <1>3. x[part] = Append(p[part], ch) /\ \A other \in {"name", "value"} : other # part => x[other] = p[other]
    BY <1>1, <1>2
  <1>4. x \in Pairs
    <2>1. DOMAIN x = {"name", "value"} /\ x = [i \in {"name", "value"} |-> x[i]]
      BY <1>1, <1>2
    <2>2. x["name"] \in Seq(Bytes) /\ x["value"] \in Seq(Bytes)
      <3>1. Append(p[part], ch) \in Seq(Bytes)
        BY <1>2, LastRead
      <3>2. CASE part = "name"
        BY <1>2, <1>3, <3>1, <3>2
      <3>3. CASE part = "value"
        BY <1>2, <1>3, <3>1, <3>3
      <3> QED BY <3>2, <3>3
    <2>3. x = [name |-> x["name"], value |-> x["value"]]
      BY <2>1
    <2> QED BY <2>2, <2>3 DEF Pairs
  <1>5. PICK n : n = Len(fs)
    OBVIOUS
  <1>h. PICK hs : hs = Append(fs, p)
    OBVIOUS
  <1>6. n \in Nat /\ hs \in Seq(Pairs) /\ Len(hs) = n + 1 /\ hs[n + 1] = p /\ \A i \in 1 .. n : hs[i] = fs[i]
    BY <1>5, <1>h
  <1>7. PICK gs : gs = WithByte(hs, part, ch)
    OBVIOUS
  <1>8. gs = [hs EXCEPT ![n + 1] = x]
    BY <1>1, <1>6, <1>7 DEF WithByte
  <1>9. gs \in Seq(Pairs) /\ Len(gs) = n + 1 /\ gs[n + 1] = x /\ \A i \in 1 .. n : gs[i] = fs[i]
    <2>1. hs = [i \in 1 .. n + 1 |-> hs[i]] /\ \A i \in 1 .. n + 1 : hs[i] \in Pairs
      <3>1. \A z \in Seq(Pairs) : z = [i \in 1 .. Len(z) |-> z[i]] /\ \A i \in 1 .. Len(z) : z[i] \in Pairs
        OBVIOUS
      <3> QED BY <1>6, <3>1
    <2>2. gs = [i \in 1 .. n + 1 |-> IF i = n + 1 THEN x ELSE hs[i]]
      BY <1>8, <2>1
    <2>3. n + 1 \in 1 .. n + 1 /\ n + 1 \in Nat /\ \A i \in 1 .. n : i \in 1 .. n + 1 /\ i # n + 1
      BY <1>6
    <2>4. \A i \in 1 .. n + 1 : gs[i] \in Pairs
      BY <1>4, <2>1, <2>2
    <2>5. gs \in Seq(Pairs) /\ Len(gs) = n + 1
      <3>1. PICK k : k = n + 1
        OBVIOUS
      <3>2. k \in Nat /\ gs = [i \in 1 .. k |-> gs[i]] /\ \A i \in 1 .. k : gs[i] \in Pairs
        BY <2>2, <2>3, <2>4, <3>1
      <3>3. gs \in Seq(Pairs) /\ Len(gs) = k
        BY <3>2
      <3> QED BY <3>1, <3>3
    <2>6. gs[n + 1] = x /\ \A i \in 1 .. n : gs[i] = fs[i]
      BY <1>6, <2>2, <2>3
    <2> QED BY <2>5, <2>6
  <1>10. gs = Append(fs, x)
    <2>1. PICK y : y = Append(fs, x)
      OBVIOUS
    <2>2. y \in Seq(Pairs) /\ Len(y) = n + 1 /\ y[n + 1] = x /\ \A i \in 1 .. n : y[i] = fs[i]
      BY <1>4, <1>5, <2>1
    <2>3. ASSUME NEW i \in 1 .. n + 1
          PROVE  gs[i] = y[i]
      <3>1. i = n + 1 \/ i \in 1 .. n
        BY <1>6
      <3> QED BY <1>9, <2>2, <3>1
    <2> QED BY <1>9, <2>1, <2>2, <2>3
  <1> QED BY <1>1, <1>4, <1>7, <1>10, <1>h DEF Longer

\* The other part is left alone.
LEMMA LongerParts ==
    ASSUME NEW p \in Pairs, NEW ch
    PROVE  /\ Longer(p, "name", ch).name = Append(p.name, ch) /\ Longer(p, "name", ch).value = p.value
           /\ Longer(p, "value", ch).value = Append(p.value, ch) /\ Longer(p, "value", ch).name = p.name
  BY DEF Longer, Pairs

\* What a parser that writes headers keeps.
LEMMA HeadersKept ==
    ASSUME NEW s, Formed(s), Typed(s.req), NEW u, Formed(u), u.req.headers \in Seq(Pairs),
           \A g \in RequestFields : g # "headers" => u.req[g] = s.req[g]
    PROVE  /\ Typed(u.req) /\ u.req.content = s.req.content
           /\ \A d : Versioned(s.req, d) => Versioned(u.req, d)
  <1>1. /\ u.req.method = s.req.method /\ u.req.uri = s.req.uri /\ u.req.content = s.req.content
        /\ u.req.major = s.req.major /\ u.req.minor = s.req.minor
    BY FieldNames
  <1>2. \A d : Versioned(s.req, d) => Versioned(u.req, d)
    <2>1. PICK r : r = s.req
      OBVIOUS
    <2>2. PICK x : x = u.req
      OBVIOUS
    <2>3. \A d : Versioned(r, d) => Versioned(x, d)
      BY <1>1, <2>1, <2>2, VersionedKept
    <2> QED BY <2>1, <2>2, <2>3
  <1> QED BY <1>1, <1>2 DEF Typed

\* The byte that begins a header line, or the empty line; or a line is folded.
LEMMA ToldLine ==
    ASSUME NEW s, NEW c \in Seq(Bytes), NEW ch \in Bytes, Told(s, c), s.result = "indeterminate",
           s.state = "header_line_start", NEW t, t = OnHeaderLineStart(s, ch), t.result # "false"
    PROVE  Told(t, Append(c, ch)) \/ (Len(c) > 0 /\ c[Len(c)] = "lf" /\ ch \in Blank)
  <1>1. Formed(s) /\ Typed(s.req) /\ ReadLine(s.state, s.req, c)
    BY ReadParts DEF Told
  <1>2. PICK d \in Seq(Bytes) : Versioned(s.req, d) /\ c = d \o (CrLf \o RenderHeaders(s.req.headers))
    BY <1>1 DEF ReadLine
  <1>3. Len(c) > 0 /\ c[Len(c)] = "lf" /\ s.req.content = <<>>
    BY <1>1 DEF ReadLine
  <1>4. PICK hs : hs = s.req.headers
    OBVIOUS
  <1>5. hs \in Seq(Pairs)
    BY <1>1, <1>4 DEF Typed
  <1>6. PICK x : x = CrLf \o RenderHeaders(hs)
    OBVIOUS
  <1>7. x \in Seq(Bytes) /\ c = d \o x
    BY <1>2, <1>4, <1>5, <1>6, HeaderTexts
  <1>8. CASE ch = "cr"
    <2>1. t = Goto(s, "expecting_newline_3")
      BY <1>8 DEF OnHeaderLineStart, Blank, IsToken, Ordinary, Digits
    <2>2. Formed(t) /\ t.state = "expecting_newline_3" /\ t.req = s.req /\ t.result = s.result
      BY <1>1, <2>1, Operations
    <2>3. Append(c, ch) = d \o (x \o <<"cr">>)
      <3>1. Append(d \o x, ch) = d \o Append(x, ch)
        BY <1>7, AppendTo
      <3>2. Append(x, ch) = x \o <<"cr">>
        BY <1>7, <1>8, Texts
      <3> QED BY <1>7, <3>1, <3>2
    <2>4. ReadHead(t.state, t.req, Append(c, ch))
      BY <1>2, <1>3, <1>4, <1>6, <2>2, <2>3 DEF ReadHead
    <2> QED BY <1>1, <2>2, <2>4 DEF Told, Partly
  <1>9. CASE ch \in Blank
    BY <1>3, <1>9
  <1>10. CASE ch # "cr" /\ ch \notin Blank
    <2>1. PICK u : u = PushPair(s, "headers")
      OBVIOUS
    <2>2. PICK w : w = PushBack(u, "headers", "name", ch)
      OBVIOUS
    <2>3. t = Goto(w, "header_name")
      <3>1. t = Invalid(s) \/ t = Goto(w, "header_name")
        BY <1>10, <2>1, <2>2 DEF OnHeaderLineStart
      <3> QED BY <1>1, <3>1, Operations
    <2>4. "headers" \in RequestFields
      BY FieldNames
    <2>5. /\ Formed(u) /\ u.state = s.state /\ u.result = s.result
          /\ u.req["headers"] = Append(hs, NameValue)
          /\ \A g \in RequestFields : g # "headers" => u.req[g] = s.req[g]
      BY <1>1, <1>4, <2>1, <2>4, PairPushed
    <2>6. PICK ks : ks = u.req["headers"]
      OBVIOUS
    <2>7. /\ Formed(w) /\ w.state = u.state /\ w.result = u.result
          /\ w.req["headers"] = WithByte(ks, "name", ch)
          /\ \A g \in RequestFields : g # "headers" => w.req[g] = u.req[g]
      <3>1. Formed(u)
        BY <2>5
      <3> QED BY <2>2, <2>4, <2>6, <3>1, BackPushed
    <2>8. NameValue \in Pairs /\ NameValue["name"] = <<>> /\ NameValue["value"] = <<>>
      BY DEF NameValue, Pairs
    <2>9. PICK p \in Pairs : /\ w.req["headers"] = Append(hs, p) /\ p["name"] = Append(NameValue["name"], ch)
                             /\ p["value"] = NameValue["value"]
      <3>1. WithByte(Append(hs, NameValue), "name", ch) = Append(hs, Longer(NameValue, "name", ch))
        BY <1>5, <2>8, LastPair
      <3>2. Longer(NameValue, "name", ch) \in Pairs
        BY <1>5, <2>8, LastPair
      <3> QED BY <2>5, <2>6, <2>7, <2>8, <3>1, <3>2, LongerParts
    <2>10. p.name = <<ch>> /\ p.value = <<>>
      BY <2>8, <2>9
    <2>11. Formed(t) /\ t.state = "header_name" /\ t.req = w.req /\ t.result = s.result
      BY <2>3, <2>5, <2>7, Operations
    <2>12. Append(hs, p) \in Seq(Pairs) /\ t.req.headers = Append(hs, p)
      BY <1>5, <2>9, <2>11
    <2>13. /\ Typed(t.req) /\ t.req.content = s.req.content
           /\ \A y : Versioned(s.req, y) => Versioned(t.req, y)
      <3>1. \A g \in RequestFields : g # "headers" => t.req[g] = s.req[g]
        BY <2>5, <2>7, <2>11
      <3>2. t.req.headers \in Seq(Pairs)
        BY <2>12
      <3> QED BY <1>1, <2>11, <3>1, <3>2, HeadersKept
    <2>14. Append(c, ch) = (d \o x) \o p.name
      BY <1>7, <2>10, Texts
    <2>15. ReadHeader(t.state, t.req, Append(c, ch))
      <3>1. HeaderRead(t.state, p) = p.name
        BY <2>11 DEF HeaderRead
      <3> QED BY <1>2, <1>3, <1>5, <1>6, <2>9, <2>10, <2>11, <2>12, <2>13, <2>14, <3>1 DEF ReadHeader
    <2> QED BY <1>1, <2>11, <2>13, <2>15 DEF Told, Partly
  <1> QED BY <1>8, <1>9, <1>10

\* A byte has gone to the last header, which is x now.
IsPushed(u, s, fs, x) ==
    /\ Formed(u) /\ Typed(u.req) /\ u.state = s.state /\ u.result = s.result
    /\ u.req.content = s.req.content /\ \A d : Versioned(s.req, d) => Versioned(u.req, d)
    /\ u.req.headers = Append(fs, x) /\ x \in Pairs

\* A byte of a header, in a parser whose last header is p.
LEMMA HeaderPushed ==
    ASSUME NEW s, Formed(s), Typed(s.req), NEW fs \in Seq(Pairs), NEW p \in Pairs, s.req.headers = Append(fs, p),
           NEW part \in {"name", "value"}, NEW ch \in Bytes
    PROVE  IsPushed(PushBack(s, "headers", part, ch), s, fs, Longer(p, part, ch))
  <1> DEFINE u == PushBack(s, "headers", part, ch)
  <1> HIDE DEF u
  <1>1. "headers" \in RequestFields
    BY FieldNames
  <1>2. /\ Formed(u) /\ u.state = s.state /\ u.result = s.result
        /\ u.req["headers"] = WithByte(s.req["headers"], part, ch)
        /\ \A g \in RequestFields : g # "headers" => u.req[g] = s.req[g]
    BY <1>1, BackPushed DEF u
  <1>3. WithByte(Append(fs, p), part, ch) = Append(fs, Longer(p, part, ch)) /\ Longer(p, part, ch) \in Pairs
    BY LastPair
  <1>4. PICK x : x = Longer(p, part, ch)
    OBVIOUS
  <1>5. x \in Pairs /\ u.req.headers = Append(fs, x)
    BY <1>2, <1>3, <1>4
  <1>6. Append(fs, x) \in Seq(Pairs)
    BY <1>5
  <1>7. u.req.headers \in Seq(Pairs)
    BY <1>5, <1>6
  <1>8. Typed(u.req) /\ u.req.content = s.req.content /\ \A d : Versioned(s.req, d) => Versioned(u.req, d)
    BY <1>2, <1>7, HeadersKept
  <1> QED BY <1>2, <1>3, <1>4, <1>5, <1>8 DEF u, IsPushed

\* The bytes of a header, to the end of its line.
LEMMA ToldHeader ==
    ASSUME NEW s, NEW c \in Seq(Bytes), NEW ch \in Bytes, Told(s, c), s.result = "indeterminate",
           NEW t, t.result # "false",
           \/ s.state = "header_name" /\ t = OnHeaderName(s, ch)
           \/ s.state = "header_value" /\ t = OnHeaderValue(s, ch)
           \/ s.state \in {"space_before_header_value", "expecting_newline_2"} /\ t = OnLiteral(s, ch)
    PROVE  Told(t, Append(c, ch))
  <1>1. Formed(s) /\ Typed(s.req) /\ ReadHeader(s.state, s.req, c)
    BY ReadParts DEF Told
  <1>2. PICK fs \in Seq(Pairs), p \in Pairs, d \in Seq(Bytes) :
           /\ s.req.headers = Append(fs, p) /\ Versioned(s.req, d)
           /\ s.state \in {"header_name", "space_before_header_value"} => p.value = <<>>
           /\ c = (d \o (CrLf \o RenderHeaders(fs))) \o HeaderRead(s.state, p)
    BY <1>1 DEF ReadHeader
  <1>3. PICK g : g = d \o (CrLf \o RenderHeaders(fs))
    OBVIOUS
  <1>4. PICK n : n = p.name
    OBVIOUS
  <1>5. PICK v : v = p.value
    OBVIOUS
  <1>6. PICK y : y = n \o <<":", "sp">>
    OBVIOUS
  <1>7. g \in Seq(Bytes) /\ n \in Seq(Bytes) /\ v \in Seq(Bytes) /\ y \in Seq(Bytes)
    <2>1. g \in Seq(Bytes)
      BY <1>3, HeaderTexts, Texts
    <2>2. n \in Seq(Bytes) /\ v \in Seq(Bytes)
      BY <1>4, <1>5, HeaderTexts
    <2>3. y \in Seq(Bytes)
      BY <1>6, <2>2, HeaderTexts, Texts
    <2> QED BY <2>1, <2>2, <2>3
  <1>8. s.req.content = <<>>
    BY <1>1 DEF ReadHeader
  <1>9. \A z \in Seq(Bytes) : Append(g \o z, ch) = g \o Append(z, ch)
    <2>1. g \in Seq(Bytes)
      BY <1>7
    <2>2. ASSUME NEW z \in Seq(Bytes)
          PROVE  Append(g \o z, ch) = g \o Append(z, ch)
      BY <2>1, AppendTo
    <2> QED BY <2>2
  <1>10. ASSUME NEW u, Formed(u), Typed(u.req), u.result = "indeterminate", u.req.content = <<>>, Versioned(u.req, d),
                u.state \in {"header_name", "space_before_header_value", "header_value", "expecting_newline_2"},
                NEW x \in Pairs, u.req.headers = Append(fs, x),
                u.state \in {"header_name", "space_before_header_value"} => x.value = <<>>,
                Append(c, ch) = g \o HeaderRead(u.state, x)
         PROVE  Told(u, Append(c, ch))
    <2>1. ReadHeader(u.state, u.req, Append(c, ch))
      BY <1>3, <1>10 DEF ReadHeader
    <2> QED BY <1>10, <2>1 DEF Told, Partly
  <1>11. CASE s.state = "header_name"
    <2>1. c = g \o n /\ v = <<>>
      BY <1>2, <1>3, <1>4, <1>5, <1>11 DEF HeaderRead
    <2>2. Append(c, ch) = g \o Append(n, ch)
      BY <1>7, <1>9, <2>1
    <2>3. CASE ch = ":"
      <3>1. t = Goto(s, "space_before_header_value")
        BY <1>11, <2>3 DEF OnHeaderName, IsToken, Ordinary, Digits
      <3>2. Formed(t) /\ t.state = "space_before_header_value" /\ t.req = s.req /\ t.result = s.result
        BY <1>1, <3>1, Operations
      <3>3. Append(n, ch) = n \o <<":">>
        BY <1>7, <2>3, Texts
      <3>4. HeaderRead(t.state, p) = n \o <<":">>
        BY <1>4, <3>2 DEF HeaderRead
      <3> QED BY <1>1, <1>2, <1>5, <1>8, <1>10, <2>1, <2>2, <3>2, <3>3, <3>4
    <2>4. CASE ch # ":"
      <3>1. t = PushBack(s, "headers", "name", ch)
        <4>1. t = Invalid(s) \/ t = PushBack(s, "headers", "name", ch)
          BY <1>11, <2>4 DEF OnHeaderName
        <4> QED BY <1>1, <4>1, Operations
      <3>2. /\ Formed(t) /\ Typed(t.req) /\ t.state = s.state /\ t.result = s.result
            /\ t.req.content = s.req.content /\ \A e : Versioned(s.req, e) => Versioned(t.req, e)
            /\ t.req.headers = Append(fs, Longer(p, "name", ch)) /\ Longer(p, "name", ch) \in Pairs
        <4>1. Formed(s) /\ Typed(s.req) /\ s.req.headers = Append(fs, p) /\ "name" \in {"name", "value"}
          BY <1>1, <1>2
        <4>2. IsPushed(PushBack(s, "headers", "name", ch), s, fs, Longer(p, "name", ch))
          BY <4>1, HeaderPushed, Zenon
        <4> QED BY <3>1, <4>2 DEF IsPushed
      <3>3. PICK x \in Pairs : t.req.headers = Append(fs, x) /\ x.name = Append(p.name, ch) /\ x.value = p.value
        BY <3>2, LongerParts
      <3>4. HeaderRead(t.state, x) = Append(n, ch)
        BY <1>4, <1>11, <3>2, <3>3 DEF HeaderRead
      <3> QED BY <1>2, <1>5, <1>8, <1>10, <1>11, <2>1, <2>2, <3>2, <3>3, <3>4
    <2> QED BY <2>3, <2>4
  <1>12. CASE s.state = "header_value"
    <2>1. c = g \o (y \o v)
      BY <1>2, <1>3, <1>4, <1>5, <1>6, <1>12 DEF HeaderRead
    <2>2. PICK z : z = y \o v
      OBVIOUS
    <2>3. z \in Seq(Bytes) /\ Append(c, ch) = g \o Append(z, ch)
      BY <1>7, <1>9, <2>1, <2>2, Texts
    <2>4. CASE ch = "cr"
      <3>1. t = Goto(s, "expecting_newline_2")
        BY <1>12, <2>4 DEF OnHeaderValue
      <3>2. Formed(t) /\ t.state = "expecting_newline_2" /\ t.req = s.req /\ t.result = s.result
        BY <1>1, <3>1, Operations
      <3>3. Append(z, ch) = z \o <<"cr">>
        BY <2>3, <2>4, Texts
      <3>4. HeaderRead(t.state, p) = z \o <<"cr">>
        BY <1>4, <1>5, <1>6, <2>2, <3>2 DEF HeaderRead
      <3> QED BY <1>1, <1>2, <1>8, <1>10, <2>3, <3>2, <3>3, <3>4
    <2>5. CASE ch # "cr"
      <3>1. t = PushBack(s, "headers", "value", ch)
        <4>1. t = Invalid(s) \/ t = PushBack(s, "headers", "value", ch)
          BY <1>12, <2>5 DEF OnHeaderValue
        <4> QED BY <1>1, <4>1, Operations
      <3>2. /\ Formed(t) /\ Typed(t.req) /\ t.state = s.state /\ t.result = s.result
            /\ t.req.content = s.req.content /\ \A e : Versioned(s.req, e) => Versioned(t.req, e)
            /\ t.req.headers = Append(fs, Longer(p, "value", ch)) /\ Longer(p, "value", ch) \in Pairs
        <4>1. Formed(s) /\ Typed(s.req) /\ s.req.headers = Append(fs, p) /\ "value" \in {"name", "value"}
          BY <1>1, <1>2
        <4>2. IsPushed(PushBack(s, "headers", "value", ch), s, fs, Longer(p, "value", ch))
          BY <4>1, HeaderPushed, Zenon
        <4> QED BY <3>1, <4>2 DEF IsPushed
      <3>3. PICK x \in Pairs : t.req.headers = Append(fs, x) /\ x.value = Append(p.value, ch) /\ x.name = p.name
        BY <3>2, LongerParts
      <3>4. HeaderRead(t.state, x) = y \o Append(v, ch)
        BY <1>4, <1>5, <1>6, <1>12, <3>2, <3>3 DEF HeaderRead
      <3>5. Append(z, ch) = y \o Append(v, ch)
        BY <1>7, <2>2, AppendTo
      <3> QED BY <1>2, <1>8, <1>10, <1>12, <2>3, <3>2, <3>3, <3>4, <3>5
    <2> QED BY <2>4, <2>5
  <1>13. CASE s.state = "space_before_header_value"
    <2>1. PICK z : z = n \o <<":">>
      OBVIOUS
    <2>2. c = g \o z /\ v = <<>> /\ z \in Seq(Bytes)
      <3>1. z \in Seq(Bytes)
        BY <1>7, <2>1, HeaderTexts, Texts
      <3> QED BY <1>2, <1>3, <1>4, <1>5, <1>13, <2>1, <3>1 DEF HeaderRead
    <2>3. ch = "sp" /\ t.state = "header_value" /\ Formed(t) /\ t.req = s.req /\ t.result = s.result
      BY <1>1, <1>13, LiteralFacts, LiteralStep
    <2>4. Append(z, ch) = y
      <3>1. Append(n \o <<":">>, "sp") = n \o Append(<<":">>, "sp")
        <4>1. n \in Seq(Bytes) /\ <<":">> \in Seq(Bytes) /\ "sp" \in Bytes
          BY <1>7, HeaderTexts, SomeBytes
        <4> QED BY <4>1, AppendTo
      <3>2. Append(<<":">>, "sp") = <<":", "sp">>
        BY HeaderTexts, Zenon
      <3> QED BY <1>6, <2>1, <2>3, <3>1, <3>2
    <2>5. HeaderRead(t.state, p) = y
      <3>1. HeaderRead(t.state, p) = y \o v
        BY <1>4, <1>5, <1>6, <2>3 DEF HeaderRead
      <3>2. y \o <<>> = y
        BY <1>7, Texts
      <3> QED BY <2>2, <3>1, <3>2
    <2>6. Append(c, ch) = g \o y
      BY <1>9, <2>2, <2>4
    <2> QED BY <1>1, <1>2, <1>8, <1>10, <2>3, <2>5, <2>6
  <1>14. CASE s.state = "expecting_newline_2"
    <2>1. PICK z : z = y \o v
      OBVIOUS
    <2>2. PICK w : w = z \o <<"cr">>
      OBVIOUS
    <2>3. c = g \o w
      BY <1>2, <1>3, <1>4, <1>5, <1>6, <1>14, <2>1, <2>2 DEF HeaderRead
    <2>4. z \in Seq(Bytes) /\ w \in Seq(Bytes)
      BY <1>7, <2>1, <2>2, HeaderTexts, Texts
    <2>5. ch = "lf" /\ t.state = "header_line_start" /\ Formed(t) /\ t.req = s.req /\ t.result = s.result
      BY <1>1, <1>14, LiteralFacts, LiteralStep
    <2>6. Append(w, ch) = HeaderLine(p)
      <3>1. Append(z \o <<"cr">>, ch) = z \o Append(<<"cr">>, ch)
        BY <2>4, HeaderTexts, AppendTo
      <3>2. Append(<<"cr">>, ch) = CrLf
        BY <2>5, HeaderTexts
      <3>3. HeaderLine(p) = z \o CrLf
        BY <1>4, <1>5, <1>6, <2>1 DEF HeaderLine
      <3> QED BY <2>2, <3>1, <3>2, <3>3
    <2>11. Append(c, ch) = d \o (CrLf \o RenderHeaders(t.req.headers))
      <3>1. Append(c, ch) = g \o HeaderLine(p)
        BY <1>9, <2>3, <2>4, <2>6
      <3>2. (d \o (CrLf \o RenderHeaders(fs))) \o HeaderLine(p) = d \o (CrLf \o RenderHeaders(Append(fs, p)))
        BY LineEnded
      <3> QED BY <1>2, <1>3, <2>5, <3>1, <3>2
    <2>12. ReadLine(t.state, t.req, Append(c, ch))
      BY <1>2, <1>8, <2>5, <2>11, LastRead DEF ReadLine
    <2> QED BY <1>1, <2>5, <2>12 DEF Told, Partly
  <1> QED BY <1>11, <1>12, <1>13, <1>14

\* The length of the content is not one of the bytes.
LEMMA LengthSet ==
    ASSUME NEW s, Formed(s), Typed(s.req), NEW v, NEW u, u = SetField(s, "content_length", v)
    PROVE  /\ Formed(u) /\ Typed(u.req) /\ u.state = s.state /\ u.result = s.result
           /\ u.req.content = s.req.content /\ u.req.headers = s.req.headers
           /\ \A d : Versioned(s.req, d) => Versioned(u.req, d)
  <1>1. "content_length" \in RequestFields
    BY FieldNames
  <1>2. /\ Formed(u) /\ u.state = s.state /\ u.result = s.result
        /\ \A g \in RequestFields : g # "content_length" => u.req[g] = s.req[g]
    BY <1>1, FieldSet
  <1>3. u.req.headers = s.req.headers /\ u.req.headers \in Seq(Pairs)
    BY <1>2, FieldNames DEF Typed
  <1>4. /\ u.req.method = s.req.method /\ u.req.uri = s.req.uri /\ u.req.content = s.req.content
        /\ u.req.major = s.req.major /\ u.req.minor = s.req.minor
    BY <1>2, FieldNames
  <1>5. \A d : Versioned(s.req, d) => Versioned(u.req, d)
    <2>1. PICK r : r = s.req
      OBVIOUS
    <2>2. PICK x : x = u.req
      OBVIOUS
    <2>3. \A d : Versioned(r, d) => Versioned(x, d)
      BY <1>4, <2>1, <2>2, VersionedKept
    <2> QED BY <2>1, <2>2, <2>3
  <1>6. Typed(u.req)
    BY <1>3, <1>4 DEF Typed
  <1> QED BY <1>2, <1>3, <1>4, <1>5, <1>6

\* So a request stays complete when it is set.
LEMMA LengthComplete ==
    ASSUME NEW s, Formed(s), Typed(s.req), NEW v, NEW u, u = SetField(s, "content_length", v), NEW c, Complete(s.req, c)
    PROVE  Complete(u.req, c)
  <1>1. PICK d \in Seq(Bytes) : Versioned(s.req, d) /\ c = d \o Rest(s.req)
    BY DEF Complete
  <1>2. Rest(u.req) = Rest(s.req) /\ Versioned(u.req, d)
    BY <1>1, LengthSet DEF Rest
  <1> QED BY <1>1, <1>2 DEF Complete

\* The end of the empty line.
LEMMA ToldHead ==
    ASSUME NEW s, NEW c \in Seq(Bytes), NEW ch \in Bytes, Told(s, c), s.result = "indeterminate",
           s.state = "expecting_newline_3", NEW t, t = OnHeadEnd(s, ch), t.result # "false"
    PROVE  Told(t, Append(c, ch))
  <1>1. Formed(s) /\ Typed(s.req) /\ ReadHead(s.state, s.req, c)
    BY ReadParts DEF Told
  <1>2. PICK d \in Seq(Bytes) : Versioned(s.req, d) /\ c = d \o (CrLf \o RenderHeaders(s.req.headers) \o <<"cr">>)
    BY <1>1 DEF ReadHead
  <1>3. PICK v : v = Strtol(Header(s.req, <<"L">>))
    OBVIOUS
  <1>4. PICK u : u = SetField(s, "content_length", v)
    OBVIOUS
  <1>5. ch = "lf" /\ (t = Verdict(s, "true") \/ t = Goto(u, "content_start"))
    <2>1. t = Invalid(s) \/ (ch = "lf" /\ (t = Verdict(s, "true") \/ t = Goto(u, "content_start")))
      <3>1. u = [s EXCEPT !.req.content_length = Strtol(Header(s.req, <<"L">>))]
        BY <1>3, <1>4 DEF SetField
      <3>2. CASE ch = "lf" /\ s.req.method = <<"G">>
        BY <3>1, <3>2 DEF OnHeadEnd
      <3>3. CASE ch = "lf" /\ s.req.method # <<"G">>
        BY <3>1, <3>3 DEF OnHeadEnd
      <3>4. CASE ch # "lf"
        BY <3>4 DEF OnHeadEnd
      <3> QED BY <3>2, <3>3, <3>4
    <2> QED BY <1>1, <2>1, Operations
  <1>6. Complete(s.req, Append(c, ch))
    <2>1. PICK x : x = CrLf \o RenderHeaders(s.req.headers)
      OBVIOUS
    <2>2. x \in Seq(Bytes) /\ <<"cr">> \in Seq(Bytes)
      BY <1>1, <2>1, HeaderTexts DEF Typed
    <2>3. PICK k : k = <<"cr">>
      OBVIOUS
    <2>4. Append(x \o k, ch) = x \o Append(k, ch) /\ x \o k \in Seq(Bytes)
      BY <2>2, <2>3, AppendTo
    <2>5. PICK z : z = x \o k
      OBVIOUS
    <2>6. Append(d \o z, ch) = d \o Append(z, ch)
      BY <2>4, <2>5, AppendTo
    <2>7. Append(k, ch) = CrLf
      BY <1>5, <2>3, HeaderTexts
    <2>8. Append(c, ch) = d \o (x \o CrLf)
      BY <1>2, <2>1, <2>3, <2>4, <2>5, <2>6, <2>7
    <2>9. Rest(s.req) = x \o CrLf
      <3>1. x \o CrLf \in Seq(Bytes)
        BY <2>2, HeaderTexts, Texts
      <3>2. (x \o CrLf) \o <<>> = x \o CrLf
        BY <3>1, Texts
      <3> QED BY <1>1, <2>1, <3>2 DEF Rest, ReadHead
    <2> QED BY <1>2, <2>8, <2>9 DEF Complete
  <1>7. CASE t = Verdict(s, "true")
    <2>1. Formed(t) /\ t.req = s.req /\ t.result = "true"
      BY <1>1, <1>7, Operations
    <2> QED BY <1>1, <1>6, <2>1 DEF Told
  <1>8. CASE t = Goto(u, "content_start")
    <2>1. Formed(u) /\ Typed(u.req) /\ u.result = s.result
      BY <1>1, <1>4, LengthSet
    <2>2. Complete(u.req, Append(c, ch))
      BY <1>1, <1>4, <1>6, LengthComplete
    <2>3. Formed(t) /\ t.state = "content_start" /\ t.req = u.req /\ t.result = u.result
      BY <1>8, <2>1, Operations
    <2> QED BY <2>1, <2>2, <2>3 DEF Told, Partly, ReadContent
  <1> QED BY <1>5, <1>7, <1>8

\* The bytes of the content.
LEMMA ToldContent ==
    ASSUME NEW s, NEW c \in Seq(Bytes), NEW ch \in Bytes, Told(s, c), s.result = "indeterminate",
           s.state \in {"content_start", "content"}, NEW t, t = OnContent(s, ch), t.result # "false"
    PROVE  Told(t, Append(c, ch))
  <1>1. Formed(s) /\ Typed(s.req) /\ Complete(s.req, c)
    <2>1. Formed(s) /\ Typed(s.req) /\ ReadContent(s.state, s.req, c)
      BY ReadParts DEF Told
    <2> QED BY <2>1 DEF ReadContent
  <1>2. PICK m : m = s.req.content_length - 1
    OBVIOUS
  <1>3. PICK u : u = SetField(s, "content_length", m)
    OBVIOUS
  <1>4. PICK w : w = Push(u, "content", ch)
    OBVIOUS
  <1>5. PICK v : v = Strtol(Header(s.req, <<"L">>))
    OBVIOUS
  <1>6. PICK x : x = SetField(w, "content_length", v)
    OBVIOUS
  <1>7. t = Verdict(x, "true") \/ t = Goto(w, "content")
    <2>1. t = Invalid(s) \/ t = Counted(s, ch)
      BY DEF OnContent
    <2>2. t = Counted(s, ch)
      BY <1>1, <2>1, Operations
    <2> QED BY <1>2, <1>3, <1>4, <1>5, <1>6, <2>2 DEF Counted, SetField
  <1>8. Formed(u) /\ Typed(u.req) /\ u.result = s.result /\ Complete(u.req, c)
    BY <1>1, <1>3, LengthSet, LengthComplete
  <1>9. /\ Formed(w) /\ w.result = u.result /\ w.req["content"] = Append(u.req["content"], ch)
        /\ \A g \in RequestFields : g # "content" => w.req[g] = u.req[g]
    <2>1. "content" \in RequestFields
      BY FieldNames
    <2> QED BY <1>4, <1>8, <2>1, Pushed
  <1>10. /\ w.req.method = u.req.method /\ w.req.uri = u.req.uri /\ w.req.headers = u.req.headers
         /\ w.req.major = u.req.major /\ w.req.minor = u.req.minor
    BY <1>9, FieldNames
  <1>11. PICK d \in Seq(Bytes) : Versioned(u.req, d) /\ c = d \o Rest(u.req)
    BY <1>8 DEF Complete
  <1>12. PICK y : y = CrLf \o RenderHeaders(u.req.headers) \o CrLf
    OBVIOUS
  <1>13. PICK b : b = u.req.content
    OBVIOUS
  <1>14. y \in Seq(Bytes) /\ b \in Seq(Bytes)
    <2>1. CrLf \o RenderHeaders(u.req.headers) \in Seq(Bytes) /\ CrLf \in Seq(Bytes)
      BY <1>8, HeaderTexts DEF Typed
    <2> QED BY <1>8, <1>12, <1>13, <2>1, Texts DEF Typed
  <1>15. Append(b, ch) \in Seq(Bytes)
    BY <1>14, LastRead
  <1>16. Typed(w.req)
    BY <1>8, <1>9, <1>10, <1>13, <1>15 DEF Typed
  <1>17. Complete(w.req, Append(c, ch))
    <2>1. PICK z : z = y \o b
      OBVIOUS
    <2>2. z \in Seq(Bytes) /\ Append(z, ch) = y \o Append(b, ch)
      BY <1>14, <2>1, AppendTo
    <2>3. Append(d \o z, ch) = d \o Append(z, ch)
      BY <2>2, AppendTo
    <2>4. Rest(u.req) = z /\ Rest(w.req) = y \o Append(b, ch)
      BY <1>9, <1>10, <1>12, <1>13, <2>1 DEF Rest
    <2>5. Versioned(w.req, d)
      <3>1. PICK r : r = u.req
        OBVIOUS
      <3>2. PICK q : q = w.req
        OBVIOUS
      <3>3. Versioned(q, d)
        BY <1>10, <1>11, <3>1, <3>2, VersionedKept
      <3> QED BY <3>2, <3>3
    <2>6. Append(c, ch) = d \o Rest(w.req)
      BY <1>11, <2>2, <2>3, <2>4
    <2> QED BY <2>5, <2>6 DEF Complete
  <1>18. CASE t = Goto(w, "content")
    <2>1. Formed(t) /\ t.state = "content" /\ t.req = w.req /\ t.result = w.result
      BY <1>9, <1>18, Operations
    <2> QED BY <1>8, <1>9, <1>16, <1>17, <2>1 DEF Told, Partly, ReadContent
  <1>19. CASE t = Verdict(x, "true")
    <2>1. Formed(x) /\ Typed(x.req) /\ Complete(x.req, Append(c, ch))
      BY <1>6, <1>9, <1>16, <1>17, LengthSet, LengthComplete
    <2>2. Formed(t) /\ t.req = x.req /\ t.result = "true"
      BY <1>19, <2>1, Operations
    <2> QED BY <2>1, <2>2 DEF Told
  <1> QED BY <1>7, <1>18, <1>19

\* Every byte that is not refused is told, unless it folds a line.
LEMMA ToldIteration ==
    ASSUME NEW s, NEW c \in Seq(Bytes), NEW ch \in Bytes, Told(s, c), s.result = "indeterminate",
           NEW t, t = Iteration(s, ch), t.result # "false"
    PROVE  Told(t, Append(c, ch)) \/ (Len(c) > 0 /\ c[Len(c)] = "lf" /\ ch \in Blank)
  <1>1. Formed(s) /\ Partly(s.state, s.req, c)
    BY DEF Told
  <1>2. PICK q : q = s.state
    OBVIOUS
  <1>3. q # "header_lws"
    BY <1>1, <1>2, ReadParts
  <1>4. t # Invalid(s)
    BY <1>1, Operations
  <1>5. PICK D : D = DOMAIN Literal
    OBVIOUS
  <1>6. D = {"http_version_h", "http_version_t_1", "http_version_t_2", "http_version_p", "http_version_slash",
             "expecting_newline_1", "space_before_header_value", "expecting_newline_2"}
    BY <1>5, LiteralFacts
  <1>7. CASE q \in D
    <2>1. t = OnLiteral(s, ch)
      BY <1>2, <1>5, <1>6, <1>7 DEF Iteration
    <2>2. CASE q \in {"http_version_h", "http_version_t_1", "http_version_t_2", "http_version_p", "http_version_slash"}
      BY <1>2, <2>1, <2>2, ToldLiteral
    <2>3. CASE q = "expecting_newline_1"
      BY <1>2, <2>1, <2>3, ToldVersion
    <2>4. CASE q \in {"space_before_header_value", "expecting_newline_2"}
      BY <1>2, <2>1, <2>4, ToldHeader
    <2> QED BY <1>6, <1>7, <2>2, <2>3, <2>4
  <1>8. CASE q \in {"method_start", "method"}
    <2>1. t = OnMethod(s, ch)
      BY <1>2, <1>5, <1>6, <1>8 DEF Iteration
    <2> QED BY <1>2, <1>8, <2>1, ToldMethod
  <1>9. CASE q \in {"uri", "param_name_start", "param_name", "param_value"}
    <2>1. t = IF s.state = "uri" THEN OnUri(s, ch) ELSE OnParam(s, ch)
      BY <1>2, <1>5, <1>6, <1>9 DEF Iteration
    <2> QED BY <1>2, <1>9, <2>1, ToldUri
  <1>10. CASE q \in {"http_version_major_start", "http_version_major"}
    <2>1. t = OnVersion(s, ch)
      BY <1>2, <1>5, <1>6, <1>10 DEF Iteration
    <2> QED BY <1>2, <1>10, <2>1, ToldMajor
  <1>11. CASE q \in {"http_version_minor_start", "http_version_minor"}
    <2>1. t = OnVersion(s, ch)
      BY <1>2, <1>5, <1>6, <1>11 DEF Iteration
    <2> QED BY <1>2, <1>11, <2>1, ToldMinor
  <1>12. CASE q = "header_line_start"
    <2>1. t = OnHeaderLineStart(s, ch)
      BY <1>2, <1>5, <1>6, <1>12 DEF Iteration
    <2> QED BY <1>2, <1>12, <2>1, ToldLine
  <1>13. CASE q = "header_name"
    <2>1. t = OnHeaderName(s, ch)
      BY <1>2, <1>5, <1>6, <1>13 DEF Iteration
    <2> QED BY <1>2, <1>13, <2>1, ToldHeader
  <1>14. CASE q = "header_value"
    <2>1. t = OnHeaderValue(s, ch)
      BY <1>2, <1>5, <1>6, <1>14 DEF Iteration
    <2> QED BY <1>2, <1>14, <2>1, ToldHeader
  <1>15. CASE q = "expecting_newline_3"
    <2>1. t = OnHeadEnd(s, ch)
      BY <1>2, <1>5, <1>6, <1>15 DEF Iteration
    <2> QED BY <1>2, <1>15, <2>1, ToldHead
  <1>16. CASE q \in {"content_start", "content"}
    <2>1. t = OnContent(s, ch)
      BY <1>2, <1>5, <1>6, <1>16 DEF Iteration
    <2> QED BY <1>2, <1>16, <2>1, ToldContent
  <1>17. \/ q \in D \/ q \in {"method_start", "method"}
         \/ q \in {"uri", "param_name_start", "param_name", "param_value"}
         \/ q \in {"http_version_major_start", "http_version_major"}
         \/ q \in {"http_version_minor_start", "http_version_minor"}
         \/ q \in {"header_line_start", "header_name", "header_value", "expecting_newline_3"}
         \/ q \in {"content_start", "content"}
    <2>1. t = Invalid(s) \/ q \in D \cup {"method_start", "method", "uri", "param_name_start", "param_name", "param_value",
              "http_version_major_start", "http_version_major", "http_version_minor_start", "http_version_minor",
              "header_line_start", "header_lws", "header_name", "header_value", "expecting_newline_3",
              "content_start", "content"}
      BY <1>2, <1>5 DEF Iteration
    <2> QED BY <1>3, <1>4, <2>1
  <1> QED BY <1>7, <1>8, <1>9, <1>10, <1>11, <1>12, <1>13, <1>14, <1>15, <1>16, <1>17

\* What is told of the parser depends on its three parts.
LEMMA ToldParts ==
    ASSUME NEW s, NEW t, NEW c, Told(t, c), Formed(s), s.state = t.state, s.req = t.req, s.result = t.result
    PROVE  Told(s, c)
  BY DEF Told

\* What may arrive is made of bytes.
LEMMA InputBytes ==
    ASSUME Init
    PROVE  input \in Seq(Bytes)
  <1>1. PICK w : w = Render(message)
    OBVIOUS
  <1>2. w \in Seq(Bytes) /\ Edits \subseteq Bytes /\ "G" \in Bytes /\ "sp" \in Bytes
    BY <1>1, BytesAssumption DEF Init, Bytes, Ordinary, Tspecial
  <1>3. w \o <<"G", "sp">> \in Seq(Bytes)
    BY <1>2
  <1>4. ASSUME NEW x \in Edited(w)
        PROVE  x \in Seq(Bytes)
    <2>1. DOMAIN w = 1 .. Len(w)
      BY <1>2
    <2>2. ASSUME NEW i \in 1 .. Len(w), NEW ch \in Edits, x = [w EXCEPT ![i] = ch]
          PROVE  x \in Seq(Bytes)
      BY <1>2, <2>2
    <2>3. ASSUME NEW i \in 1 .. Len(w)
          PROVE  /\ SubSeq(w, 1, i - 1) \in Seq(Bytes) /\ SubSeq(w, i, Len(w)) \in Seq(Bytes)
                 /\ SubSeq(w, i + 1, Len(w)) \in Seq(Bytes)
      BY <1>2, <2>3
    <2>4. ASSUME NEW i \in 1 .. Len(w), NEW ch \in Edits
          PROVE  InsertAt(w, i, ch) \in Seq(Bytes)
      <3>1. <<ch>> \in Seq(Bytes)
        BY <1>2
      <3> QED BY <2>3, <3>1, Texts DEF InsertAt
    <2>5. ASSUME NEW i \in 1 .. Len(w)
          PROVE  RemoveAt(w, i) \in Seq(Bytes)
      BY <2>3, Texts DEF RemoveAt
    <2> QED BY <1>4, <2>1, <2>2, <2>4, <2>5 DEF Edited
  <1>5. input = w \/ input = w \o <<"G", "sp">> \/ input \in Edited(w)
    BY <1>1 DEF Init
  <1> QED BY <1>2, <1>3, <1>4, <1>5

\* Texts of the same bytes are the same.
LEMMA SameText ==
    ASSUME NEW a \in Seq(Bytes), NEW b \in Seq(Bytes), Len(a) = Len(b), \A i \in 1 .. Len(b) : a[i] = b[i]
    PROVE  a = b
  OBVIOUS

\* A part of a text.
LEMMA PartOf ==
    ASSUME NEW w \in Seq(Bytes), NEW k \in Nat, NEW m \in Nat, k + m <= Len(w)
    PROVE  /\ SubSeq(w, k + 1, k + m) \in Seq(Bytes) /\ Len(SubSeq(w, k + 1, k + m)) = m
           /\ \A i \in 1 .. m : SubSeq(w, k + 1, k + m)[i] = w[k + i]
  OBVIOUS

\* What stands between two texts.
LEMMA Middle ==
    ASSUME NEW a \in Seq(Bytes), NEW b \in Seq(Bytes), NEW c \in Seq(Bytes)
    PROVE  SubSeq((a \o b) \o c, Len(a) + 1, Len((a \o b) \o c) - Len(c)) = b
  <1>w. PICK w : w = (a \o b) \o c
    OBVIOUS
  <1>1. w \in Seq(Bytes) /\ Len(w) = Len(a) + Len(b) + Len(c)
    BY <1>w
  <1>2. Len(w) - Len(c) = Len(a) + Len(b)
    BY <1>1
  <1>3. PICK x : x = SubSeq(w, Len(a) + 1, Len(a) + Len(b))
    OBVIOUS
  <1>4. Len(a) \in Nat /\ Len(b) \in Nat /\ Len(c) \in Nat
    OBVIOUS
  <1>5. x \in Seq(Bytes) /\ Len(x) = Len(b) /\ \A i \in 1 .. Len(b) : x[i] = w[Len(a) + i]
    BY <1>1, <1>3, <1>4
  <1>6. ASSUME NEW i \in 1 .. Len(b)
        PROVE  w[Len(a) + i] = b[i]
    BY <1>w
  <1>7. x = b
    <2>1. \A i \in 1 .. Len(b) : x[i] = b[i]
      BY <1>5, <1>6
    <2> QED BY <1>5, <2>1, SameText
  <1> QED BY <1>2, <1>3, <1>7, <1>w

\* The first dot of v ends a, and b is after it.
SplitAtDot(v, a, b) ==
    /\ {i \in 1 .. Len(v) : v[i] = "."} # {} /\ Min({i \in 1 .. Len(v) : v[i] = "."}) = Len(a) + 1
    /\ SubSeq(v, 1, Len(a)) = a /\ SubSeq(v, Len(a) + 2, Len(v)) = b

\* The dot of the version is the first one, for the digits before it are none.
LEMMA DotFound ==
    ASSUME NEW a \in Seq(Digits), NEW b \in Seq(Digits)
    PROVE  SplitAtDot((a \o <<".">>) \o b, a, b)
  <1> DEFINE v == (a \o <<".">>) \o b
  <1> HIDE DEF v
  <1>1. a \in Seq(Bytes) /\ b \in Seq(Bytes) /\ <<".">> \in Seq(Bytes) /\ "." \notin Digits
    BY SomeBytes
  <1>2. PICK n : n = Len(a)
    OBVIOUS
  <1>3. PICK m : m = Len(b)
    OBVIOUS
  <1>4. n \in Nat /\ m \in Nat
    BY <1>2, <1>3
  <1>5. /\ v \in Seq(Bytes) /\ Len(v) = n + 1 + m /\ v[n + 1] = "."
        /\ (\A i \in 1 .. n : v[i] = a[i]) /\ (\A i \in 1 .. m : v[n + 1 + i] = b[i])
    BY <1>1, <1>2, <1>3 DEF v
  <1>6. SubSeq(v, 1, n) = a
    <2>1. PICK x : x = SubSeq(v, 1, n)
      OBVIOUS
    <2>2. x \in Seq(Bytes) /\ Len(x) = n /\ \A i \in 1 .. n : x[i] = v[i]
      BY <1>4, <1>5, <2>1
    <2> QED BY <1>1, <1>2, <1>5, <2>1, <2>2
  <1>7. SubSeq(v, n + 2, Len(v)) = b
    <2>1. PICK k : k = n + 1
      OBVIOUS
    <2>2. PICK x : x = SubSeq(v, k + 1, k + m)
      OBVIOUS
    <2>3. k \in Nat /\ k + m <= Len(v) /\ n + 2 = k + 1 /\ Len(v) = k + m
      BY <1>4, <1>5, <2>1
    <2>4. x \in Seq(Bytes) /\ Len(x) = m /\ \A i \in 1 .. m : x[i] = v[k + i]
      <3>1. v \in Seq(Bytes) /\ m \in Nat
        BY <1>4, <1>5
      <3>2. /\ SubSeq(v, k + 1, k + m) \in Seq(Bytes) /\ Len(SubSeq(v, k + 1, k + m)) = m
            /\ \A i \in 1 .. m : SubSeq(v, k + 1, k + m)[i] = v[k + i]
        BY <2>3, <3>1, PartOf, Zenon
      <3> QED BY <2>2, <3>2
    <2>5. \A i \in 1 .. Len(b) : x[i] = b[i]
      BY <1>3, <1>5, <2>1, <2>4
    <2>6. x = b
      BY <1>1, <1>3, <2>4, <2>5, SameText
    <2> QED BY <2>2, <2>3, <2>6
  <1>8. PICK I : I = {i \in 1 .. Len(v) : v[i] = "."}
    OBVIOUS
  <1>9. n + 1 \in I /\ I \subseteq Nat
    BY <1>4, <1>5, <1>8
  <1>10. ASSUME NEW i \in I
         PROVE  n + 1 <= i
    <2>1. i \in Nat /\ i > 0 /\ v[i] = "."
      BY <1>8
    <2>2. CASE i <= n
      <3>1. i \in 1 .. n /\ a[i] \in Digits
        BY <1>2, <2>1, <2>2
      <3> QED BY <1>1, <1>5, <2>1, <3>1
    <2> QED BY <1>4, <2>1, <2>2
  <1>11. Min(I) \in I /\ Min(I) <= n + 1
    BY <1>9, MinFacts
  <1>12. Min(I) = n + 1
    <2>1. PICK l : l = Min(I)
      OBVIOUS
    <2>2. l \in I /\ l \in Nat /\ l <= n + 1 /\ n + 1 <= l
      BY <1>9, <1>10, <1>11, <2>1
    <2> QED BY <1>4, <2>1, <2>2
  <1>13. SplitAtDot(v, a, b)
    BY <1>2, <1>6, <1>7, <1>8, <1>9, <1>12 DEF SplitAtDot
  <1> QED BY <1>13 DEF v

\* A complete request is what its bytes say.
LEMMA CompleteBytes ==
    ASSUME NEW r, Typed(r), NEW c, Complete(r, c)
    PROVE  LET head == r.method \o <<"sp">> \o r.uri \o <<"sp", "H", "T", "T", "P", "/">>
               tail == CrLf \o RenderHeaders(r.headers) \o CrLf \o r.content
               version == SubSeq(c, Len(head) + 1, Len(c) - Len(tail))
               dot == SelectInSeq(version, LAMBDA ch : ch = ".")
           IN /\ c = head \o version \o tail
              /\ dot > 0
              /\ IsNumeral(SubSeq(version, 1, dot - 1), r.major)
              /\ IsNumeral(SubSeq(version, dot + 1, Len(version)), r.minor)
  <1>1. PICK d \in Seq(Bytes) : Versioned(r, d) /\ c = d \o Rest(r)
    BY DEF Complete
  <1>2. PICK v \in Seq(Bytes) : Numbered(r, v) /\ d = Start(r) \o v
    BY <1>1 DEF Versioned
  <1>3. PICK a \in Seq(Digits), b \in Seq(Digits) :
           /\ a # <<>> /\ b # <<>> /\ v = a \o <<".">> \o b
           /\ NumberOf(a) = r.major /\ NumberOf(b) = r.minor
    BY <1>2 DEF Numbered
  <1>4. PICK h : h = r.method \o <<"sp">> \o r.uri \o <<"sp", "H", "T", "T", "P", "/">>
    OBVIOUS
  <1>5. PICK e : e = CrLf \o RenderHeaders(r.headers) \o CrLf \o r.content
    OBVIOUS
  <1>6. h = Start(r) /\ e = Rest(r)
    BY <1>4, <1>5 DEF Start, RequestLine, Rest
  <1>7. h \in Seq(Bytes) /\ e \in Seq(Bytes)
    <2>1. h \in Seq(Bytes)
      BY <1>6, LineTexts
    <2>2. PICK x : x = CrLf \o RenderHeaders(r.headers)
      OBVIOUS
    <2>3. x \in Seq(Bytes) /\ CrLf \in Seq(Bytes) /\ r.content \in Seq(Bytes)
      BY <2>2, HeaderTexts DEF Typed
    <2>4. x \o CrLf \in Seq(Bytes)
      BY <2>3, Texts
    <2>5. (x \o CrLf) \o r.content \in Seq(Bytes)
      BY <2>3, <2>4, Texts
    <2> QED BY <1>5, <2>1, <2>2, <2>5
  <1>8. c = (h \o v) \o e
    BY <1>1, <1>2, <1>6
  <1>9. SubSeq(c, Len(h) + 1, Len(c) - Len(e)) = v
    <2>1. SubSeq((h \o v) \o e, Len(h) + 1, Len((h \o v) \o e) - Len(e)) = v
      BY <1>7, Middle, Zenon
    <2> QED BY <1>8, <2>1
  <1>10. /\ SelectInSeq(v, LAMBDA ch : ch = ".") = Len(a) + 1
         /\ SubSeq(v, 1, Len(a)) = a /\ SubSeq(v, Len(a) + 2, Len(v)) = b
    <2>1. v = (a \o <<".">>) \o b
      BY <1>3
    <2>2. /\ {i \in 1 .. Len(v) : v[i] = "."} # {} /\ Min({i \in 1 .. Len(v) : v[i] = "."}) = Len(a) + 1
          /\ SubSeq(v, 1, Len(a)) = a /\ SubSeq(v, Len(a) + 2, Len(v)) = b
      <3>1. a \in Seq(Digits) /\ b \in Seq(Digits)
        BY <1>3
      <3>2. SplitAtDot((a \o <<".">>) \o b, a, b)
        BY <3>1, DotFound, Zenon
      <3>3. SplitAtDot(v, a, b)
        BY <2>1, <3>2, Zenon
      <3> QED BY <3>3 DEF SplitAtDot
    <2> QED BY <2>2 DEF SelectInSeq
  <1>11. PICK dot : dot = SelectInSeq(v, LAMBDA ch : ch = ".")
    OBVIOUS
  <1>12. dot > 0 /\ dot - 1 = Len(a) /\ dot + 1 = Len(a) + 2
    <2>1. Len(a) \in Nat
      OBVIOUS
    <2> QED BY <1>10, <1>11, <2>1
  <1>13. IsNumeral(SubSeq(v, 1, dot - 1), r.major) /\ IsNumeral(SubSeq(v, dot + 1, Len(v)), r.minor)
    BY <1>3, <1>10, <1>12, NumeralOf
  <1> QED BY <1>4, <1>5, <1>8, <1>9, <1>11, <1>12, <1>13

\* The invariant holds in every state of the parser.
THEOREM Reading == Spec => []ReadSound
  <1>1. Init => ReadSound
    <2> SUFFICES ASSUME Init PROVE ReadSound
      OBVIOUS
    <2>1. input \in Seq(Bytes) /\ begin = 0 /\ inside = FALSE /\ req = EmptyRequest /\ state_ = "method_start"
          /\ result = "indeterminate"
      BY InputBytes DEF Init
    <2>2. SubSeq(input, 1, begin) = <<>>
      BY <2>1
    <2>3. Formed(Parser) /\ Parser.state = "method_start" /\ Parser.req = EmptyRequest /\ Parser.result = "indeterminate"
      BY <2>1 DEF Parser, Formed, EmptyRequest, RequestFields
    <2>4. Typed(EmptyRequest) /\ ReadMethod("method_start", EmptyRequest, <<>>)
      BY DEF Typed, ReadMethod, EmptyRequest, Unversioned
    <2>5. Told(Parser, <<>>)
      BY <2>3, <2>4 DEF Told, Partly
    <2>6. begin \in 0 .. Len(input) /\ ~inside
      BY <2>1
    <2> QED BY <2>1, <2>2, <2>5, <2>6 DEF ReadSound
  <1>2. ReadSound /\ [Next]_vars => ReadSound'
    <2> SUFFICES ASSUME ReadSound, [Next]_vars PROVE ReadSound'
      OBVIOUS
    <2>1. ASSUME UNCHANGED <<input, begin, state_, req, result>>, inside' => inside \/ (result = "indeterminate" /\ begin < Len(input))
          PROVE  ReadSound'
      BY <2>1 DEF ReadSound, Folded, Parser
    <2>2. CASE Call
      BY <2>1, <2>2 DEF Call
    <2>3. CASE Iterate
      <3>1. PICK s : s = Parser
        OBVIOUS
      <3>2. PICK ch : ch = input[begin + 1]
        OBVIOUS
      <3>3. PICK t : t = Iteration(s, ch)
        OBVIOUS
      <3>4. /\ begin' = begin + 1 /\ input' = input /\ state_' = t.state /\ req' = t.req /\ result' = t.result
            /\ inside' => t.result = "indeterminate" /\ begin + 1 < Len(input)
        BY <2>3, <3>1, <3>2, <3>3 DEF Iterate, Parser
      <3>5. /\ input \in Seq(Bytes) /\ begin \in 0 .. Len(input) /\ begin < Len(input)
            /\ result = "indeterminate" /\ s.result = result
        BY <2>3, <3>1 DEF Iterate, ReadSound, Parser
      <3>6. PICK c : c = SubSeq(input, 1, begin)
        OBVIOUS
      <3>7. /\ c \in Seq(Bytes) /\ ch \in Bytes /\ Len(c) = begin /\ Append(c, ch) = SubSeq(input, 1, begin + 1)
            /\ (begin > 0 => c[begin] = input[begin])
        BY <3>2, <3>5, <3>6
      <3>8. ASSUME ~Folded', result' # "false"
            PROVE  Told(Parser', SubSeq(input, 1, begin + 1))
        <4>1. ~Folded
          <5>1. \A i \in 1 .. begin - 1 : i \in 1 .. begin' - 1
            BY <3>4, <3>5
          <5> QED BY <3>4, <3>8, <5>1 DEF Folded
        <4>2. Told(s, c)
          BY <3>1, <3>5, <3>6, <4>1 DEF ReadSound
        <4>3. Told(t, Append(c, ch)) \/ (Len(c) > 0 /\ c[Len(c)] = "lf" /\ ch \in Blank)
          BY <3>3, <3>4, <3>5, <3>7, <3>8, <4>2, ToldIteration
        <4>4. ASSUME Len(c) > 0, c[Len(c)] = "lf", ch \in Blank
              PROVE  FALSE
          <5>1. begin \in 1 .. begin' - 1 /\ input'[begin] = "lf" /\ input'[begin + 1] \in Blank
            BY <3>2, <3>4, <3>5, <3>7, <4>4
          <5> QED BY <3>8, <5>1 DEF Folded
        <4>5. Told(t, Append(c, ch))
          BY <4>3, <4>4
        <4>6. PICK p : p = Parser'
          OBVIOUS
        <4>7. DOMAIN p = {"state", "req", "result"} /\ p.state = t.state /\ p.req = t.req /\ p.result = t.result
          BY <3>4, <4>6 DEF Parser
        <4>8. Formed(p)
          BY <4>5, <4>7 DEF Told, Formed
        <4>9. Told(p, Append(c, ch))
          BY <4>5, <4>7, <4>8, ToldParts
        <4> QED BY <3>7, <4>6, <4>9
      <3>9. begin' \in 0 .. Len(input')
        BY <3>4, <3>5
      <3> QED BY <3>4, <3>5, <3>8, <3>9 DEF ReadSound
    <2>4. CASE Decode
      BY <2>1, <2>4 DEF Decode
    <2>5. CASE Handle
      BY <2>1, <2>5 DEF Handle
    <2>6. CASE UNCHANGED vars
      BY <2>1, <2>6 DEF vars
    <2>7. CASE Done
      BY <2>6, <2>7 DEF Done
    <2> QED BY <2>2, <2>3, <2>4, <2>5, <2>6, <2>7 DEF Next
  <1> QED BY <1>1, <1>2, PTL DEF Spec

\* Whatever arrives, in whatever pieces, an accepted request is what the consumed
\* bytes say: parse() splits, merges or loses none of them.
THEOREM BytesKept == Spec => []NothingLost
  <1>1. ReadSound => NothingLost
    <2> SUFFICES ASSUME ReadSound, result = "true", ~Folded
                 PROVE  NothingLost
      BY DEF NothingLost
    <2>1. Told(Parser, SubSeq(input, 1, begin)) /\ Parser.result = "true" /\ Parser.req = req
      BY DEF ReadSound, Parser
    <2>2. Typed(req) /\ Complete(req, SubSeq(input, 1, begin))
      BY <2>1 DEF Told
    <2> QED BY <2>2, CompleteBytes DEF NothingLost
  <1> QED BY <1>1, Reading, PTL
===============================================================================
