--------------------------- MODULE RequestHandler ---------------------------
(***************************************************************************)
(* request_handler::handle_request: from a decoded request to the response *)
(* that is written, with the router, the routes as far as what they leave  *)
(* in the response, the files under doc_root and the mime types.           *)
(*                                                                         *)
(* A content is the sequence of the pieces it is put together from, "gzip" *)
(* before them if it is compressed, and a Content-Length is the content    *)
(* whose size it is.  What a request meets that is not in it is its        *)
(* environment env: the access lists, the session its cookie holds, the    *)
(* database, the configuration.                                            *)
(***************************************************************************)
EXTENDS RequestData

CONSTANT Files      \* the files under doc_root: by its path, the piece a file is read as

\* What the database has of the forum, which the json routes send.
ForumData == {"forum_index", "forum_show", "forum_form"}

\* The templates of the forum's pages, which are files under doc_root as well.
ForumTemplates == {"dir_forum_index.html", "dir_forum_show.html", "dir_forum_form.html"}

\* Nobody has saved a compressed content or the database's rows under doc_root.
ASSUME FilesAssumption == \A path \in DOMAIN Files : Files[path] \notin {"gzip"} \cup ForumData

Environments ==
    [refused : BOOLEAN,     \* the access lists, if any, refuse the address
     signed_in : BOOLEAN,   \* the session has a userid
     set_cookie : BOOLEAN,  \* the session is created or refreshed
     throws : BOOLEAN,      \* the session, or a statement, throws
     error : BOOLEAN,       \* a user route ends with an error page
     compress : BOOLEAN]    \* config::compress

-----------------------------------------------------------------------------
(* response                                                                *)

NewResponse ==
    [status |-> "none", headers |-> <<>>, cookies |-> <<>>, content |-> <<>>, ext |-> <<>>]

AddHeader(res, name, value) == [res EXCEPT !.headers = Append(@, Pair(name, value))]

\* The texts of a status, and its headers; the cookies of a route are gone.
StaticResponse(status) ==
    [NewResponse EXCEPT !.status = status, !.content = <<status>>,
        !.headers = <<Pair("Content-Length", <<status>>), Pair("Content-Type", "text/html"),
                      Pair("Keep-Alive", "timeout=0, max=0")>>]

RedirectTo(res, url) ==
    [AddHeader(res, "Refresh", url) EXCEPT !.content = <<"blank">>, !.ext = <<"html">>]

MimeTypes ==
    [css |-> "text/css", gif |-> "image/gif", htm |-> "text/html", html |-> "text/html",
     ico |-> "image/x-icon", jpg |-> "image/jpeg", js |-> "application/javascript",
     json |-> "application/json", png |-> "image/png", txt |-> "text/plain",
     xhtml |-> "text/html", xml |-> "application/xml"]

ExtensionToType(ext) ==
    IF Len(ext) = 1 /\ ext[1] \in DOMAIN MimeTypes THEN MimeTypes[ext[1]]
    ELSE "application/octet-stream"

IsCompressible(ext) ==
    ext \in {<<e>> : e \in {"css", "htm", "html", "js", "json", "txt", "xhtml", "xml"}}

\* What follows the last dot, if no slash does.
GetExtension(path) ==
    LET slash == SelectLastInSeq(path, LAMBDA ch : ch = "/")
        dot == SelectLastInSeq(path, LAMBDA ch : ch = ".")
    IN IF dot > slash THEN From(path, dot + 1) ELSE <<>>

-----------------------------------------------------------------------------
(* router                                                                  *)

\* A byte stands for the two words of a route after /dir or /_/dir.
RouteTable ==
    <<[uri |-> "forum/index", func |-> "index_html"], [uri |-> "_forum/index", func |-> "index_jsonp"],
      [uri |-> "forum/show", func |-> "show_html"], [uri |-> "_forum/show", func |-> "show_jsonp"],
      [uri |-> "forum/form", func |-> "form_html"], [uri |-> "_forum/form", func |-> "form_jsonp"],
      [uri |-> "forum/del", func |-> "del"], [uri |-> "forum/post", func |-> "post"],
      [uri |-> "user/signin", func |-> "signin_html"], [uri |-> "user/auth", func |-> "user"],
      [uri |-> "user/signup", func |-> "signup_html"], [uri |-> "user/post", func |-> "user"],
      [uri |-> "user/signout", func |-> "user"], [uri |-> "performance/test", func |-> "test"]>>

\* The first route whose uri the request's begins with, a "/" at its end added.
GetFunc(uri) ==
    LET closed == IF Last(uri) = "/" THEN uri ELSE Append(uri, "/")
        i == SelectInSeq(RouteTable, LAMBDA r : IsPrefix(<<"/", r.uri, "/">>, closed))
    IN IF i = 0 THEN "none" ELSE RouteTable[i].func

FullPath(path) ==
    IF Last(path) = "/" THEN path \o <<"/", "index", ".", "html">> ELSE path

\* ifstream gets a C string, which ends at a zero byte; the extension is taken
\* from all of it.
CString(path) ==
    LET nul == FirstOf(path, {"nul"}) IN IF nul = 0 THEN path ELSE Before(path, nul)

\* Seeded fault: the path is decoded once more where the file is opened.
OpenedDecoded(path) == CString(PercentDecode(FullPath(path)))

\* The file that get_file opens.
Opened(path) == CString(FullPath(path))

GetFile(res, path) ==
    IF Opened(path) \notin DOMAIN Files THEN StaticResponse("not_found")
    ELSE [res EXCEPT !.content = Append(@, Files[Opened(path)]), !.ext = GetExtension(FullPath(path))]

\* A page is put together by get_file from the templates, which doc/ has.
Page(res, pieces) == [res EXCEPT !.content = @ \o pieces, !.ext = <<"html">>]

ErrMsg(res, text) ==
    Page([res EXCEPT !.content = <<>>], <<"dir_include_header.html", text, "dir_include_footer.html">>)

-----------------------------------------------------------------------------
(* The routes                                                              *)

\* The catch clause of handle_request, which drops what the route has done.
Thrown == StaticResponse("internal_server_error")

\* The tables of the schemas, and which database a scoped_db reaches: a name of
\* type dbname_type that database, any string a shard.
Tables == [shard |-> {"unique_keys", "users"}, db_etc |-> {"unique_keys", "forum"}]

\* prepare() throws if a table does not exist, or the database fails.
Prepared(database, tables, env) == tables \subseteq Tables[database] /\ ~env.throws

\* waspp::session sess(cfg, req, res)
Session(res, env) ==
    IF env.set_cookie THEN [res EXCEPT !.cookies = <<"session">>] ELSE res

\* A page of the forum, for users.
Html(res, page, env) ==
    IF env.throws THEN Thrown
    ELSE IF ~env.signed_in THEN RedirectTo(Session(res, env), "/dir/user/signin")
    ELSE Page(Session(res, env), <<"dir_include_header.html", page, "jsonp", "dir_include_footer.html">>)

IndexHtml(res, env) == Html(res, "dir_forum_index.html", env)
ShowHtml(res, env) == Html(res, "dir_forum_show.html", env)
FormHtml(res, env) == Html(res, "dir_forum_form.html", env)

\* Seeded fault: a json route relies on the page that links to it.
JsonpUnchecked(res, page, env) ==
    [Session(res, env) EXCEPT !.ext = <<"js">>, !.content = <<"jsonp_start", page, "jsonp_end">>]

\* What a page of the forum loads, for users.
Jsonp(res, page, env) ==
    IF env.throws THEN Thrown
    ELSE [Session(res, env) EXCEPT !.ext = <<"js">>,
             !.content = <<"jsonp_start", IF env.signed_in THEN page ELSE "err_unauthorized", "jsonp_end">>]

ShowJsonp(res, env) == Jsonp(res, "forum_show", env)
FormJsonp(res, env) == Jsonp(res, "forum_form", env)

IndexJsonp(res, env) ==
    IF env.signed_in /\ ~Prepared("db_etc", {"forum"}, env) THEN Thrown
    ELSE Jsonp(res, "forum_index", env)

\* scoped_db db_etc("db_etc") is a shard: there is no table forum to prepare for.
ForumPost(req, res, env) ==
    LET sess == Session(res, env) IN
    IF env.throws THEN Thrown
    ELSE IF ~env.signed_in THEN RedirectTo(sess, "/dir/user/signin")
    ELSE IF Lookup(req.params, <<"title">>) = <<>> THEN ErrMsg(sess, "err_title_required")
    ELSE IF Lookup(req.params, <<"content">>) = <<>> THEN ErrMsg(sess, "err_content_required")
    ELSE IF ~Prepared("shard", {"forum"}, env) THEN Thrown
    ELSE RedirectTo(sess, "/dir/forum/index")

Test(res, env) ==
    IF ~Prepared("shard", {"forum"}, env) THEN Thrown
    ELSE [Session(res, env) EXCEPT !.ext = <<"js">>,
             !.content = <<"jsonp_start", "forum_index", "jsonp_end">>]

\* auth, post and signout of dir_user, which Accounts and Session take apart.
User(res, env) ==
    IF env.throws THEN Thrown
    ELSE IF env.error THEN ErrMsg(Session(res, env), "err_user")
    ELSE RedirectTo(Session(res, env), "/dir/forum/index")

SigninHtml(res) == Page(res, <<"dir_include_header.html", "dir_user_signin.html", "dir_include_footer.html">>)
SignupHtml(res) == Page(res, <<"dir_include_header.html", "dir_user_signup.html", "dir_include_footer.html">>)

CallRoute(func, req, res, env) ==
    CASE func = "index_html" -> IndexHtml(res, env)
      [] func = "show_html" -> ShowHtml(res, env)
      [] func = "form_html" -> FormHtml(res, env)
      [] func = "index_jsonp" -> IndexJsonp(res, env)
      [] func = "show_jsonp" -> ShowJsonp(res, env)
      [] func = "form_jsonp" -> FormJsonp(res, env)
      [] func = "del" -> res
      [] func = "post" -> ForumPost(req, res, env)
      [] func = "signin_html" -> SigninHtml(res)
      [] func = "signup_html" -> SignupHtml(res)
      [] func = "user" -> User(res, env)
      [] func = "test" -> Test(res, env)

-----------------------------------------------------------------------------
(* handle_request                                                          *)

\* The two bytes after a "%", read by an istringstream: as many hexadecimal digits
\* as there are, after a sign; a set of one byte, or none.
HexStream(x, y) ==
    CASE x \in HexDigits /\ y \in HexDigits -> {Hex2char(x, y)}
      [] x \in HexDigits /\ y \notin HexDigits -> {"nul"}
      [] x = "+" /\ y \in HexDigits -> {"nul"}
      [] x = "-" /\ y \in HexDigits -> {IF y = "0" THEN "nul" ELSE "hi"}
      [] OTHER -> {}

\* percent_decode_and_validate from each position: the decoded rest of the uri, in a
\* set that is empty if it returns false.
DecodedFrom(w) ==
    LET decode[i \in 1 .. Len(w) + 1] ==
          IF i > Len(w) THEN {<<>>}
          ELSE IF w[i] = "%"
          THEN IF i + 2 > Len(w) THEN {}
               ELSE {<<ch>> \o rest : ch \in HexStream(w[i + 1], w[i + 2]), rest \in decode[i + 3]}
          ELSE {<<IF w[i] = "+" THEN "sp" ELSE w[i]>> \o rest : rest \in decode[i + 1]}
    IN decode

DecodeAndValidate(w) == DecodedFrom(w)[1]

\* "Request path must be absolute and not contain .."
IsAbsolute(uri) == uri # <<>> /\ uri[1] = "/" /\ Find(uri, <<".", ".">>, 1) = 0

\* Seeded fault: the content is compressed after it has been measured.
FillOutMeasuredFirst(res, req, env) ==
    LET zip == env.compress /\ Lookup(req.headers, <<"Z">>) = <<"zip">> /\ IsCompressible(res.ext)
        filled == AddHeader(AddHeader(res, "Content-Type", ExtensionToType(res.ext)),
                            "Content-Length", res.content)
    IN IF zip THEN [AddHeader(filled, "Content-Encoding", "gzip") EXCEPT !.status = "ok", !.content = <<"gzip">> \o @]
       ELSE [filled EXCEPT !.status = "ok"]

\* The headers of a route's response, its cookies among them.
FillOut(res, req, env) ==
    LET typed   == AddHeader(AddHeader(res, "Content-Type", ExtensionToType(res.ext)),
                             "Keep-Alive", "timeout=0, max=0")
        cookies == [i \in DOMAIN res.cookies |-> Pair("Set-Cookie", res.cookies[i])]
        cookied == [typed EXCEPT !.headers = @ \o cookies]
        zip     == env.compress /\ Lookup(req.headers, <<"Z">>) = <<"zip">> /\ IsCompressible(res.ext)
        zipped  == IF zip THEN [AddHeader(cookied, "Content-Encoding", "gzip") EXCEPT !.content = <<"gzip">> \o @]
                   ELSE cookied
    IN [AddHeader(zipped, "Content-Length", zipped.content) EXCEPT !.status = "ok"]

\* The response, and the file that was opened for it.
HandleRequest(req, env) ==
    LET decoded == DecodeAndValidate(req.uri)
        uri     == CHOOSE w \in decoded : TRUE
        func    == GetFunc(uri)
        made    == IF func = "none" THEN GetFile(NewResponse, uri)
                   ELSE CallRoute(func, req, NewResponse, env)
        static(status) == [res |-> StaticResponse(status), opened |-> <<>>]
    IN IF env.refused THEN static("unauthorized")
       ELSE IF decoded = {} THEN static("bad_request")
       ELSE IF ~IsAbsolute(uri) THEN static("bad_request")
       ELSE [res |-> IF made.status # "none" THEN made ELSE FillOut(made, req, env),
             opened |-> IF func = "none" THEN Opened(uri) ELSE <<>>]
=============================================================================
