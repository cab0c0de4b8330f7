-------------------------- MODULE MCRequestParser ---------------------------
(***************************************************************************)
(* Small sets of messages for RequestParser.                               *)
(***************************************************************************)
EXTENDS RequestParser

NoForm == [type |-> "plain", text |-> <<>>, params |-> <<>>, uploads |-> <<>>]

Plain(w) == [NoForm EXCEPT !.text = w]
UrlEncoded(ps) == [NoForm EXCEPT !.type = "urlencoded", !.params = ps]
Multipart(ps, us) == [NoForm EXCEPT !.type = "multipart", !.params = ps, !.uploads = us]

Get == [method |-> <<"G">>, path |-> <<>>, query |-> <<>>, cookies |-> <<>>,
        fields |-> <<>>, form |-> NoForm, encode_dots |-> FALSE]

Post(form) == [Get EXCEPT !.method = <<"P">>, !.form = form]

\* A query of two parameters, one with an empty value.
Query == <<Pair(<<"a">>, <<"a">>), Pair(<<"T">>, <<>>)>>

\* A header with a blank in its value.
Fields == <<Pair(<<"a">>, <<"H", "sp">>)>>

\* With and without a query and a header, and contents of one and two bytes, of
\* which only the first may not be special.
ShortMessages ==
    UNION {{[m EXCEPT !.query = q, !.fields = f] : q \in {<<>>, Query}, f \in {<<>>, Fields}}
           : m \in {Get, Post(Plain(<<"a">>)), Post(Plain(<<"a", "{">>))}}

Upload == [name |-> <<"T">>, filename |-> <<"a">>, filetype |-> <<"a">>, value |-> <<"&">>]

\* Bytes of the syntax in names and values; two cookies; files.
LongMessages ==
    {[Get EXCEPT !.path = << <<"a">>, <<"T", "T">> >>,
                 !.cookies = <<Pair(<<"a">>, <<"%", "2", "6">>), Pair(<<"T">>, <<"=">>)>>],
     [Get EXCEPT !.query = <<Pair(<<"&">>, <<"%", "2", "6">>), Pair(<<"a">>, <<"sp", "&">>)>>],
     Post(UrlEncoded(<<Pair(<<"a">>, <<"&">>), Pair(<<"T">>, <<"a", "a", "a">>)>>)),
     Post(UrlEncoded(<<Pair(<<"&">>, <<"%">>), Pair(<<"T">>, <<>>)>>)),
     [Post(UrlEncoded(<<Pair(<<"T">>, <<"sp">>)>>)) EXCEPT !.query = Query],
     Post(Multipart(<<Pair(<<"a">>, <<"a", "&", "=">>)>>, <<>>)),
     Post(Multipart(<<Pair(<<"a">>, <<"%", "2", "6">>)>>, <<Upload>>))}

\* Routes, files, compressed or not, and paths that are more than they look.
AcceptsZip == <<Pair(<<"Z">>, <<"zip">>)>>
Paths ==
    {<< <<w>> >> : w \in RouteWords}
        \cup {<< <<"index", ".", "html">> >>, << <<"dir_forum_index", ".", "html">> >>,
              << <<"a", ".", "png">> >>, << <<"%", "2", "e", "%", "2", "e">>, <<"a">> >>,
              << <<"a">>, <<>> >>, << <<"forum/show">>, <<"a">> >>, << <<".", ".">>, <<"a">> >>}
PageMessages ==
    {[Get EXCEPT !.path = p, !.fields = f] : p \in Paths, f \in {<<>>, AcceptsZip}}
        \cup {[Get EXCEPT !.path = p, !.encode_dots = TRUE] : p \in Paths}
        \cup {[Post(UrlEncoded(f)) EXCEPT !.path = << <<"forum/post">> >>] :
                f \in {<<Pair(<<"title">>, <<"a">>), Pair(<<"content">>, <<"a", "a", "a", "a">>)>>,
                       <<Pair(<<"title">>, <<"a">>), Pair(<<"content">>, <<>>)>>}}

\* "//index.html" is the same file as "/index.html".
MCFiles ==
    LET page == {<<"/", "/", "index", ".", "html">>, <<"/", "index", ".", "html">>}
        template == <<"/", "dir_forum_index", ".", "html">>
    IN [path \in page \cup {template, <<"/", "a", ".", "png">>, <<"/", "a">>} |->
          CASE path \in page -> "index.html"
            [] path = template -> "dir_forum_index.html"
            [] OTHER -> "file"]

MCMessages == ShortMessages \cup LongMessages \cup PageMessages

\* A POST whose content is empty, as its Content-Length says.
EmptyMessages == {Post(Plain(<<>>))}

MCEdits == Bytes \ (Words \cup {"T", "1", "5", "C", "Y", "Z", "e", "q", ";", "+", "title", "content"})
=============================================================================
