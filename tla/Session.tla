------------------------------ MODULE Session -------------------------------
(***************************************************************************)
(* Sessions.  The server keeps none of them: a session is a cookie, signed *)
(* with the encrypt_key, that a request brings and a response may replace. *)
(* So every request works on the session as it was when the request was    *)
(* sent, and the browser keeps the one that arrives last.                  *)
(*                                                                         *)
(* One browser with several requests in flight.  The serialised, encoded   *)
(* and signed cookie is the session itself; "garbage" is one whose digest  *)
(* does not match, "short" one with less than the 32 bytes of a digest.    *)
(* The digest is taken to be unforgeable.  sess_id, which no code reads,   *)
(* is left out.                                                            *)
(***************************************************************************)
EXTENDS Integers, FiniteSets, FiniteSetsExt

CONSTANTS
    Requests,     \* requests that can be in flight at a time
    ExpirySec,    \* cfg "expiry_sec"
    UpdateSec,    \* cfg "update_sec"
    Origins,      \* the addresses and user agents of the browser
    Validate,     \* cfg "validate_ip" or "validate_ua"
    MaxTime       \* bound: seconds that pass

ASSUME SecondsAssumption == {ExpirySec, UpdateSec, MaxTime} \subseteq Nat
ASSUME OriginsAssumption == IsFiniteSet(Origins) /\ Origins # {} /\ Validate \in BOOLEAN

VARIABLES
    now,        \* the clock, in seconds
    origin,     \* where the browser is
    jar,        \* the cookie the browser has
    flight,     \* flight[r]: a request and its response
    handled,    \* when the server last handled a request
    \* what the user may rely on:
    login,      \* "in", "out", or "unknown" while an answer is missing
    answered,   \* when the last request answered was handled
    overlap,    \* two requests were in flight at a time
    moved       \* the browser has changed its origin

browser == <<origin, jar, login, answered, overlap, moved>>
vars == <<now, browser, flight, handled>>

None == [kind |-> "none", last_tm |-> 0, origin |-> CHOOSE o \in Origins : TRUE, user |-> ""]
NoCookie == None
Garbage == [None EXCEPT !.kind = "garbage"]
Short == [None EXCEPT !.kind = "short"]

\* A request that has not been sent.
NoRequest ==
    [phase |-> "none", route |-> "none", cookie |-> NoCookie, origin |-> None.origin,
     sets |-> FALSE, session |-> NoCookie, served |-> "none",
     at |-> 0, dead |-> FALSE, due |-> "nothing"]

Init ==
    /\ now = 0
    /\ origin \in Origins
    /\ jar \in {NoCookie, Garbage, Short}
    /\ flight = [r \in Requests |-> NoRequest]
    /\ handled = 0
    /\ login = "out" /\ answered = 0 /\ overlap = FALSE /\ moved = FALSE

Tick ==
    /\ now < MaxTime
    /\ now' = now + 1
    /\ UNCHANGED <<browser, flight, handled>>

-----------------------------------------------------------------------------
(* The browser                                                             *)

\* At most once.
Move ==
    /\ ~moved /\ origin' \in Origins \ {origin}
    /\ moved' = TRUE
    /\ UNCHANGED <<now, jar, login, answered, overlap, flight, handled>>

Send(r, route) ==
    /\ flight[r].phase = "none"
    /\ flight' = [flight EXCEPT ![r] = [NoRequest EXCEPT !.phase = "sent", !.route = route,
                     !.cookie = jar, !.origin = origin]]
    /\ overlap' = (overlap \/ \E q \in Requests : flight[q].phase # "none")
    /\ login' = IF route = "visit" THEN login ELSE "unknown"
    /\ UNCHANGED <<now, origin, jar, answered, moved, handled>>

\* The response arrives, with the cookie it sets.
Receive(r) ==
    /\ flight[r].phase = "answered"
    /\ jar' = IF flight[r].sets THEN flight[r].session ELSE jar
    /\ answered' = IF flight[r].served = "failed" THEN answered
                   ELSE Max({answered, flight[r].at})
    /\ login' = CASE flight[r].route = "auth" /\ flight[r].served = "user" -> "in"
                  [] flight[r].route # "auth" /\ flight[r].served = "guest" -> "out"
                  [] OTHER -> login
    /\ flight' = [flight EXCEPT ![r] = NoRequest]
    /\ UNCHANGED <<now, origin, overlap, moved, handled>>

\* The connection fails before or after the request is handled.
Lose(r) ==
    /\ flight[r].phase # "none"
    /\ flight' = [flight EXCEPT ![r] = NoRequest]
    /\ UNCHANGED <<now, browser, handled>>

-----------------------------------------------------------------------------
(* session                                                                 *)

\* Seeded fault: the age of the session is not looked at.
LoadsAnyAge(f) ==
    f.cookie.kind = "session" /\ (Validate => f.cookie.origin = f.origin)

\* load() returns true.
Loads(f) ==
    /\ f.cookie.kind = "session"
    /\ now - f.cookie.last_tm <= ExpirySec
    /\ Validate => f.cookie.origin = f.origin

\* load() throws: substr with a position past the end.
LoadThrows(f) == f.cookie.kind = "short"

\* create()
Created(f) == [kind |-> "session", last_tm |-> now, origin |-> f.origin, user |-> ""]

\* Seeded fault: update() replaces the id only.
UpdatedIdOnly(s) == s

\* update()
Updated(s) == IF now - s.last_tm < UpdateSec THEN s ELSE [s EXCEPT !.last_tm = now]

\* The constructor: the session it leaves, and whether the response sets the
\* cookie.  delete_cookie in load() is overwritten by what create() sets.
Constructed(f) ==
    IF Loads(f)
    THEN [session |-> Updated(f.cookie), sets |-> now - f.cookie.last_tm >= UpdateSec]
    ELSE [session |-> Created(f), sets |-> TRUE]

\* put("userid"), put("username") into the session c.
Put(c, user) == [session |-> [c.session EXCEPT !.user = user], sets |-> TRUE]

\* The longest pause an active user can make: a session is refreshed only when
\* update_sec old, so up to update_sec - 1 seconds of its age may have passed
\* at the last page.
Grace == ExpirySec - (IF UpdateSec = 0 THEN 0 ELSE UpdateSec - 1)

\* What a user who sends one request at a time may expect now.
Due ==
    CASE ~overlap /\ login = "in" /\ now - answered <= Grace /\ (Validate => ~moved) -> "user"
      [] ~overlap /\ login = "out" -> "guest"
      [] OTHER -> "nothing"

\* Beside the response, it is recorded what was due, and whether the server had
\* not seen the browser for longer than expiry_sec.
Answer(r, c, served) ==
    /\ flight[r].phase = "sent"
    /\ flight' = [flight EXCEPT ![r] =
           [phase |-> "answered", route |-> flight[r].route, cookie |-> NoCookie,
            origin |-> None.origin, sets |-> c.sets,
            session |-> IF c.sets THEN c.session ELSE NoCookie, served |-> served,
            at |-> now, dead |-> now - handled > ExpirySec, due |-> Due]]
    /\ handled' = now
    /\ UNCHANGED <<now, browser>>

NoSession == [session |-> NoCookie, sets |-> FALSE]

\* A page of the forum: for a user, or an error page.
Visit(r) ==
    LET c == Constructed(flight[r]) IN
    /\ flight[r].route = "visit" /\ ~LoadThrows(flight[r])
    /\ Answer(r, c, IF c.session.user = "" THEN "guest" ELSE "user")

\* auth with the right password.
Auth(r) ==
    LET c == Constructed(flight[r]) IN
    /\ flight[r].route = "auth" /\ ~LoadThrows(flight[r])
    /\ Answer(r, Put(c, "u"), "user")

\* auth otherwise: an error page, before a session is constructed.
AuthRefused(r) ==
    flight[r].route = "auth" /\ Answer(r, NoSession, "guest")

\* Seeded fault: the page is left, and the cookie is not deleted.
SignOutRedirects(r) ==
    flight[r].route = "signout" /\ Answer(r, NoSession, "guest")

\* signout: delete_cookie, no session is constructed.
SignOut(r) ==
    /\ flight[r].route = "signout"
    /\ Answer(r, [session |-> NoCookie, sets |-> TRUE], "guest")

\* The route throws, for instance in load() or in the database: the response
\* is replaced by a static one, its cookies with it.
Fails(r) ==
    /\ flight[r].route # "signout"
    /\ Answer(r, NoSession, "failed")

-----------------------------------------------------------------------------
Handle(r) == Visit(r) \/ Auth(r) \/ AuthRefused(r) \/ SignOut(r) \/ Fails(r)

Next ==
    \/ Tick \/ Move
    \/ \E r \in Requests :
          \/ \E route \in {"visit", "auth", "signout"} : Send(r, route)
          \/ Handle(r) \/ Receive(r) \/ Lose(r)

Spec == Init /\ [][Next]_vars

-----------------------------------------------------------------------------
(* Properties                                                              *)

Cookies ==
    [kind : {"none", "garbage", "short", "session"}, last_tm : 0 .. MaxTime,
     origin : Origins, user : {"", "u"}]

Flights ==
    [phase : {"none", "sent", "answered"}, route : {"none", "visit", "auth", "signout"},
     cookie : Cookies, origin : Origins, sets : BOOLEAN, session : Cookies,
     served : {"none", "user", "guest", "failed"}, at : 0 .. MaxTime,
     dead : BOOLEAN, due : {"user", "guest", "nothing"}]

\* The types of the variables.
TypeOK ==
    /\ now \in 0 .. MaxTime /\ handled \in 0 .. now /\ answered \in 0 .. now
    /\ origin \in Origins /\ jar \in Cookies
    /\ flight \in [Requests -> Flights]
    /\ login \in {"in", "out", "unknown"} /\ overlap \in BOOLEAN /\ moved \in BOOLEAN

\* A page the server has made.
Page(r) == flight[r].phase = "answered" /\ flight[r].route = "visit"

\* A session dies when the server has not seen its browser for longer than
\* expiry_sec, whichever cookie the browser kept and in whatever order the
\* responses reached it.
IdleExpires ==
    \A r \in Requests : Page(r) /\ flight[r].served = "user" => ~flight[r].dead

\* A user who has signed in, sends one request at a time from one place and
\* pauses for at most Grace between pages stays signed in, through lost
\* responses and failed pages.
StaysSignedIn ==
    \A r \in Requests :
        Page(r) /\ flight[r].due = "user" => flight[r].served \in {"user", "failed"}

\* A user who sends one request at a time and has seen the page that signs
\* out gets no page as that user before signing in again.
SignOutHolds ==
    \A r \in Requests :
        Page(r) /\ flight[r].due = "guest" => flight[r].served # "user"
=============================================================================
