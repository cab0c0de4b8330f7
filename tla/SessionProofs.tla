--------------------------- MODULE SessionProofs ----------------------------
(***************************************************************************)
(* Machine-checked proofs about Session, for any number of requests in     *)
(* flight, any periods and any number of origins.                          *)
(*                                                                         *)
(* The three properties look at a page at the time it is made.  They rest  *)
(* on what is true of every cookie, wherever it is (ServerSound), and on *)
(* what is true of the one cookie that counts while the browser sends one  *)
(* request at a time (Quiet).                                              *)
(***************************************************************************)
EXTENDS Session, TLAPS

-----------------------------------------------------------------------------
(* The inductive invariant                                                 *)

\* No session is younger than the last request the server has handled, and as
\* long as the browser stays in one place every session is of that place.
Fresh(c, h, m, o) ==
    c.kind = "session" => c.last_tm <= h /\ (~m => c.origin = o)

ServerSound ==
    /\ answered <= handled
    /\ Fresh(jar, handled, moved, origin)
    /\ \A r \in Requests :
          /\ Fresh(flight[r].cookie, handled, moved, origin)
          /\ Fresh(flight[r].session, handled, moved, origin)
          /\ flight[r].at <= handled
          /\ flight[r].phase = "sent" /\ ~moved => flight[r].origin = origin

\* How old a session can be that update() leaves as it is.
Slack == IF UpdateSec = 0 THEN 0 ELSE UpdateSec - 1

\* Session c signs its user in, and is fresh enough at time t.
SignedIn(c, t) == c.kind = "session" /\ c.user # "" /\ t - c.last_tm <= Slack

\* The cookie the browser will have after the response.
After(r) == IF flight[r].sets THEN flight[r].session ELSE jar

\* A response on its way to a browser that sends one request at a time.
AnsweredSound(r) ==
    flight[r].phase = "answered" =>
        /\ answered <= flight[r].at /\ flight[r].served # "none"
        /\ flight[r].served = "user" => SignedIn(After(r), flight[r].at)
        /\ flight[r].served = "guest" /\ flight[r].route # "auth" => After(r).user = ""
        /\ flight[r].served = "guest" /\ flight[r].route = "auth" => ~flight[r].sets
        /\ flight[r].served = "failed" => ~flight[r].sets
        /\ login = "out" => After(r).user = "" /\ flight[r].served # "user"

\* For such a browser, what the user has seen is what the cookie says.
OneInFlight ==
    \A r, q \in Requests : flight[r].phase # "none" /\ flight[q].phase # "none" => r = q

Quiet ==
    ~overlap =>
        /\ OneInFlight
        /\ \A r \in Requests :
              /\ flight[r].phase # "none" /\ flight[r].route # "visit" => login = "unknown"
              /\ flight[r].phase = "sent" => flight[r].cookie = jar
              /\ AnsweredSound(r)
        /\ login = "in" => SignedIn(jar, answered)
        /\ login = "out" => jar.user = ""

\* The pages that have been made are as they should be.
PagesSound == IdleExpires /\ StaysSignedIn /\ SignOutHolds

IInv == TypeOK /\ ServerSound /\ Quiet /\ PagesSound
-----------------------------------------------------------------------------
(* Operators                                                               *)

\* The bounds are numbers.
LEMMA Seconds == ExpirySec \in Nat /\ UpdateSec \in Nat /\ MaxTime \in Nat /\ Slack \in Nat
                 /\ Grace + Slack = ExpirySec
  <1>1. ExpirySec \in Nat /\ UpdateSec \in Nat /\ MaxTime \in Nat
    BY SecondsAssumption
  <1> QED BY <1>1 DEF Slack, Grace

\* The later of two times.
LEMMA MaxPair ==
    ASSUME NEW a \in Nat, NEW b \in Nat
    PROVE  Max({a, b}) = IF a >= b THEN a ELSE b
  <1>1. \E x \in {a, b} : \A y \in {a, b} : x >= y
    OBVIOUS
  <1>2. Max({a, b}) \in {a, b} /\ \A y \in {a, b} : Max({a, b}) >= y
    BY <1>1 DEF Max
  <1> QED BY <1>2

\* Cookies that are no session, and a request that has not been sent.
LEMMA Nothing ==
    /\ {NoCookie, Garbage, Short} \subseteq Cookies
    /\ \A c \in {NoCookie, Garbage, Short} : c.kind # "session" /\ c.user = ""
    /\ NoRequest \in Flights
    /\ NoRequest.phase = "none" /\ NoRequest.at = 0 /\ NoRequest.route = "none"
    /\ NoRequest.cookie = NoCookie /\ NoRequest.session = NoCookie
  <1>1. None.origin \in Origins
    BY OriginsAssumption DEF None
  <1>2. 0 \in 0 .. MaxTime
    BY Seconds
  <1>3. NoCookie \in Cookies /\ NoCookie.kind # "session" /\ NoCookie.user = ""
    BY <1>1, <1>2 DEF NoCookie, None, Cookies
  <1>4. Garbage \in Cookies /\ Garbage.kind # "session" /\ Garbage.user = ""
    BY <1>1, <1>2 DEF Garbage, None, Cookies
  <1>5. Short \in Cookies /\ Short.kind # "session" /\ Short.user = ""
    BY <1>1, <1>2 DEF Short, None, Cookies
  <1>6. NoRequest \in Flights
    BY <1>1, <1>2, <1>3 DEF NoRequest, Flights
  <1> QED BY <1>3, <1>4, <1>5, <1>6 DEF NoRequest

\* The constructor leaves a session that is at most Slack old, that of the
\* cookie if it loads; it sets no cookie only if that one stays as it is.
LEMMA ConstructedFacts ==
    ASSUME TypeOK, ServerSound, NEW r \in Requests
    PROVE  LET f == flight[r]
               c == Constructed(f)
           IN  /\ c.session \in Cookies /\ c.sets \in BOOLEAN
               /\ c.session.kind = "session" /\ c.session.last_tm <= now
               /\ now - c.session.last_tm <= Slack
               /\ c.session.user = IF Loads(f) THEN f.cookie.user ELSE ""
               /\ c.session.origin = IF Loads(f) THEN f.cookie.origin ELSE f.origin
               /\ ~c.sets => c.session = f.cookie
  <1> DEFINE f == flight[r]
  <1>1. f \in Flights /\ now \in 0 .. MaxTime /\ handled \in 0 .. now
    BY DEF TypeOK
  <1>2. f.cookie \in Cookies /\ f.origin \in Origins
    BY <1>1 DEF Flights
  <1>3. now \in Nat /\ handled \in Nat /\ handled <= now
    BY <1>1, Seconds
  <1>4. Fresh(f.cookie, handled, moved, origin)
    BY DEF ServerSound
  <1> HIDE DEF f
  <1>5. f.cookie.last_tm \in Nat
    <2>1. f.cookie.last_tm \in 0 .. MaxTime
      BY <1>2 DEF Cookies
    <2> QED BY <2>1, Seconds
  <1>6. CASE Loads(f)
    <2>1. Constructed(f).session = Updated(f.cookie)
          /\ Constructed(f).sets = (now - f.cookie.last_tm >= UpdateSec)
      BY <1>6 DEF Constructed
    <2>2. f.cookie.kind = "session" /\ f.cookie.last_tm <= now
      BY <1>3, <1>4, <1>5, <1>6 DEF Loads, Fresh
    <2>3. CASE now - f.cookie.last_tm < UpdateSec
      <3>1. Updated(f.cookie) = f.cookie
        BY <2>3 DEF Updated
      <3>2. now - f.cookie.last_tm <= Slack
        BY <1>3, <1>5, <2>2, <2>3, Seconds DEF Slack
      <3> QED BY <1>2, <1>6, <2>1, <2>2, <3>1, <3>2 DEF f
    <2>4. CASE ~(now - f.cookie.last_tm < UpdateSec)
      <3>1. Updated(f.cookie) = [f.cookie EXCEPT !.last_tm = now]
        BY <2>4 DEF Updated
      <3>2. /\ Updated(f.cookie) \in Cookies /\ Updated(f.cookie).kind = "session"
            /\ Updated(f.cookie).last_tm = now /\ Updated(f.cookie).user = f.cookie.user
            /\ Updated(f.cookie).origin = f.cookie.origin
        BY <1>1, <1>2, <2>2, <3>1 DEF Cookies
      <3>3. now - now <= Slack /\ now <= now
        BY <1>3, Seconds
      <3>4. now - f.cookie.last_tm >= UpdateSec
        BY <1>3, <1>5, <2>4, Seconds
      <3> QED BY <1>6, <2>1, <3>2, <3>3, <3>4 DEF f
    <2> QED BY <2>3, <2>4
  <1>7. CASE ~Loads(f)
    <2>1. Constructed(f).session = Created(f) /\ Constructed(f).sets = TRUE
      BY <1>7 DEF Constructed
    <2>2. /\ Created(f) \in Cookies /\ Created(f).kind = "session" /\ Created(f).last_tm = now
          /\ Created(f).user = "" /\ Created(f).origin = f.origin
      BY <1>1, <1>2 DEF Created, Cookies
    <2>3. now - now <= Slack /\ now <= now
      BY <1>3, Seconds
    <2> QED BY <1>7, <2>1, <2>2, <2>3 DEF f
  <1> QED BY <1>6, <1>7

-----------------------------------------------------------------------------
(* A request is handled                                                    *)

\* What the server can make of request r: the session c and the page served.
Outcome(r, c, served) ==
    LET f == flight[r]
        kept == IF c.sets THEN c.session ELSE f.cookie
    IN  /\ c.session \in Cookies /\ c.sets \in BOOLEAN
        /\ served \in {"user", "guest", "failed"}
        /\ c.sets /\ c.session.kind = "session" =>
              c.session.last_tm <= now /\ c.session.origin \in {f.origin, f.cookie.origin}
        /\ c.sets /\ c.session.kind = "session" /\ c.session.origin # f.origin =>
              f.cookie.kind = "session"
        /\ served = "user" => SignedIn(kept, now)
        /\ served = "guest" /\ f.route # "auth" => kept.user = ""
        /\ served = "guest" /\ f.route = "auth" => ~c.sets
        /\ served = "failed" => ~c.sets
        /\ f.route = "visit" /\ f.cookie.user = "" => kept.user = "" /\ served # "user"
        /\ f.route = "visit" /\ served = "user" => Loads(f)
        /\ f.route = "visit" /\ Loads(f) /\ f.cookie.user # "" => served # "guest"

\* Every way to handle a request has one of these outcomes.
LEMMA HandleOutcome ==
    ASSUME TypeOK, ServerSound, NEW r \in Requests, Handle(r)
    PROVE  \E c, served : Outcome(r, c, served) /\ Answer(r, c, served)
  <1> DEFINE f == flight[r]
  <1> DEFINE k == Constructed(f)
  <1>1. /\ f.cookie \in Cookies /\ f.origin \in Origins
        /\ f.route \in {"none", "visit", "auth", "signout"}
    BY DEF TypeOK, Flights
  <1>2. /\ k.session \in Cookies /\ k.sets \in BOOLEAN
        /\ k.session.kind = "session" /\ k.session.last_tm <= now
        /\ now - k.session.last_tm <= Slack
        /\ k.session.user = IF Loads(f) THEN f.cookie.user ELSE ""
        /\ k.session.origin = IF Loads(f) THEN f.cookie.origin ELSE f.origin
        /\ ~k.sets => k.session = f.cookie
    BY ConstructedFacts
  <1>3. Loads(f) => f.cookie.kind = "session"
    BY DEF Loads
  <1>4. NoSession.session \in Cookies /\ NoSession.sets = FALSE /\ NoCookie \in Cookies
        /\ NoCookie.user = "" /\ NoCookie.kind # "session"
    BY Nothing DEF NoSession
  <1>5. CASE Visit(r)
    <2> DEFINE s == IF k.session.user = "" THEN "guest" ELSE "user"
    <2>1. f.route = "visit" /\ Answer(r, k, s)
      BY <1>5 DEF Visit
    <2> HIDE DEF k
    <2>2. Outcome(r, k, s)
      BY <1>1, <1>2, <1>3, <2>1 DEF Outcome, SignedIn
    <2> QED BY <2>1, <2>2
  <1>6. CASE Auth(r)
    <2> DEFINE c == Put(k, "u")
    <2>1. f.route = "auth" /\ Answer(r, c, "user")
      BY <1>6 DEF Auth
    <2> HIDE DEF k
    <2>2. c.session = [k.session EXCEPT !.user = "u"] /\ c.sets = TRUE
      BY DEF Put
    <2>3. /\ c.session \in Cookies /\ c.session.kind = "session" /\ c.session.user = "u"
          /\ c.session.last_tm = k.session.last_tm /\ c.session.origin = k.session.origin
      BY <1>2, <2>2 DEF Cookies
    <2> HIDE DEF c
    <2>4. Outcome(r, c, "user")
      BY <1>1, <1>2, <1>3, <2>1, <2>2, <2>3 DEF Outcome, SignedIn
    <2> QED BY <2>1, <2>4
  <1>7. CASE AuthRefused(r)
    <2>1. Answer(r, NoSession, "guest") /\ f.route = "auth"
      BY <1>7 DEF AuthRefused
    <2>2. Outcome(r, NoSession, "guest")
      BY <1>1, <1>4, <2>1 DEF Outcome
    <2> QED BY <2>1, <2>2
  <1>8. CASE SignOut(r)
    <2> DEFINE c == [session |-> NoCookie, sets |-> TRUE]
    <2>1. Answer(r, c, "guest") /\ f.route = "signout"
      BY <1>8 DEF SignOut
    <2>2. Outcome(r, c, "guest")
      BY <1>1, <1>4, <2>1 DEF Outcome
    <2> QED BY <2>1, <2>2
  <1>9. CASE Fails(r)
    <2>1. Answer(r, NoSession, "failed") /\ f.route # "signout"
      BY <1>9 DEF Fails
    <2>2. Outcome(r, NoSession, "failed")
      BY <1>1, <1>4, <2>1 DEF Outcome
    <2> QED BY <2>1, <2>2
  <1> QED BY <1>5, <1>6, <1>7, <1>8, <1>9 DEF Handle

\* The response, field by field; the other requests are as they were.
LEMMA AnswerFacts ==
    ASSUME TypeOK, NEW r \in Requests, NEW c, NEW served, Answer(r, c, served)
    PROVE  /\ flight[r].phase = "sent" /\ flight'[r].phase = "answered"
           /\ flight'[r].route = flight[r].route /\ flight'[r].sets = c.sets
           /\ flight'[r].served = served /\ flight'[r].at = now
           /\ flight'[r].cookie = NoCookie
           /\ flight'[r].session = IF c.sets THEN c.session ELSE NoCookie
           /\ flight'[r].dead = (now - handled > ExpirySec) /\ flight'[r].due = Due
           /\ \A q \in Requests \ {r} : flight'[q] = flight[q]
           /\ handled' = now /\ UNCHANGED <<now, browser>>
  <1>1. r \in DOMAIN flight /\ DOMAIN flight = Requests
    BY DEF TypeOK
  <1> QED BY <1>1 DEF Answer, NoRequest

\* The response has its type.
LEMMA AnswerTypeOK ==
    ASSUME TypeOK, NEW r \in Requests, NEW c, NEW served,
           Outcome(r, c, served), Answer(r, c, served)
    PROVE  TypeOK'
  <1>1. /\ now \in 0 .. MaxTime /\ handled \in 0 .. now /\ answered \in 0 .. now
        /\ flight[r] \in Flights /\ flight \in [Requests -> Flights]
    BY DEF TypeOK
  <1> DEFINE g == [phase |-> "answered", route |-> flight[r].route, cookie |-> NoCookie,
                   origin |-> None.origin, sets |-> c.sets,
                   session |-> IF c.sets THEN c.session ELSE NoCookie, served |-> served,
                   at |-> now, dead |-> now - handled > ExpirySec, due |-> Due]
  <1>2. Due \in {"user", "guest", "nothing"}
    BY DEF Due
  <1>3. (now - handled > ExpirySec) \in BOOLEAN
    OBVIOUS
  <1>4. (IF c.sets THEN c.session ELSE NoCookie) \in Cookies
    BY Nothing DEF Outcome
  <1>5. g \in Flights
    <2>1. c.sets \in BOOLEAN /\ served \in {"none", "user", "guest", "failed"}
      BY DEF Outcome
    <2>2. flight[r].route \in {"none", "visit", "auth", "signout"}
      BY <1>1 DEF Flights
    <2>3. NoCookie \in Cookies /\ None.origin \in Origins
      BY Nothing, OriginsAssumption DEF None
    <2>4. ASSUME NEW dead \in BOOLEAN, NEW s \in Cookies, NEW due \in {"user", "guest", "nothing"}
          PROVE  [phase |-> "answered", route |-> flight[r].route, cookie |-> NoCookie,
                  origin |-> None.origin, sets |-> c.sets, session |-> s, served |-> served,
                  at |-> now, dead |-> dead, due |-> due] \in Flights
      BY <1>1, <2>1, <2>2, <2>3 DEF Flights
    <2> QED BY <1>2, <1>3, <1>4, <2>4
  <1>6. flight' = [flight EXCEPT ![r] = g]
    BY DEF Answer
  <1> HIDE DEF g
  <1>7. flight' \in [Requests -> Flights]
    BY <1>1, <1>5, <1>6
  <1>8. handled' \in 0 .. now' /\ now' = now
    BY <1>1, Seconds DEF Answer
  <1> QED BY <1>7, <1>8 DEF TypeOK, Answer, browser

\* Every variable keeps its type.
LEMMA NextTypeOK ==
    ASSUME TypeOK, ServerSound, [Next]_vars
    PROVE  TypeOK'
  <1>0. now \in Nat /\ handled \in Nat /\ answered \in Nat /\ handled <= now /\ answered <= now
    BY Seconds DEF TypeOK
  <1>1. CASE Tick
    <2>1. now' \in 0 .. MaxTime /\ handled' \in 0 .. now' /\ answered' \in 0 .. now'
      BY <1>0, <1>1, Seconds DEF Tick, browser
    <2> QED BY <1>1, <2>1 DEF Tick, browser, TypeOK
  <1>2. CASE Move
    BY <1>2 DEF Move, TypeOK
  <1>3. ASSUME NEW r \in Requests, NEW route \in {"visit", "auth", "signout"}, Send(r, route)
        PROVE  TypeOK'
    <2> DEFINE g == [NoRequest EXCEPT !.phase = "sent", !.route = route,
                       !.cookie = jar, !.origin = origin]
    <2>1. g \in Flights
      BY Nothing DEF Flights, TypeOK
    <2>2. flight' = [flight EXCEPT ![r] = g]
      BY <1>3 DEF Send
    <2> HIDE DEF g
    <2>3. flight' \in [Requests -> Flights]
      BY <2>1, <2>2 DEF TypeOK
    <2>4. overlap' \in BOOLEAN
      BY <1>3 DEF Send
    <2>5. login' \in {"in", "out", "unknown"}
      BY <1>3 DEF Send, TypeOK
    <2> QED BY <1>3, <2>3, <2>4, <2>5 DEF Send, TypeOK
  <1>4. ASSUME NEW r \in Requests, Handle(r)
        PROVE  TypeOK'
    BY <1>4, HandleOutcome, AnswerTypeOK
  <1>5. ASSUME NEW r \in Requests, Receive(r)
        PROVE  TypeOK'
    <2>1. flight[r] \in Flights
      BY DEF TypeOK
    <2>2. flight[r].session \in Cookies /\ flight[r].at \in 0 .. MaxTime
      BY <2>1 DEF Flights
    <2>3. flight[r].at \in Nat /\ flight[r].at <= handled
      BY <2>2, Seconds DEF ServerSound
    <2>4. answered' \in {answered, flight[r].at}
      BY <1>0, <1>5, <2>3, MaxPair DEF Receive
    <2>5. answered' \in 0 .. now
      BY <1>0, <2>3, <2>4
    <2>6. flight' \in [Requests -> Flights]
      BY <1>5, Nothing DEF Receive, TypeOK
    <2>7. jar' \in Cookies
      BY <1>5, <2>2 DEF Receive, TypeOK
    <2>8. login' \in {"in", "out", "unknown"}
      BY <1>5 DEF Receive, TypeOK
    <2> QED BY <1>5, <2>5, <2>6, <2>7, <2>8 DEF Receive, TypeOK
  <1>6. ASSUME NEW r \in Requests, Lose(r)
        PROVE  TypeOK'
    BY <1>6, Nothing DEF Lose, browser, TypeOK
  <1>7. CASE UNCHANGED vars
    BY <1>7 DEF vars, browser, TypeOK
  <1> QED BY <1>1, <1>2, <1>3, <1>4, <1>5, <1>6, <1>7 DEF Next

-----------------------------------------------------------------------------
(* Cookies wherever they are                                               *)

\* A request that leaves the browser.
LEMMA SendFacts ==
    ASSUME TypeOK, NEW r \in Requests, NEW route, Send(r, route)
    PROVE  /\ flight[r].phase = "none" /\ flight'[r].phase = "sent" /\ flight'[r].route = route
           /\ flight'[r].cookie = jar /\ flight'[r].origin = origin
           /\ flight'[r].session = NoCookie /\ flight'[r].at = 0
           /\ \A q \in Requests \ {r} : flight'[q] = flight[q]
  <1>1. r \in DOMAIN flight /\ DOMAIN flight = Requests
    BY DEF TypeOK
  <1> QED BY <1>1 DEF Send, NoRequest

\* A request that is over, by its response or without.
LEMMA OverFacts ==
    ASSUME TypeOK, NEW r \in Requests, Receive(r) \/ Lose(r)
    PROVE  /\ flight'[r] = NoRequest
           /\ \A q \in Requests \ {r} : flight'[q] = flight[q]
  BY DEF TypeOK, Receive, Lose

\* A session is stamped with the time of the request that makes it, and that
\* request is the last one handled.
LEMMA NextServer ==
    ASSUME TypeOK, ServerSound, [Next]_vars
    PROVE  ServerSound'
  <1>0. now \in Nat /\ handled \in Nat /\ answered \in Nat /\ handled <= now /\ answered <= now
    BY Seconds DEF TypeOK
  <1>1. CASE Tick \/ UNCHANGED vars
    BY <1>1 DEF Tick, vars, browser, ServerSound, Fresh
  <1>2. CASE Move
    BY <1>2 DEF Move, ServerSound, Fresh
  <1>3. ASSUME NEW r \in Requests, NEW route, Send(r, route)
        PROVE  ServerSound'
    <2>1. UNCHANGED <<handled, moved, origin, jar, answered>>
      BY <1>3 DEF Send
    <2>2. ASSUME NEW q \in Requests
          PROVE  /\ Fresh(flight'[q].cookie, handled, moved, origin)
                 /\ Fresh(flight'[q].session, handled, moved, origin)
                 /\ flight'[q].at <= handled
                 /\ flight'[q].phase = "sent" /\ ~moved => flight'[q].origin = origin
      <3>1. CASE q = r
        <4>1. Fresh(NoCookie, handled, moved, origin)
          BY Nothing DEF Fresh
        <4> QED BY <1>0, <1>3, <3>1, <4>1, SendFacts DEF ServerSound
      <3>2. CASE q # r
        BY <1>3, <3>2, SendFacts DEF ServerSound
      <3> QED BY <3>1, <3>2
    <2> QED BY <2>1, <2>2 DEF ServerSound, Fresh
  <1>4. ASSUME NEW r \in Requests, Handle(r)
        PROVE  ServerSound'
    <2>1. PICK c, served : Outcome(r, c, served) /\ Answer(r, c, served)
      BY <1>4, HandleOutcome
    <2>2. handled' = now /\ UNCHANGED <<now, moved, origin, jar, answered>>
      BY <2>1 DEF Answer, browser
    <2>3. flight[r] \in Flights /\ flight[r].phase = "sent"
      BY <2>1, AnswerFacts DEF TypeOK
    <2>4. \A q \in Requests : flight[q] \in Flights
      BY DEF TypeOK
    <2>5. \A d \in Cookies : d.last_tm \in Nat
      <3>1. \A d \in Cookies : d.last_tm \in 0 .. MaxTime
        BY DEF Cookies
      <3> QED BY <3>1, Seconds
    <2>6. \A d \in Cookies : Fresh(d, handled, moved, origin) => Fresh(d, handled', moved', origin')
      BY <1>0, <2>2, <2>5 DEF Fresh
    <2>7. Fresh(NoCookie, handled', moved', origin')
      BY Nothing DEF Fresh
    <2>8. /\ flight'[r].phase = "answered" /\ flight'[r].cookie = NoCookie /\ flight'[r].at = now
          /\ flight'[r].session = IF c.sets THEN c.session ELSE NoCookie
          /\ \A q \in Requests \ {r} : flight'[q] = flight[q]
      BY <2>1, AnswerFacts
    <2>9. Fresh(flight'[r].session, handled', moved', origin')
      <3>1. CASE c.sets /\ c.session.kind = "session"
        <4>1. c.session.last_tm <= now
          BY <2>1, <3>1 DEF Outcome
        <4>2. ~moved => c.session.origin = origin
          BY <2>1, <2>3, <3>1 DEF Outcome, ServerSound, Fresh
        <4> QED BY <2>2, <2>8, <3>1, <4>1, <4>2 DEF Fresh
      <3>2. CASE ~c.sets
        BY <2>7, <2>8, <3>2
      <3>3. CASE c.sets /\ c.session.kind # "session"
        BY <2>8, <3>3 DEF Fresh
      <3> QED BY <3>1, <3>2, <3>3
    <2>10. ASSUME NEW q \in Requests
          PROVE  /\ Fresh(flight'[q].cookie, handled', moved', origin')
                 /\ Fresh(flight'[q].session, handled', moved', origin')
                 /\ flight'[q].at <= now
                 /\ flight'[q].phase = "sent" /\ ~moved => flight'[q].origin = origin
      <3>1. CASE q = r
        BY <1>0, <2>7, <2>8, <2>9, <3>1
      <3>2. CASE q # r
        <4>1. flight'[q] = flight[q] /\ flight[q].cookie \in Cookies /\ flight[q].session \in Cookies
              /\ flight[q].at \in 0 .. MaxTime
          BY <2>4, <2>8, <3>2 DEF Flights
        <4>2. flight[q].at <= now
          BY <1>0, <4>1, Seconds DEF ServerSound
        <4>3. /\ Fresh(flight[q].cookie, handled', moved', origin')
              /\ Fresh(flight[q].session, handled', moved', origin')
          BY <2>2, <2>6, <4>1 DEF ServerSound, Fresh
        <4> QED BY <4>1, <4>2, <4>3 DEF ServerSound, Fresh
      <3> QED BY <3>1, <3>2
    <2>11. Fresh(jar', handled', moved', origin')
      BY <1>0, <2>2, <2>5 DEF ServerSound, Fresh, TypeOK
    <2> QED BY <1>0, <2>2, <2>10, <2>11 DEF ServerSound, Fresh
  <1>5. ASSUME NEW r \in Requests, Receive(r) \/ Lose(r)
        PROVE  ServerSound'
    <2>1. UNCHANGED <<handled, moved, origin>> /\ jar' \in {jar, flight[r].session}
      BY <1>5 DEF Receive, Lose, browser
    <2>2. flight[r].at \in Nat /\ flight[r].at <= handled
      <3>1. flight[r].at \in 0 .. MaxTime
        BY DEF TypeOK, Flights
      <3> QED BY <3>1, Seconds DEF ServerSound
    <2>3. answered' \in {answered, flight[r].at}
      BY <1>0, <1>5, <2>2, MaxPair DEF Receive, Lose, browser
    <2>4. ASSUME NEW q \in Requests
          PROVE  /\ Fresh(flight'[q].cookie, handled, moved, origin)
                 /\ Fresh(flight'[q].session, handled, moved, origin)
                 /\ flight'[q].at <= handled
                 /\ flight'[q].phase = "sent" /\ ~moved => flight'[q].origin = origin
      <3>1. CASE q = r
        <4>1. Fresh(NoCookie, handled, moved, origin)
          BY Nothing DEF Fresh
        <4>2. NoRequest.at = 0 /\ NoRequest.phase = "none"
              /\ NoRequest.cookie = NoCookie /\ NoRequest.session = NoCookie
          BY Nothing
        <4> QED BY <1>0, <1>5, <3>1, <4>1, <4>2, OverFacts
      <3>2. CASE q # r
        BY <1>5, <3>2, OverFacts DEF ServerSound
      <3> QED BY <3>1, <3>2
    <2> QED BY <2>1, <2>2, <2>3, <2>4 DEF ServerSound, Fresh
  <1> QED BY <1>1, <1>2, <1>3, <1>4, <1>5 DEF Next

-----------------------------------------------------------------------------
(* One request at a time                                                   *)

\* A page made for the browser's own cookie keeps the cookie and the user's
\* view of it in step.
LEMMA HandleQuiet ==
    ASSUME TypeOK, ServerSound, Quiet, NEW r \in Requests, Handle(r), ~overlap
    PROVE  Quiet'
  <1>1. PICK c, served : Outcome(r, c, served) /\ Answer(r, c, served)
    BY HandleOutcome
  <1>2. /\ flight[r].phase = "sent" /\ flight'[r].phase = "answered"
        /\ flight'[r].route = flight[r].route /\ flight'[r].sets = c.sets
        /\ flight'[r].served = served /\ flight'[r].at = now
        /\ flight'[r].session = IF c.sets THEN c.session ELSE NoCookie
        /\ \A q \in Requests \ {r} : flight'[q] = flight[q]
    BY <1>1, AnswerFacts
  <1>3. UNCHANGED <<jar, login, answered, overlap>>
    BY <1>1 DEF Answer, browser
  <1>4. \A q \in Requests \ {r} : flight[q].phase = "none"
    BY <1>2 DEF Quiet, OneInFlight
  <1>5. flight[r].cookie = jar
    BY <1>2 DEF Quiet
  <1>6. After(r)' = IF c.sets THEN c.session ELSE jar
    BY <1>2, <1>3 DEF After
  <1>7. AnsweredSound(r)'
    <2> DEFINE kept == IF c.sets THEN c.session ELSE flight[r].cookie
    <2>1. /\ served \in {"user", "guest", "failed"}
          /\ served = "user" => SignedIn(kept, now)
          /\ served = "guest" /\ flight[r].route # "auth" => kept.user = ""
          /\ served = "guest" /\ flight[r].route = "auth" => ~c.sets
          /\ served = "failed" => ~c.sets
          /\ flight[r].route = "visit" /\ flight[r].cookie.user = "" => kept.user = "" /\ served # "user"
      BY <1>1 DEF Outcome
    <2>2. After(r)' = kept
      BY <1>5, <1>6
    <2>3. login = "out" => flight[r].route = "visit" /\ flight[r].cookie.user = ""
      BY <1>2, <1>5 DEF Quiet
    <2>4. answered <= now
      BY Seconds DEF TypeOK
    <2> HIDE DEF kept
    <2> QED BY <1>2, <1>3, <2>1, <2>2, <2>3, <2>4 DEF AnsweredSound, SignedIn
  <1>8. OneInFlight'
    BY <1>2, <1>4 DEF OneInFlight
  <1>9. \A q \in Requests : AnsweredSound(q)'
    BY <1>2, <1>4, <1>7 DEF AnsweredSound
  <1>10. \A q \in Requests :
            /\ flight'[q].phase # "none" /\ flight'[q].route # "visit" => login = "unknown"
            /\ flight'[q].phase = "sent" => flight'[q].cookie = jar
    BY <1>2, <1>4 DEF Quiet
  <1> QED BY <1>3, <1>8, <1>9, <1>10 DEF Quiet, SignedIn

\* The response of the only request brings the cookie the user relies on.
LEMMA ReceiveQuiet ==
    ASSUME TypeOK, ServerSound, Quiet, NEW r \in Requests, Receive(r), ~overlap
    PROVE  Quiet'
  <1>1. flight[r].phase = "answered" /\ UNCHANGED overlap
    BY DEF Receive
  <1>2. \A q \in Requests : flight'[q].phase = "none"
    <2>1. \A q \in Requests \ {r} : flight[q].phase = "none"
      BY <1>1 DEF Quiet, OneInFlight
    <2> QED BY <2>1, OverFacts, Nothing
  <1>3. jar' = After(r)
    BY DEF Receive, After
  <1>4. AnsweredSound(r)
    BY DEF Quiet
  <1>5. flight[r].served # "failed" => answered' = flight[r].at
    <2>1. flight[r].at \in 0 .. MaxTime /\ answered \in 0 .. now /\ now \in 0 .. MaxTime
      BY DEF TypeOK, Flights
    <2>2. flight[r].at \in Nat /\ answered \in Nat
      BY <2>1, Seconds
    <2>3. answered <= flight[r].at
      BY <1>1, <1>4 DEF AnsweredSound
    <2>4. Max({answered, flight[r].at}) = flight[r].at
      BY <2>2, <2>3, MaxPair
    <2> QED BY <2>4 DEF Receive
  <1>6. flight[r].served = "failed" => jar' = jar /\ answered' = answered
    BY <1>1, <1>3, <1>4 DEF AnsweredSound, After, Receive
  <1>7. login' = "in" => SignedIn(jar', answered')
    <2>1. CASE flight[r].served = "user"
      BY <1>1, <1>3, <1>4, <1>5, <2>1 DEF AnsweredSound
    <2>2. CASE flight[r].served = "failed"
      BY <1>6, <2>2 DEF Receive, Quiet
    <2>3. CASE flight[r].served = "guest"
      BY <1>1, <2>3 DEF Receive, Quiet
    <2>4. flight[r].served \in {"user", "failed", "guest"}
      BY <1>1, <1>4 DEF AnsweredSound, TypeOK, Flights
    <2> QED BY <2>1, <2>2, <2>3, <2>4
  <1>8. login' = "out" => jar'.user = ""
    <2>1. CASE flight[r].route # "auth" /\ flight[r].served = "guest"
      BY <1>1, <1>3, <1>4, <2>1 DEF AnsweredSound
    <2>2. CASE ~(flight[r].route # "auth" /\ flight[r].served = "guest")
      <3>1. login' = "out" => login = "out"
        BY <2>2 DEF Receive
      <3> QED BY <1>1, <1>3, <1>4, <3>1 DEF AnsweredSound
    <2> QED BY <2>1, <2>2
  <1> QED BY <1>2, <1>7, <1>8 DEF Quiet, OneInFlight, AnsweredSound, SignedIn

\* While requests go one at a time, what the user has seen is what the cookie says.
LEMMA NextQuiet ==
    ASSUME TypeOK, ServerSound, Quiet, [Next]_vars
    PROVE  Quiet'
  <1>1. CASE Tick \/ Move \/ UNCHANGED vars
    BY <1>1 DEF Tick, Move, vars, browser, Quiet, OneInFlight, AnsweredSound, SignedIn, After
  <1>2. ASSUME NEW r \in Requests, NEW route \in {"visit", "auth", "signout"}, Send(r, route)
        PROVE  Quiet'
    <2> SUFFICES ASSUME ~overlap'
                 PROVE  Quiet'
      BY DEF Quiet
    <2>1. ~overlap /\ \A q \in Requests : flight[q].phase = "none"
      BY <1>2 DEF Send, TypeOK
    <2>2. /\ flight'[r].phase = "sent" /\ flight'[r].route = route /\ flight'[r].cookie = jar
          /\ \A q \in Requests \ {r} : flight'[q] = flight[q]
      BY <1>2, SendFacts
    <2>3. UNCHANGED <<jar, answered>> /\ login' = IF route = "visit" THEN login ELSE "unknown"
      BY <1>2 DEF Send
    <2>4. \A q \in Requests : AnsweredSound(q)'
      BY <2>1, <2>2 DEF AnsweredSound
    <2>5. OneInFlight'
      BY <2>1, <2>2 DEF OneInFlight
    <2>6. \A q \in Requests :
             /\ flight'[q].phase # "none" /\ flight'[q].route # "visit" => login' = "unknown"
             /\ flight'[q].phase = "sent" => flight'[q].cookie = jar
      BY <2>1, <2>2, <2>3
    <2>7. (login = "in" => SignedIn(jar, answered)) /\ (login = "out" => jar.user = "")
      BY <2>1 DEF Quiet
    <2> QED BY <2>3, <2>4, <2>5, <2>6, <2>7 DEF Quiet, SignedIn
  <1>3. ASSUME NEW r \in Requests, Handle(r)
        PROVE  Quiet'
    <2>1. UNCHANGED overlap
      BY <1>3 DEF Handle, Visit, Auth, AuthRefused, SignOut, Fails, Answer, browser
    <2> QED BY <1>3, <2>1, HandleQuiet DEF Quiet
  <1>4. ASSUME NEW r \in Requests, Receive(r)
        PROVE  Quiet'
    <2>1. UNCHANGED overlap
      BY <1>4 DEF Receive
    <2> QED BY <1>4, <2>1, ReceiveQuiet DEF Quiet
  <1>5. ASSUME NEW r \in Requests, Lose(r)
        PROVE  Quiet'
    <2>1. UNCHANGED <<jar, login, answered, overlap>>
      BY <1>5 DEF Lose, browser
    <2>2. flight'[r].phase = "none" /\ \A q \in Requests \ {r} : flight'[q] = flight[q]
      BY <1>5, OverFacts, Nothing
    <2>3. ~overlap => \A q \in Requests : AnsweredSound(q)'
      BY <2>1, <2>2 DEF Quiet, AnsweredSound, After, SignedIn
    <2>4. ~overlap => OneInFlight'
      BY <2>2 DEF Quiet, OneInFlight
    <2> QED BY <2>1, <2>2, <2>3, <2>4 DEF Quiet, SignedIn
  <1> QED BY <1>1, <1>2, <1>3, <1>4, <1>5 DEF Next

-----------------------------------------------------------------------------
(* The pages                                                               *)

\* A page for a user loads a session that is at most expiry_sec old, and no
\* session is younger than the request handled last.
LEMMA PageAlive ==
    ASSUME TypeOK, ServerSound, NEW r \in Requests, Loads(flight[r])
    PROVE  ~(now - handled > ExpirySec)
  <1>1. flight[r].cookie \in Cookies /\ now \in 0 .. MaxTime /\ handled \in 0 .. now
    BY DEF TypeOK, Flights
  <1>2. flight[r].cookie.last_tm \in 0 .. MaxTime
    BY <1>1 DEF Cookies
  <1>3. flight[r].cookie.last_tm <= handled /\ now - flight[r].cookie.last_tm <= ExpirySec
    BY DEF Loads, ServerSound, Fresh
  <1> QED BY <1>1, <1>2, <1>3, Seconds

\* A session that is due loads, and signs its user in.
LEMMA PageDue ==
    ASSUME TypeOK, ServerSound, Quiet, NEW r \in Requests, flight[r].phase = "sent", Due = "user"
    PROVE  Loads(flight[r]) /\ flight[r].cookie.user # ""
  <1>1. ~overlap /\ login = "in" /\ now - answered <= Grace /\ (Validate => ~moved)
    BY DEF Due
  <1>2. flight[r].cookie = jar /\ SignedIn(jar, answered)
    BY <1>1 DEF Quiet
  <1>3. jar \in Cookies /\ now \in 0 .. MaxTime /\ answered \in 0 .. now
    BY DEF TypeOK
  <1>4. jar.last_tm \in 0 .. MaxTime
    BY <1>3 DEF Cookies
  <1>5. jar.kind = "session" /\ jar.user # "" /\ answered - jar.last_tm <= Slack
    BY <1>2 DEF SignedIn
  <1>6. now \in Nat /\ answered \in Nat /\ jar.last_tm \in Nat /\ Grace \in Int
        /\ Slack \in Nat /\ Grace + Slack = ExpirySec
    BY <1>3, <1>4, Seconds DEF Grace
  <1>7. now - jar.last_tm <= ExpirySec
    <2>1. ExpirySec \in Nat
      BY Seconds
    <2>2. ASSUME NEW n \in Nat, NEW a \in Nat, NEW l \in Nat, NEW g \in Int, NEW s \in Nat,
                 n - a <= g, a - l <= s
          PROVE  n - l <= g + s
      BY <2>2
    <2> QED BY <1>1, <1>5, <1>6, <2>1, <2>2
  <1>8. Validate => jar.origin = flight[r].origin
    BY <1>1, <1>5 DEF ServerSound, Fresh
  <1> QED BY <1>2, <1>5, <1>7, <1>8 DEF Loads

\* Who has signed out has a cookie without a user.
LEMMA PageGuest ==
    ASSUME Quiet, NEW r \in Requests, flight[r].phase = "sent", Due = "guest"
    PROVE  flight[r].cookie.user = ""
  BY DEF Due, Quiet

\* Pages are made as they should be, and do not change on their way.
LEMMA NextPages ==
    ASSUME TypeOK, ServerSound, Quiet, PagesSound, [Next]_vars
    PROVE  PagesSound'
  <1> DEFINE P(f) ==
        f.phase = "answered" /\ f.route = "visit" =>
            /\ f.served = "user" => ~f.dead
            /\ f.due = "user" => f.served \in {"user", "failed"}
            /\ f.due = "guest" => f.served # "user"
  <1>1. \A q \in Requests : P(flight[q])
    BY DEF PagesSound, IdleExpires, StaysSignedIn, SignOutHolds, Page
  <1> SUFFICES \A q \in Requests : P(flight'[q])
    BY DEF PagesSound, IdleExpires, StaysSignedIn, SignOutHolds, Page
  <1>2. CASE UNCHANGED flight
    BY <1>1, <1>2
  <1>3. ASSUME NEW r \in Requests, NEW route \in {"visit", "auth", "signout"}, Send(r, route)
        PROVE  \A q \in Requests : P(flight'[q])
    BY <1>1, <1>3, SendFacts
  <1>4. ASSUME NEW r \in Requests, Handle(r)
        PROVE  \A q \in Requests : P(flight'[q])
    <2>1. PICK c, served : Outcome(r, c, served) /\ Answer(r, c, served)
      BY <1>4, HandleOutcome
    <2>2. /\ flight[r].phase = "sent" /\ flight'[r].route = flight[r].route
          /\ flight'[r].served = served
          /\ flight'[r].dead = (now - handled > ExpirySec) /\ flight'[r].due = Due
          /\ \A q \in Requests \ {r} : flight'[q] = flight[q]
      BY <2>1, AnswerFacts
    <2>3. /\ served \in {"user", "guest", "failed"}
          /\ flight[r].route = "visit" /\ served = "user" => Loads(flight[r])
          /\ flight[r].route = "visit" /\ Loads(flight[r]) /\ flight[r].cookie.user # "" =>
                served # "guest"
          /\ flight[r].route = "visit" /\ flight[r].cookie.user = "" => served # "user"
      BY <2>1 DEF Outcome
    <2>4. flight[r].route = "visit" /\ served = "user" => ~flight'[r].dead
      BY <2>2, <2>3, PageAlive
    <2>5. flight[r].route = "visit" /\ Due = "user" => served \in {"user", "failed"}
      BY <2>2, <2>3, PageDue
    <2>6. flight[r].route = "visit" /\ Due = "guest" => served # "user"
      BY <2>2, <2>3, PageGuest
    <2>7. P(flight'[r])
      BY <2>2, <2>4, <2>5, <2>6
    <2> QED BY <1>1, <2>2, <2>7
  <1>5. ASSUME NEW r \in Requests, Receive(r) \/ Lose(r)
        PROVE  \A q \in Requests : P(flight'[q])
    BY <1>1, <1>5, OverFacts, Nothing
  <1> QED BY <1>2, <1>3, <1>4, <1>5 DEF Next, Tick, Move, vars

-----------------------------------------------------------------------------
\* A browser starts without a session.
LEMMA InitIInv == Init => IInv
  <1> SUFFICES ASSUME Init
               PROVE  IInv
    OBVIOUS
  <1>1. jar \in Cookies /\ jar.kind # "session" /\ jar.user = ""
    BY Nothing DEF Init
  <1>2. \A r \in Requests : flight[r] = NoRequest
    BY DEF Init
  <1>3. TypeOK
    <2>1. now \in 0 .. MaxTime /\ handled \in 0 .. now /\ answered \in 0 .. now
      BY Seconds DEF Init
    <2>2. flight \in [Requests -> Flights]
      BY Nothing DEF Init
    <2> QED BY <1>1, <2>1, <2>2 DEF Init, TypeOK
  <1>4. NoCookie.kind # "session" /\ NoRequest.phase = "none" /\ NoRequest.at = 0
        /\ NoRequest.cookie = NoCookie /\ NoRequest.session = NoCookie
    BY Nothing
  <1>5. ServerSound
    <2>1. answered <= handled /\ 0 <= handled
      BY DEF Init
    <2> QED BY <1>1, <1>2, <1>4, <2>1 DEF ServerSound, Fresh
  <1>6. Quiet /\ PagesSound
    BY <1>1, <1>2, <1>4 DEF Init, Quiet, OneInFlight, AnsweredSound, PagesSound,
                            IdleExpires, StaysSignedIn, SignOutHolds, Page
  <1> QED BY <1>3, <1>5, <1>6 DEF IInv

\* The invariant holds whatever the browser, the network and the clock do.
THEOREM Invariance == Spec => []IInv
  <1>1. IInv /\ [Next]_vars => IInv'
    BY NextTypeOK, NextServer, NextQuiet, NextPages DEF IInv
  <1> QED BY <1>1, InitIInv, PTL DEF Spec

\* Types: times are within the clock's, and every cookie is one that load() can meet.
THEOREM SessionTyped == Spec => []TypeOK
  BY Invariance, PTL DEF IInv

\* No page is made for the user of a browser the server has not seen for longer
\* than expiry_sec, with any number of requests in flight.
THEOREM IdleSessionsExpire == Spec => []IdleExpires
  <1>1. IInv => IdleExpires
    BY DEF IInv, PagesSound
  <1> QED BY <1>1, Invariance, PTL

\* An active user is never signed out, for any expiry_sec and update_sec.
THEOREM UsersStaySignedIn == Spec => []StaysSignedIn
  <1>1. IInv => StaysSignedIn
    BY DEF IInv, PagesSound
  <1> QED BY <1>1, Invariance, PTL

\* A sign-out that was seen is final.
THEOREM SignOutIsFinal == Spec => []SignOutHolds
  <1>1. IInv => SignOutHolds
    BY DEF IInv, PagesSound
  <1> QED BY <1>1, Invariance, PTL
=============================================================================
