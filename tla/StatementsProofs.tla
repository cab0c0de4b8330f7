--------------------------- MODULE StatementsProofs ---------------------------
(***************************************************************************)
(* Machine-checked proofs about Statements, for all routes that use the    *)
(* API in its order, all rows and any number of requests.                  *)
(***************************************************************************)
EXTENDS Statements, TLAPS

-----------------------------------------------------------------------------
(* The inductive invariant                                                 *)

Kind == IF stmt = 0 THEN "none" ELSE objects[stmt].kind

StmtHandle == IF stmt = 0 THEN 0 ELSE objects[stmt].handle
RsHandle == IF rs = 0 THEN 0 ELSE objects[rs].handle

\* Of the handles hs, the ones of two pointers are open, and every other has been
\* closed once.
Owned(hs, a, b) ==
    /\ a \in 0 .. Len(hs) /\ b \in 0 .. Len(hs) /\ (a = b => b = 0)
    /\ \A h \in 1 .. Len(hs) : hs[h] = IF h \in {a, b} THEN 0 ELSE 1

HandlesSound ==
    /\ pc = "route" => Owned(handles, StmtHandle, RsHandle)
    /\ pc # "route" => stmt = 0 /\ rs = 0
    /\ pc = "clear" => \A h \in 1 .. Len(handles) : handles[h] = 1

\* A set is unread only between the query of a procedure and fetch(true), or
\* when an exception has left the route and its statement is about to be closed.
WireSound ==
    /\ in_sync
    /\ pc # "route" => wire = <<>>
    /\ wire # <<>> => stmt # 0 /\ (script = <<>> \/ (Len(wire) = 1 /\ Head(script).op = "fetch_proc"))

\* A script for a statement of that kind, which counts as queried only if there is a result.
Fits(s, kind, result) == \E q \in BOOLEAN : WellUsed(s, kind, q) /\ (q => result)

ScriptSound == pc = "route" => Fits(script, Kind, rs # 0) /\ (stmt = rs => rs = 0)

\* While the route may read, its result reads the buffer in which its statement
\* has put the last row.
BuffersSound ==
    pc = "route" /\ script # <<>> /\ rs # 0 =>
        columns \in 1 .. Len(buffers) /\ cursor.bind = columns /\ buffers[columns] = cursor.current

IInv == TypeOK /\ HandlesSound /\ WireSound /\ ScriptSound /\ BuffersSound /\ RowAsStored

-----------------------------------------------------------------------------
(* Scripts                                                                 *)

\* The rest of a script, by position.
LEMMA TailFacts ==
    ASSUME NEW S, NEW s \in Seq(S), s # <<>>
    PROVE  /\ Tail(s) \in Seq(S) /\ Len(s) \in Nat /\ Len(s) > 0 /\ DOMAIN s = 1 .. Len(s) /\ Head(s) = s[1]
           /\ Head(s) \in S
           /\ Len(Tail(s)) = Len(s) - 1 /\ DOMAIN Tail(s) = 1 .. Len(s) - 1
           /\ \A i \in 1 .. Len(s) - 1 : Tail(s)[i] = s[i + 1]
  OBVIOUS

\* A script and its rest, from one position on.
LEMMA PreparedShift ==
    ASSUME NEW s \in Seq(Steps), s # <<>>, NEW t, t = Tail(s)
    PROVE  /\ \A i \in 1 .. Len(s) - 1 : \A j \in 1 .. i : Prepared(t, j, i) <=> Prepared(s, j + 1, i + 1)
           /\ \A i \in 1 .. Len(s) - 1 : Prepared(s, 1, i + 1) <=> Prepared(t, 1, i) \/ s[1].op = "prepare"
  <1>2. /\ Len(s) \in Nat /\ Len(s) > 0 /\ DOMAIN s = 1 .. Len(s) /\ DOMAIN t = 1 .. Len(s) - 1
        /\ \A i \in 1 .. Len(s) - 1 : t[i] = s[i + 1]
    BY TailFacts
  <1>3. ASSUME NEW i \in 1 .. Len(s) - 1, NEW j \in 1 .. i
        PROVE  Prepared(t, j, i) <=> Prepared(s, j + 1, i + 1)
    <2>1. ASSUME NEW m \in j .. i - 1, t[m].op = "prepare"
          PROVE  Prepared(s, j + 1, i + 1)
      <3>1. m \in 1 .. Len(s) - 1 /\ m + 1 \in j + 1 .. (i + 1) - 1
        BY <1>2, <1>3, <2>1
      <3>2. s[m + 1].op = "prepare"
        BY <1>2, <2>1, <3>1
      <3> QED BY <3>1, <3>2 DEF Prepared
    <2>2. ASSUME NEW m \in j + 1 .. (i + 1) - 1, s[m].op = "prepare"
          PROVE  Prepared(t, j, i)
      <3>1. m - 1 \in 1 .. Len(s) - 1 /\ m - 1 \in j .. i - 1 /\ (m - 1) + 1 = m
        BY <1>2, <1>3, <2>2
      <3>2. t[m - 1].op = "prepare"
        BY <1>2, <2>2, <3>1
      <3> QED BY <3>1, <3>2 DEF Prepared
    <2> QED BY <2>1, <2>2 DEF Prepared
  <1>4. ASSUME NEW i \in 1 .. Len(s) - 1
        PROVE  Prepared(s, 1, i + 1) <=> Prepared(t, 1, i) \/ s[1].op = "prepare"
    <2>1. Prepared(t, 1, i) <=> Prepared(s, 2, i + 1)
      <3>1. 1 \in 1 .. i /\ 1 + 1 = 2
        BY <1>2, <1>4
      <3> QED BY <1>3, <3>1
    <2>2. 1 .. (i + 1) - 1 = {1} \cup (2 .. (i + 1) - 1)
      BY <1>2, <1>4
    <2> QED BY <2>1, <2>2 DEF Prepared
  <1> QED BY <1>3, <1>4

\* What holds of the way a script uses the API holds of its rest, with the
\* statement and the result that its first step leaves.
LEMMA WellUsedTail ==
    ASSUME NEW s \in Seq(Steps), s # <<>>, NEW kind, NEW queried \in BOOLEAN, WellUsed(s, kind, queried),
           NEW k, k = IF s[1].op = "prepare" THEN s[1].kind ELSE kind,
           NEW q \in BOOLEAN, q = (s[1].op # "prepare" /\ (queried \/ s[1].op = "query"))
    PROVE  WellUsed(Tail(s), k, q)
  <1>1. PICK t : t = Tail(s)
    OBVIOUS
  <1>2. /\ Len(s) \in Nat /\ Len(s) > 0 /\ DOMAIN s = 1 .. Len(s) /\ Len(t) = Len(s) - 1 /\ DOMAIN t = 1 .. Len(s) - 1
        /\ \A i \in 1 .. Len(s) - 1 : t[i] = s[i + 1]
    BY <1>1, TailFacts
  <1>3. \A i \in 1 .. Len(s) - 1 : \A j \in 1 .. i : Prepared(t, j, i) <=> Prepared(s, j + 1, i + 1)
    BY <1>1, PreparedShift
  <1>4. \A i \in 1 .. Len(s) - 1 : Prepared(s, 1, i + 1) <=> Prepared(t, 1, i) \/ s[1].op = "prepare"
    BY <1>1, PreparedShift
  <1>5. ASSUME NEW i \in 1 .. Len(s) - 1, NEW x, Queryable(s, i + 1, x)
        PROVE  Queryable(t, i, x)
    <2>1. CASE x # "select"
      <3>1. i + 1 < Len(s) /\ s[(i + 1) + 1].op = "fetch_proc" /\ x \in QueryKinds
        BY <1>5, <2>1 DEF Queryable
      <3>2. i < Len(t) /\ i + 1 \in 1 .. Len(s) - 1
        BY <1>2, <3>1
      <3>3. t[i + 1].op = "fetch_proc"
        BY <1>2, <3>1, <3>2
      <3> QED BY <3>1, <3>2, <3>3 DEF Queryable
    <2>2. CASE x = "select"
      BY <2>2 DEF Queryable, QueryKinds
    <2> QED BY <2>1, <2>2
  <1>6. ASSUME NEW i \in DOMAIN t
        PROVE  /\ t[i].op \in {"param", "execute", "query"} => k # "none" \/ Prepared(t, 1, i)
               /\ t[i].op \in {"num_rows", "fetch", "each", "fetch_proc", "get64", "get32"} =>
                     \/ q /\ ~Prepared(t, 1, i)
                     \/ \E j \in 1 .. i - 1 : t[j].op = "query" /\ ~Prepared(t, j, i)
               /\ t[i].op \in {"fetch", "each"} => i < Len(t) /\ t[i + 1].op \in {"get64", "get32"}
               /\ t[i].op = "query" =>
                     /\ ~Prepared(t, 1, i) => Queryable(t, i, k)
                     /\ \A j \in 1 .. i - 1 :
                           t[j].op = "prepare" /\ ~Prepared(t, j + 1, i) => Queryable(t, i, t[j].kind)
    <2>1. i \in 1 .. Len(s) - 1 /\ i + 1 \in DOMAIN s /\ t[i] = s[i + 1] /\ i \in Nat
      BY <1>2
    <2>2. /\ s[i + 1].op \in {"param", "execute", "query"} => kind # "none" \/ Prepared(s, 1, i + 1)
          /\ s[i + 1].op \in {"num_rows", "fetch", "each", "fetch_proc", "get64", "get32"} =>
                \/ queried /\ ~Prepared(s, 1, i + 1)
                \/ \E j \in 1 .. (i + 1) - 1 : s[j].op = "query" /\ ~Prepared(s, j, i + 1)
          /\ s[i + 1].op \in {"fetch", "each"} => i + 1 < Len(s) /\ s[(i + 1) + 1].op \in {"get64", "get32"}
          /\ s[i + 1].op = "query" =>
                /\ ~Prepared(s, 1, i + 1) => Queryable(s, i + 1, kind)
                /\ \A j \in 1 .. (i + 1) - 1 :
                      s[j].op = "prepare" /\ ~Prepared(s, j + 1, i + 1) => Queryable(s, i + 1, s[j].kind)
      BY <2>1 DEF WellUsed
    <2>3. t[i].op \in {"param", "execute", "query"} => k # "none" \/ Prepared(t, 1, i)
      <3>1. s[1].op = "prepare" => s[1].kind # "none"
        <4>1. s[1] \in Steps
          BY <1>2
        <4> QED BY <4>1 DEF Steps, QueryKinds
      <3>2. kind # "none" \/ s[1].op = "prepare" => k # "none"
        BY <3>1
      <3> QED BY <1>4, <2>1, <2>2, <3>2
    <2>4. ASSUME t[i].op \in {"num_rows", "fetch", "each", "fetch_proc", "get64", "get32"}
          PROVE  \/ q /\ ~Prepared(t, 1, i)
                 \/ \E j \in 1 .. i - 1 : t[j].op = "query" /\ ~Prepared(t, j, i)
      <3>1. CASE queried /\ ~Prepared(s, 1, i + 1)
        BY <1>4, <2>1, <3>1
      <3>2. ASSUME NEW j \in 1 .. (i + 1) - 1, s[j].op = "query", ~Prepared(s, j, i + 1)
            PROVE  \/ q /\ ~Prepared(t, 1, i)
                   \/ \E m \in 1 .. i - 1 : t[m].op = "query" /\ ~Prepared(t, m, i)
        <4>1. CASE j = 1
          BY <1>4, <2>1, <3>2, <4>1
        <4>2. CASE j # 1
          <5>1. PICK m : m = j - 1
            OBVIOUS
          <5>2. m \in 1 .. i - 1 /\ m \in 1 .. Len(s) - 1 /\ m \in 1 .. i /\ m + 1 = j
            BY <1>2, <2>1, <3>2, <4>2, <5>1
          <5>3. t[m].op = "query" /\ ~Prepared(t, m, i)
            BY <1>2, <1>3, <2>1, <3>2, <5>2
          <5> QED BY <5>2, <5>3
        <4> QED BY <4>1, <4>2
      <3> QED BY <2>1, <2>2, <2>4, <3>1, <3>2
    <2>5. ASSUME t[i].op \in {"fetch", "each"}
          PROVE  i < Len(t) /\ t[i + 1].op \in {"get64", "get32"}
      <3>1. i + 1 < Len(s) /\ s[(i + 1) + 1].op \in {"get64", "get32"}
        BY <2>1, <2>2, <2>5
      <3>2. i < Len(t) /\ i + 1 \in 1 .. Len(s) - 1
        BY <1>2, <2>1, <3>1
      <3> QED BY <1>2, <3>1, <3>2
    <2>6. ASSUME t[i].op = "query", ~Prepared(t, 1, i)
          PROVE  Queryable(t, i, k)
      <3>1. CASE s[1].op = "prepare"
        <4>1. 1 \in 1 .. (i + 1) - 1 /\ 1 \in 1 .. i
          BY <2>1
        <4>2. ~Prepared(s, 1 + 1, i + 1)
          BY <1>3, <2>1, <2>6, <4>1
        <4>3. Queryable(s, i + 1, s[1].kind)
          BY <2>1, <2>2, <2>6, <3>1, <4>1, <4>2
        <4> QED BY <1>5, <2>1, <3>1, <4>3
      <3>2. CASE s[1].op # "prepare"
        <4>1. Queryable(s, i + 1, kind)
          BY <1>4, <2>1, <2>2, <2>6, <3>2
        <4> QED BY <1>5, <2>1, <3>2, <4>1
      <3> QED BY <3>1, <3>2
    <2>7. ASSUME t[i].op = "query", NEW j \in 1 .. i - 1, t[j].op = "prepare", ~Prepared(t, j + 1, i)
          PROVE  Queryable(t, i, t[j].kind)
      <3>1. j + 1 \in 1 .. (i + 1) - 1 /\ j + 1 \in 1 .. i /\ j \in 1 .. Len(s) - 1
        BY <1>2, <2>1
      <3>2. s[j + 1].op = "prepare" /\ s[j + 1].kind = t[j].kind
        BY <1>2, <2>7, <3>1
      <3>3. ~Prepared(s, (j + 1) + 1, i + 1)
        BY <1>3, <2>1, <2>7, <3>1
      <3>4. Queryable(s, i + 1, s[j + 1].kind)
        BY <2>1, <2>2, <2>7, <3>1, <3>2, <3>3
      <3> QED BY <1>5, <2>1, <3>2, <3>4
    <2> QED BY <2>3, <2>4, <2>5, <2>6, <2>7
  <1> HIDE DEF WellUsed
  <1>7. WellUsed(t, k, q)
    BY <1>6 DEF WellUsed
  <1> QED BY <1>1, <1>7

\* A loop goes back to its fetch.
LEMMA WellUsedLoop ==
    ASSUME NEW s \in Seq(Steps), s # <<>>, NEW kind, NEW q \in BOOLEAN, WellUsed(s, kind, q),
           s[1].op \in {"get64", "get32"}
    PROVE  q /\ WellUsed(<<[op |-> "each"]>> \o s, kind, q) /\ <<[op |-> "each"]>> \o s \in Seq(Steps)
  <1>1. PICK e : e = [op |-> "each"]
    OBVIOUS
  <1>2. e \in Steps /\ e.op = "each"
    BY <1>1 DEF Steps
  <1>3. PICK u : u = <<e>> \o s
    OBVIOUS
  <1>4. /\ u \in Seq(Steps) /\ u # <<>> /\ Len(s) \in Nat /\ Len(s) > 0 /\ Len(u) = Len(s) + 1
        /\ DOMAIN u = 1 .. Len(s) + 1 /\ DOMAIN s = 1 .. Len(s) /\ u[1] = e
        /\ \A i \in 1 .. Len(s) : u[i + 1] = s[i]
    BY <1>2, <1>3
  <1>5. s = Tail(u)
    BY <1>2, <1>3
  <1>6. q
    <2>1. 1 \in DOMAIN s
      BY <1>4
    <2>2. q \/ \E j \in 1 .. 1 - 1 : s[j].op = "query" /\ ~Prepared(s, j, 1)
      BY <2>1 DEF WellUsed
    <2> QED BY <2>2
  <1>7. /\ \A i \in 1 .. Len(s) : \A j \in 1 .. i : Prepared(s, j, i) <=> Prepared(u, j + 1, i + 1)
        /\ \A i \in 1 .. Len(s) : Prepared(u, 1, i + 1) <=> Prepared(s, 1, i)
    <2>1. Len(u) - 1 = Len(s) /\ u[1].op # "prepare"
      BY <1>2, <1>4
    <2> QED BY <1>4, <1>5, <2>1, PreparedShift
  <1>8. ASSUME NEW i \in 1 .. Len(s), NEW x, Queryable(s, i, x)
        PROVE  Queryable(u, i + 1, x)
    <2>1. CASE x # "select"
      <3>1. i < Len(s) /\ s[i + 1].op = "fetch_proc" /\ x \in QueryKinds
        BY <1>8, <2>1 DEF Queryable
      <3>2. i + 1 < Len(u) /\ i + 1 \in 1 .. Len(s)
        BY <1>4, <3>1
      <3>3. u[(i + 1) + 1].op = "fetch_proc"
        BY <1>4, <3>1, <3>2
      <3> QED BY <3>1, <3>2, <3>3 DEF Queryable
    <2>2. CASE x = "select"
      BY <2>2 DEF Queryable, QueryKinds
    <2> QED BY <2>1, <2>2
  <1>9. ASSUME NEW n \in DOMAIN u
        PROVE  /\ u[n].op \in {"param", "execute", "query"} => kind # "none" \/ Prepared(u, 1, n)
               /\ u[n].op \in {"num_rows", "fetch", "each", "fetch_proc", "get64", "get32"} =>
                     \/ q /\ ~Prepared(u, 1, n)
                     \/ \E j \in 1 .. n - 1 : u[j].op = "query" /\ ~Prepared(u, j, n)
               /\ u[n].op \in {"fetch", "each"} => n < Len(u) /\ u[n + 1].op \in {"get64", "get32"}
               /\ u[n].op = "query" =>
                     /\ ~Prepared(u, 1, n) => Queryable(u, n, kind)
                     /\ \A j \in 1 .. n - 1 :
                           u[j].op = "prepare" /\ ~Prepared(u, j + 1, n) => Queryable(u, n, u[j].kind)
    <2>1. CASE n = 1
      <3>1. u[1].op = "each" /\ 1 < Len(u) /\ 1 \in 1 .. Len(s)
        BY <1>2, <1>4
      <3>2. u[1 + 1] = s[1]
        BY <1>4, <3>1
      <3>3. ~Prepared(u, 1, 1)
        BY DEF Prepared
      <3> QED BY <1>6, <2>1, <3>1, <3>2, <3>3
    <2>2. CASE n # 1
      <3>1. PICK i : i = n - 1
        OBVIOUS
      <3>2. i \in 1 .. Len(s) /\ i \in DOMAIN s /\ n = i + 1 /\ u[n] = s[i] /\ i \in Nat
        BY <1>4, <2>2, <3>1
      <3>3. /\ s[i].op \in {"param", "execute", "query"} => kind # "none" \/ Prepared(s, 1, i)
            /\ s[i].op \in {"num_rows", "fetch", "each", "fetch_proc", "get64", "get32"} =>
                  \/ q /\ ~Prepared(s, 1, i)
                  \/ \E j \in 1 .. i - 1 : s[j].op = "query" /\ ~Prepared(s, j, i)
            /\ s[i].op \in {"fetch", "each"} => i < Len(s) /\ s[i + 1].op \in {"get64", "get32"}
            /\ s[i].op = "query" =>
                  /\ ~Prepared(s, 1, i) => Queryable(s, i, kind)
                  /\ \A j \in 1 .. i - 1 :
                        s[j].op = "prepare" /\ ~Prepared(s, j + 1, i) => Queryable(s, i, s[j].kind)
        BY <3>2 DEF WellUsed
      <3>4. u[n].op \in {"param", "execute", "query"} => kind # "none" \/ Prepared(u, 1, n)
        BY <1>7, <3>2, <3>3
      <3>5. ASSUME u[n].op \in {"fetch", "each"}
            PROVE  n < Len(u) /\ u[n + 1].op \in {"get64", "get32"}
        <4>1. i < Len(s) /\ s[i + 1].op \in {"get64", "get32"}
          BY <3>2, <3>3, <3>5
        <4>2. i + 1 \in 1 .. Len(s)
          BY <1>4, <3>2, <4>1
        <4>3. u[(i + 1) + 1] = s[i + 1]
          BY <1>4, <4>2
        <4> QED BY <1>4, <3>2, <4>1, <4>3
      <3>6. u[n].op = "query" /\ ~Prepared(u, 1, n) => Queryable(u, n, kind)
        BY <1>7, <1>8, <3>2, <3>3
      <3>7. ASSUME u[n].op = "query", NEW j \in 1 .. n - 1, u[j].op = "prepare", ~Prepared(u, j + 1, n)
            PROVE  Queryable(u, n, u[j].kind)
        <4>1. j # 1
          BY <1>2, <1>4, <3>7
        <4>2. PICK m : m = j - 1
          OBVIOUS
        <4>3. m \in 1 .. i - 1 /\ m + 1 = j /\ m \in 1 .. Len(s) /\ m + 1 \in 1 .. i
          BY <1>4, <3>2, <4>1, <4>2
        <4>4. u[j] = s[m]
          BY <1>4, <4>3
        <4>5. ~Prepared(s, m + 1, i)
          BY <1>7, <3>2, <3>7, <4>3
        <4>6. Queryable(s, i, s[m].kind)
          BY <3>2, <3>3, <3>7, <4>3, <4>4, <4>5
        <4> QED BY <1>8, <3>2, <4>4, <4>6
      <3>8. ASSUME u[n].op \in {"num_rows", "fetch", "each", "fetch_proc", "get64", "get32"}
            PROVE  \/ q /\ ~Prepared(u, 1, n)
                   \/ \E j \in 1 .. n - 1 : u[j].op = "query" /\ ~Prepared(u, j, n)
        <4>1. CASE q /\ ~Prepared(s, 1, i)
          BY <1>7, <3>2, <4>1
        <4>2. ASSUME NEW j \in 1 .. i - 1, s[j].op = "query", ~Prepared(s, j, i)
              PROVE  \E m \in 1 .. n - 1 : u[m].op = "query" /\ ~Prepared(u, m, n)
          <5>1. j \in 1 .. i /\ j \in 1 .. Len(s) /\ j + 1 \in 1 .. n - 1
            BY <1>4, <3>2, <4>2
          <5>2. u[j + 1].op = "query" /\ ~Prepared(u, j + 1, n)
            BY <1>4, <1>7, <3>2, <4>2, <5>1
          <5> QED BY <5>1, <5>2
        <4> QED BY <3>2, <3>3, <3>8, <4>1, <4>2
      <3> QED BY <3>4, <3>5, <3>6, <3>7, <3>8
    <2> QED BY <2>1, <2>2
  <1>10. WellUsed(u, kind, q)
    BY <1>9 DEF WellUsed
  <1> QED BY <1>1, <1>3, <1>4, <1>6, <1>10

\* What a loop without rows skips: its fetch and the reading of a column.
LEMMA WellUsedSkip ==
    ASSUME NEW s \in Seq(Steps), s # <<>>, NEW kind, NEW q \in BOOLEAN, WellUsed(s, kind, q),
           s[1].op \in {"fetch", "each"}
    PROVE  WellUsed(SubSeq(s, 3, Len(s)), kind, q) /\ SubSeq(s, 3, Len(s)) \in Seq(Steps)
  <1>1. PICK t : t = Tail(s)
    OBVIOUS
  <1>2. /\ Len(s) \in Nat /\ Len(s) > 0 /\ DOMAIN s = 1 .. Len(s) /\ t \in Seq(Steps) /\ Len(t) = Len(s) - 1
        /\ \A i \in 1 .. Len(s) - 1 : t[i] = s[i + 1]
    BY <1>1, TailFacts
  <1>3. 1 < Len(s) /\ s[1 + 1].op \in {"get64", "get32"}
    <2>1. 1 \in DOMAIN s
      BY <1>2
    <2> QED BY <2>1 DEF WellUsed
  <1>4. t # <<>> /\ t[1].op \in {"get64", "get32"}
    <2>1. 1 \in 1 .. Len(s) - 1 /\ Len(t) # 0
      BY <1>2, <1>3
    <2> QED BY <1>2, <1>3, <2>1
  <1>5. WellUsed(t, kind, q)
    BY <1>1, WellUsedTail
  <1>6. WellUsed(Tail(t), kind, q)
    BY <1>2, <1>4, <1>5, WellUsedTail
  <1>7. SubSeq(s, 3, Len(s)) = Tail(t) /\ Tail(t) \in Seq(Steps)
    BY <1>1, <1>2, <1>4
  <1> QED BY <1>6, <1>7

\* The same three facts for the script of the invariant.
LEMMA FitsNext ==
    ASSUME NEW s \in Seq(Steps), s # <<>>, NEW kind, NEW result \in BOOLEAN, Fits(s, kind, result)
    PROVE  /\ s[1].op \notin {"prepare", "query"} => Fits(Tail(s), kind, result)
           /\ s[1].op = "prepare" => Fits(Tail(s), s[1].kind, result)
           /\ s[1].op = "query" => Fits(Tail(s), kind, TRUE)
           /\ s[1].op \in {"get64", "get32"} =>
                 Fits(<<[op |-> "each"]>> \o s, kind, result) /\ <<[op |-> "each"]>> \o s \in Seq(Steps)
           /\ s[1].op \in {"fetch", "each"} =>
                 Fits(SubSeq(s, 3, Len(s)), kind, result) /\ SubSeq(s, 3, Len(s)) \in Seq(Steps)
  <1>1. PICK q \in BOOLEAN : WellUsed(s, kind, q) /\ (q => result)
    BY DEF Fits
  <1>2. PICK k : k = IF s[1].op = "prepare" THEN s[1].kind ELSE kind
    OBVIOUS
  <1>3. PICK r \in BOOLEAN : r = (s[1].op # "prepare" /\ (q \/ s[1].op = "query"))
    OBVIOUS
  <1>4. WellUsed(Tail(s), k, r)
    BY <1>1, <1>2, <1>3, WellUsedTail
  <1>5. s[1].op \notin {"prepare", "query"} => Fits(Tail(s), kind, result)
    BY <1>1, <1>2, <1>3, <1>4 DEF Fits
  <1>6. s[1].op = "prepare" => Fits(Tail(s), s[1].kind, result)
    BY <1>2, <1>3, <1>4 DEF Fits
  <1>7. s[1].op = "query" => Fits(Tail(s), kind, TRUE)
    BY <1>2, <1>3, <1>4 DEF Fits
  <1>8. s[1].op \in {"get64", "get32"} =>
           Fits(<<[op |-> "each"]>> \o s, kind, result) /\ <<[op |-> "each"]>> \o s \in Seq(Steps)
    BY <1>1, WellUsedLoop DEF Fits
  <1>9. s[1].op \in {"fetch", "each"} =>
           Fits(SubSeq(s, 3, Len(s)), kind, result) /\ SubSeq(s, 3, Len(s)) \in Seq(Steps)
    BY <1>1, WellUsedSkip DEF Fits
  <1> QED BY <1>5, <1>6, <1>7, <1>8, <1>9

-----------------------------------------------------------------------------
(* Handles                                                                 *)

Close(hs, h) == IF h = 0 THEN hs ELSE [hs EXCEPT ![h] = @ + 1]

\* Deleting an object closes its handle.
LEMMA DeletedIsClose ==
    ASSUME NEW hs
    PROVE  Deleted(hs, stmt) = Close(hs, StmtHandle) /\ Deleted(hs, rs) = Close(hs, RsHandle)
  BY DEF Deleted, Close, StmtHandle, RsHandle

\* Closing a handle changes the count of that one only.
LEMMA CloseFacts ==
    ASSUME NEW hs \in Seq(Nat), NEW h \in 0 .. Len(hs)
    PROVE  /\ Close(hs, h) \in Seq(Nat) /\ Len(Close(hs, h)) = Len(hs)
           /\ \A i \in 1 .. Len(hs) : Close(hs, h)[i] = IF i = h THEN hs[i] + 1 ELSE hs[i]
  BY DEF Close

\* A pointer that is reset to a new object: its old handle is closed.
LEMMA OwnedReset ==
    ASSUME NEW hs \in Seq(Nat), NEW a, NEW b, Owned(hs, a, b)
    PROVE  /\ Owned(Append(Close(hs, a), 0), Len(hs) + 1, b)
           /\ Owned(Append(Close(hs, b), 0), a, Len(hs) + 1)
           /\ Owned(Close(hs, b), a, 0)
           /\ Append(Close(hs, a), 0) \in Seq(Nat) /\ Append(Close(hs, b), 0) \in Seq(Nat) /\ Close(hs, b) \in Seq(Nat)
  <1>1. Len(hs) \in Nat /\ a \in 0 .. Len(hs) /\ b \in 0 .. Len(hs) /\ (a = b => b = 0)
    BY DEF Owned
  <1>2. \A h \in 1 .. Len(hs) : hs[h] = IF h \in {a, b} THEN 0 ELSE 1
    BY DEF Owned
  <1>3. PICK x : x = Close(hs, a)
    OBVIOUS
  <1>4. PICK y : y = Close(hs, b)
    OBVIOUS
  <1>5. /\ x \in Seq(Nat) /\ Len(x) = Len(hs)
        /\ \A i \in 1 .. Len(hs) : x[i] = IF i = a THEN hs[i] + 1 ELSE hs[i]
    BY <1>1, <1>3, CloseFacts
  <1>6. /\ y \in Seq(Nat) /\ Len(y) = Len(hs)
        /\ \A i \in 1 .. Len(hs) : y[i] = IF i = b THEN hs[i] + 1 ELSE hs[i]
    BY <1>1, <1>4, CloseFacts
  <1>7. Owned(Append(x, 0), Len(hs) + 1, b)
    <2>1. ASSUME NEW h \in 1 .. Len(hs) + 1
          PROVE  Append(x, 0)[h] = IF h \in {Len(hs) + 1, b} THEN 0 ELSE 1
      <3>1. CASE h = Len(hs) + 1
        BY <1>5, <3>1
      <3>2. CASE h # Len(hs) + 1
        <4>0. h \in 1 .. Len(hs)
          BY <1>1, <3>2
        <4>1. h \in 1 .. Len(hs) /\ Append(x, 0)[h] = x[h]
          BY <1>5, <4>0
        <4>2. hs[h] = IF h \in {a, b} THEN 0 ELSE 1
          BY <1>2, <4>1
        <4>3. x[h] = IF h = a THEN hs[h] + 1 ELSE hs[h]
          BY <1>5, <4>1
        <4>4. h # 0 /\ h \in Nat
          BY <1>1, <4>1
        <4>5. CASE h = a
          <5>1. h # b /\ hs[h] = 0
            BY <1>1, <4>2, <4>4, <4>5
          <5>2. x[h] = 1
            BY <4>3, <4>5, <5>1
          <5> QED BY <3>2, <4>1, <5>1, <5>2
        <4>6. CASE h # a
          <5>1. x[h] = IF h = b THEN 0 ELSE 1
            BY <4>2, <4>3, <4>6
          <5> QED BY <3>2, <4>1, <5>1
        <4> QED BY <4>5, <4>6
      <3> QED BY <3>1, <3>2
    <2>2. Len(Append(x, 0)) = Len(hs) + 1
      BY <1>5
    <2>3. Len(hs) + 1 \in 0 .. Len(hs) + 1 /\ b \in 0 .. Len(hs) + 1 /\ Len(hs) + 1 # b
      BY <1>1
    <2> QED BY <2>1, <2>2, <2>3 DEF Owned
  <1>8. Owned(Append(y, 0), a, Len(hs) + 1)
    <2>1. ASSUME NEW h \in 1 .. Len(hs) + 1
          PROVE  Append(y, 0)[h] = IF h \in {a, Len(hs) + 1} THEN 0 ELSE 1
      <3>1. CASE h = Len(hs) + 1
        BY <1>6, <3>1
      <3>2. CASE h # Len(hs) + 1
        <4>0. h \in 1 .. Len(hs)
          BY <1>1, <3>2
        <4>1. h \in 1 .. Len(hs) /\ Append(y, 0)[h] = y[h]
          BY <1>6, <4>0
        <4>2. hs[h] = IF h \in {a, b} THEN 0 ELSE 1
          BY <1>2, <4>1
        <4>3. y[h] = IF h = b THEN hs[h] + 1 ELSE hs[h]
          BY <1>6, <4>1
        <4>4. h # 0 /\ h \in Nat
          BY <1>1, <4>1
        <4>5. CASE h = b
          <5>1. h # a /\ hs[h] = 0
            BY <1>1, <4>2, <4>4, <4>5
          <5>2. y[h] = 1
            BY <4>3, <4>5, <5>1
          <5> QED BY <3>2, <4>1, <5>1, <5>2
        <4>6. CASE h # b
          <5>1. y[h] = IF h = a THEN 0 ELSE 1
            BY <4>2, <4>3, <4>6
          <5> QED BY <3>2, <4>1, <5>1
        <4> QED BY <4>5, <4>6
      <3> QED BY <3>1, <3>2
    <2>2. Len(Append(y, 0)) = Len(hs) + 1
      BY <1>6
    <2>3. Len(hs) + 1 \in 0 .. Len(hs) + 1 /\ a \in 0 .. Len(hs) + 1 /\ Len(hs) + 1 # a
      BY <1>1
    <2> QED BY <2>1, <2>2, <2>3 DEF Owned
  <1>9. Owned(y, a, 0)
    <2>1. ASSUME NEW h \in 1 .. Len(hs)
          PROVE  y[h] = IF h \in {a, 0} THEN 0 ELSE 1
      <3>1. hs[h] = IF h \in {a, b} THEN 0 ELSE 1
        BY <1>2
      <3>2. y[h] = IF h = b THEN hs[h] + 1 ELSE hs[h]
        BY <1>6
      <3>3. h # 0
        BY <1>1
      <3> QED BY <1>1, <3>1, <3>2, <3>3
    <2> QED BY <1>1, <1>6, <2>1 DEF Owned
  <1> QED BY <1>3, <1>4, <1>5, <1>6, <1>7, <1>8, <1>9

\* A handle that was opened and closed again by a constructor.
LEMMA OwnedThrown ==
    ASSUME NEW hs \in Seq(Nat), NEW a, NEW b, Owned(hs, a, b)
    PROVE  Owned(Append(hs, 1), a, b) /\ Append(hs, 1) \in Seq(Nat)
  <1>1. Len(hs) \in Nat /\ a \in 0 .. Len(hs) /\ b \in 0 .. Len(hs) /\ (a = b => b = 0)
    BY DEF Owned
  <1>2. \A h \in 1 .. Len(hs) : hs[h] = IF h \in {a, b} THEN 0 ELSE 1
    BY DEF Owned
  <1>3. ASSUME NEW h \in 1 .. Len(hs) + 1
        PROVE  Append(hs, 1)[h] = IF h \in {a, b} THEN 0 ELSE 1
    <2>1. CASE h = Len(hs) + 1
      <3>1. h # a /\ h # b
        BY <1>1, <2>1
      <3> QED BY <2>1, <3>1
    <2>2. CASE h # Len(hs) + 1
      <3>1. h \in 1 .. Len(hs) /\ Append(hs, 1)[h] = hs[h]
        BY <1>1, <2>2
      <3> QED BY <1>2, <3>1
    <2> QED BY <2>1, <2>2
  <1>4. Len(Append(hs, 1)) = Len(hs) + 1 /\ Append(hs, 1) \in Seq(Nat)
    OBVIOUS
  <1>5. a \in 0 .. Len(hs) + 1 /\ b \in 0 .. Len(hs) + 1
    BY <1>1
  <1> QED BY <1>1, <1>3, <1>4, <1>5 DEF Owned

\* The destructors of both pointers close what is open.
LEMMA OwnedClosed ==
    ASSUME NEW hs \in Seq(Nat), NEW a, NEW b, Owned(hs, a, b), NEW x, x = Close(Close(hs, b), a)
    PROVE  x \in Seq(Nat) /\ \A h \in 1 .. Len(x) : x[h] = 1
  <1>1. Close(hs, b) \in Seq(Nat) /\ Owned(Close(hs, b), a, 0)
    BY OwnedReset
  <1>2. PICK y : y = Close(hs, b)
    OBVIOUS
  <1>3. a \in 0 .. Len(y) /\ y \in Seq(Nat) /\ \A h \in 1 .. Len(y) : y[h] = IF h \in {a, 0} THEN 0 ELSE 1
    BY <1>1, <1>2 DEF Owned
  <1>4. /\ x \in Seq(Nat) /\ Len(x) = Len(y)
        /\ \A i \in 1 .. Len(y) : x[i] = IF i = a THEN y[i] + 1 ELSE y[i]
    BY <1>2, <1>3, CloseFacts
  <1>5. ASSUME NEW h \in 1 .. Len(y)
        PROVE  x[h] = 1
    <2>1. h # 0
      OBVIOUS
    <2>2. y[h] = IF h = a THEN 0 ELSE 1
      BY <1>3, <2>1
    <2> QED BY <1>4, <2>2
  <1> QED BY <1>4, <1>5

-----------------------------------------------------------------------------
(* Objects and answers                                                     *)

\* An object of the list keeps its place when one is added.
LEMMA AppendFacts ==
    ASSUME NEW S, NEW s \in Seq(S), NEW o \in S
    PROVE  /\ Append(s, o) \in Seq(S) /\ Len(Append(s, o)) = Len(s) + 1 /\ Append(s, o)[Len(s) + 1] = o
           /\ \A i \in 1 .. Len(s) : Append(s, o)[i] = s[i]
  OBVIOUS

\* An object that is changed, and the others.
LEMMA ExceptFacts ==
    ASSUME NEW S, NEW s \in Seq(S), NEW n \in 1 .. Len(s), NEW o \in S
    PROVE  /\ [s EXCEPT ![n] = o] \in Seq(S) /\ Len([s EXCEPT ![n] = o]) = Len(s) /\ [s EXCEPT ![n] = o][n] = o
           /\ \A i \in 1 .. Len(s) : i # n => [s EXCEPT ![n] = o][i] = s[i]
  OBVIOUS

\* A new statement, with its handle and the kind of its text.
LEMMA StatementFacts ==
    ASSUME NEW p \in Steps, p.op = "prepare", p.kind # "missing", NEW h \in Nat
    PROVE  /\ NewStatement(p, h) \in Objects /\ NewStatement(p, h).handle = h
           /\ NewStatement(p, h).kind = p.kind
  <1>1. p.kind \in QueryKinds \cup {"insert"} /\ p.params \in Nat
    BY DEF Steps
  <1> QED BY <1>1 DEF NewStatement, Objects

\* A result is its statement, and after fetch(true) it is what it was, with another handle.
LEMMA HandleFacts ==
    ASSUME NEW o \in Objects, NEW h \in Nat
    PROVE  /\ [o EXCEPT !.handle = h] \in Objects /\ [o EXCEPT !.handle = h].handle = h
           /\ [o EXCEPT !.handle = h].kind = o.kind
  BY DEF Objects

Sets == [kind : {"rows", "status"}, rows : Seq(Values)]

\* What the server sends for a statement: its first set is there, and a second
\* one only for a procedure, when the first has rows.
LEMMA AnswersFacts ==
    ASSUME NEW k \in QueryKinds, NEW sets \in Answers(k)
    PROVE  /\ sets \in Seq(Sets) /\ sets # <<>> /\ Head(sets) \in Sets /\ Tail(sets) \in Seq(Sets)
           /\ Tail(sets) = <<>> \/ (k # "select" /\ Head(sets).kind = "rows" /\ Len(Tail(sets)) = 1)
  <1>1. Status \in Sets
    BY DEF Status, Sets
  <1>2. \A rows \in Seq(Values) : RowSet(rows) \in Sets /\ RowSet(rows).kind = "rows"
    BY DEF RowSet, Sets
  <1>3. \A x, y \in Sets : /\ Head(<<x, y>>) = x /\ Tail(<<x, y>>) = <<y>> /\ Len(<<y>>) = 1
                           /\ <<x, y>> \in Seq(Sets) /\ <<y>> \in Seq(Sets)
    OBVIOUS
  <1>4. \A x \in Sets : Head(<<x>>) = x /\ Tail(<<x>>) = <<>> /\ <<x>> \in Seq(Sets) /\ <<>> \in Seq(Sets)
    OBVIOUS
  <1>5. CASE k = "select"
    <2>1. PICK rows \in RowSets : sets = <<RowSet(rows)>>
      BY <1>5 DEF Answers
    <2> QED BY <1>2, <1>4, <2>1, RowsAssumption
  <1>6. CASE k = "call"
    <2>1. \/ \E v \in UNION {Range(rows) : rows \in RowSets} : sets = <<RowSet(<<v>>), Status>>
          \/ sets = <<Status>>
      BY <1>6 DEF Answers
    <2>2. ASSUME NEW v \in UNION {Range(rows) : rows \in RowSets}, sets = <<RowSet(<<v>>), Status>>
          PROVE  RowSet(<<v>>) \in Sets /\ RowSet(<<v>>).kind = "rows"
      <3>1. PICK rows \in RowSets : v \in Range(rows)
        BY <2>2
      <3>2. rows \in Seq(Values)
        BY RowsAssumption
      <3>3. v \in Values
        BY <3>1, <3>2 DEF Range
      <3>4. <<v>> \in Seq(Values)
        BY <3>3
      <3> QED BY <1>2, <3>4
    <2>3. CASE \E v \in UNION {Range(rows) : rows \in RowSets} : sets = <<RowSet(<<v>>), Status>>
      <3>1. PICK v \in UNION {Range(rows) : rows \in RowSets} : sets = <<RowSet(<<v>>), Status>>
        BY <2>3
      <3>2. PICK r : r = RowSet(<<v>>)
        OBVIOUS
      <3>3. r \in Sets /\ r.kind = "rows" /\ sets = <<r, Status>>
        BY <2>2, <3>1, <3>2
      <3> QED BY <1>1, <1>3, <1>6, <3>3
    <2>4. CASE sets = <<Status>>
      BY <1>1, <1>4, <2>4
    <2> QED BY <2>1, <2>3, <2>4
  <1>7. CASE k = "call_unknown"
    <2>1. sets = <<RowSet(<<>>), Status>>
      BY <1>7 DEF Answers
    <2>2. <<>> \in Seq(Values)
      OBVIOUS
    <2>3. PICK r : r = RowSet(<<>>)
      OBVIOUS
    <2>4. r \in Sets /\ r.kind = "rows" /\ sets = <<r, Status>>
      BY <1>2, <2>1, <2>2, <2>3
    <2> QED BY <1>1, <1>3, <1>7, <2>4
  <1> QED BY <1>5, <1>6, <1>7 DEF QueryKinds

-----------------------------------------------------------------------------
(* A step of a route                                                       *)

\* What the invariant says at a step, by its operation.
LEMMA StepFacts ==
    ASSUME IInv, NEW op, Step(op)
    PROVE  /\ pc = "route" /\ script \in Seq(Steps) /\ script # <<>> /\ Head(script) = script[1] /\ Head(script).op = op
           /\ Head(script) \in Steps /\ Tail(script) \in Seq(Steps)
           /\ Fits(script, Kind, rs # 0) /\ Owned(handles, StmtHandle, RsHandle) /\ handles \in Seq(Nat)
           /\ in_sync /\ (wire # <<>> => stmt # 0 /\ op = "fetch_proc" /\ Len(wire) = 1)
           /\ (stmt = rs => rs = 0)
           /\ op \in {"param", "execute", "query"} => stmt # 0
           /\ op \in {"num_rows", "fetch", "each", "fetch_proc", "get64", "get32"} => rs # 0
           /\ op = "query" => Queryable(script, 1, Kind)
           /\ op \notin {"prepare", "query"} => Fits(Tail(script), Kind, rs # 0)
           /\ op = "query" => Fits(Tail(script), Kind, TRUE)
           /\ op = "prepare" => Fits(Tail(script), Head(script).kind, rs # 0)
  <1>1. pc = "route" /\ script \in Seq(Steps) /\ script # <<>> /\ Head(script).op = op /\ handles \in Seq(Nat)
    BY DEF IInv, TypeOK, Step
  <1>2. Tail(script) \in Seq(Steps) /\ Head(script) = script[1] /\ Head(script) \in Steps /\ 1 \in DOMAIN script
    BY <1>1, TailFacts
  <1>3. Fits(script, Kind, rs # 0) /\ (stmt = rs => rs = 0)
    BY <1>1 DEF IInv, ScriptSound
  <1>31. PICK q \in BOOLEAN : WellUsed(script, Kind, q) /\ (q => rs # 0)
    BY <1>3 DEF Fits
  <1>4. Owned(handles, StmtHandle, RsHandle)
    BY <1>1 DEF IInv, HandlesSound
  <1>5. in_sync /\ (wire # <<>> => stmt # 0 /\ op = "fetch_proc" /\ Len(wire) = 1)
    BY <1>1 DEF IInv, WireSound
  <1>6. ~Prepared(script, 1, 1)
    BY DEF Prepared
  <1>7. op \in {"param", "execute", "query"} => stmt # 0
    BY <1>1, <1>2, <1>31, <1>6 DEF WellUsed, Kind
  <1>8. op \in {"num_rows", "fetch", "each", "fetch_proc", "get64", "get32"} => rs # 0
    <2>1. 1 .. 1 - 1 = {}
      OBVIOUS
    <2>2. op \in {"num_rows", "fetch", "each", "fetch_proc", "get64", "get32"} =>
             q \/ \E j \in 1 .. 1 - 1 : script[j].op = "query" /\ ~Prepared(script, j, 1)
      BY <1>1, <1>2, <1>31 DEF WellUsed
    <2> QED BY <1>31, <2>1, <2>2
  <1>9. op = "query" => Queryable(script, 1, Kind)
    BY <1>1, <1>2, <1>31, <1>6 DEF WellUsed
  <1>10. PICK result \in BOOLEAN : result = (rs # 0)
    OBVIOUS
  <1>11. Fits(script, Kind, result)
    BY <1>3, <1>10
  <1>12. /\ script[1].op \notin {"prepare", "query"} => Fits(Tail(script), Kind, result)
         /\ script[1].op = "prepare" => Fits(Tail(script), script[1].kind, result)
         /\ script[1].op = "query" => Fits(Tail(script), Kind, TRUE)
    BY <1>1, <1>11, FitsNext
  <1>15. /\ op \notin {"prepare", "query"} => Fits(Tail(script), Kind, rs # 0)
         /\ op = "prepare" => Fits(Tail(script), Head(script).kind, rs # 0)
    BY <1>1, <1>2, <1>10, <1>12
  <1>16. op = "query" => Fits(Tail(script), Kind, TRUE)
    BY <1>1, <1>2, <1>12
  <1> QED BY <1>1, <1>2, <1>3, <1>4, <1>5, <1>7, <1>8, <1>9, <1>15, <1>16

\* The invariant of handles from what they are after a step.
LEMMA HandlesNext ==
    ASSUME NEW hs, NEW a, NEW b, Owned(hs, a, b), hs = handles', a = StmtHandle', b = RsHandle', pc' = "route"
    PROVE  HandlesSound'
  BY DEF HandlesSound, Owned

\* The same for the script.
LEMMA ScriptNext ==
    ASSUME NEW s, NEW k, NEW q, Fits(s, k, q), s = script', k = Kind', q = (rs' # 0), stmt' = rs' => rs' = 0
    PROVE  ScriptSound'
  <1>1. Fits(script', Kind', rs' # 0)
    OBVIOUS
  <1>2. Fits(script, Kind, rs # 0)'
    BY <1>1, Zenon DEF Fits, WellUsed, Prepared, Queryable
  <1> QED BY <1>2 DEF ScriptSound

\* A route that an exception leaves has nothing left to do.
LEMMA NothingLeft ==
    ASSUME NEW k, NEW q
    PROVE  Fits(<<>>, k, q)
  <1>1. WellUsed(<<>>, k, FALSE)
    BY DEF WellUsed
  <1> QED BY <1>1 DEF Fits

\* The buffers, while the pointer to the result and what it reads stay.
LEMMA BuffersKept ==
    ASSUME IInv, pc = "route", script # <<>>, UNCHANGED <<rs, rowvars>>
    PROVE  BuffersSound' /\ UNCHANGED <<cursor, columns, buffers>>
  BY DEF IInv, BuffersSound, rowvars

\* What was read last, while it stays.
LEMMA ReadKept ==
    ASSUME IInv, UNCHANGED got
    PROVE  RowAsStored'
  BY DEF IInv, RowAsStored

\* The pointers and their objects keep their kind and their handles when
\* the objects do.
LEMMA PointersKept ==
    ASSUME stmt' = stmt, rs' = rs, stmt \in 0 .. Len(objects), rs \in 0 .. Len(objects), Len(objects) \in Nat,
           \A i \in 1 .. Len(objects) : objects'[i].handle = objects[i].handle /\ objects'[i].kind = objects[i].kind
    PROVE  StmtHandle' = StmtHandle /\ RsHandle' = RsHandle /\ Kind' = Kind
  <1>1. stmt # 0 => stmt \in 1 .. Len(objects)
    OBVIOUS
  <1>2. rs # 0 => rs \in 1 .. Len(objects)
    OBVIOUS
  <1> QED BY <1>1, <1>2 DEF StmtHandle, RsHandle, Kind

\* Steps that touch neither objects nor handles.
LEMMA QuietSteps ==
    ASSUME IInv, NEW op, Step(op),
           Execute \/ ExecuteFails \/ NumRows \/ Get \/ GetFails
    PROVE  IInv'
  <1>1. /\ pc = "route" /\ script \in Seq(Steps) /\ script # <<>> /\ Head(script) = script[1] /\ Head(script).op = op
        /\ Head(script) \in Steps /\ Tail(script) \in Seq(Steps)
        /\ Fits(script, Kind, rs # 0) /\ Owned(handles, StmtHandle, RsHandle) /\ handles \in Seq(Nat)
        /\ in_sync /\ (wire # <<>> => stmt # 0 /\ op = "fetch_proc" /\ Len(wire) = 1)
        /\ (stmt = rs => rs = 0)
        /\ op \in {"num_rows", "fetch", "each", "fetch_proc", "get64", "get32"} => rs # 0
        /\ op \notin {"prepare", "query"} => Fits(Tail(script), Kind, rs # 0)
    BY StepFacts
  <1>2. UNCHANGED <<pc, requests, objects, statements, results, stmt, rs, handles, wire, rowvars>>
    BY DEF Execute, ExecuteFails, NumRows, Get, GetFails, Continue, Leave
  <1>3. StmtHandle' = StmtHandle /\ RsHandle' = RsHandle /\ Kind' = Kind
    BY <1>2 DEF StmtHandle, RsHandle, Kind
  <1>4. op \in {"execute", "query", "num_rows", "get64", "get32"}
    BY <1>1 DEF Execute, ExecuteFails, NumRows, Get, GetFails, Step
  <1>5. HandlesSound'
    BY <1>1, <1>2, <1>3, HandlesNext
  <1>6. WireSound'
    <2>1. wire = <<>> /\ in_sync'
      BY <1>1, <1>4 DEF Execute, ExecuteFails, NumRows, Get, GetFails
    <2> QED BY <1>1, <1>2, <2>1 DEF WireSound
  <1>7. \/ script' = <<>>
        \/ script' = Tail(script) /\ op # "query"
        \/ script' = <<[op |-> "each"]>> \o script /\ op \in {"get64", "get32"}
    BY <1>1 DEF Execute, ExecuteFails, NumRows, Get, GetFails, Continue, Leave, Step
  <1>8. script' \in Seq(Steps) /\ Fits(script', Kind, rs # 0)
    <2>1. CASE script' = <<>>
      BY <2>1, NothingLeft
    <2>2. CASE script' = Tail(script) /\ op # "query"
      BY <1>1, <1>4, <2>2
    <2>3. CASE script' = <<[op |-> "each"]>> \o script /\ op \in {"get64", "get32"}
      <3>1. PICK q \in BOOLEAN : q = (rs # 0)
        OBVIOUS
      <3>2. Fits(script, Kind, q) /\ script[1].op \in {"get64", "get32"}
        BY <1>1, <2>3, <3>1
      <3>3. Fits(<<[op |-> "each"]>> \o script, Kind, q) /\ <<[op |-> "each"]>> \o script \in Seq(Steps)
        BY <1>1, <3>2, FitsNext
      <3> QED BY <2>3, <3>1, <3>3
    <2> QED BY <1>7, <2>1, <2>2, <2>3
  <1>9. ScriptSound'
    <2>1. PICK s : s = script'
      OBVIOUS
    <2>2. PICK q : q = (rs # 0)
      OBVIOUS
    <2>3. Fits(s, Kind, q)
      BY <1>8, <2>1, <2>2
    <2> QED BY <1>1, <1>2, <1>3, <2>1, <2>2, <2>3, ScriptNext
  <1>10. got' \in [value : Values, row : Values, wide : BOOLEAN] /\ in_sync' \in BOOLEAN /\ RowAsStored'
    <2>1. /\ got \in [value : Values, row : Values, wide : BOOLEAN] /\ in_sync \in BOOLEAN
          /\ buffers \in Seq(Values) /\ cursor.current \in Values
      BY DEF IInv, TypeOK
    <2>2. CASE ~Get
      <3>1. UNCHANGED got /\ in_sync' \in BOOLEAN
        BY <2>1, <2>2 DEF Execute, ExecuteFails, NumRows, GetFails
      <3> QED BY <2>1, <3>1, ReadKept
    <2>3. CASE Get
      <3>1. rs # 0
        BY <1>1, <2>3 DEF Get, Step
      <3>2. columns \in 1 .. Len(buffers) /\ buffers[columns] = cursor.current
        BY <1>1, <3>1 DEF IInv, BuffersSound
      <3>3. PICK c : c = cursor.current
        OBVIOUS
      <3>4. PICK wide \in BOOLEAN : wide = (Head(script).op = "get64")
        OBVIOUS
      <3>5. PICK v : v = IF wide THEN Wide(c) ELSE Narrow(c)
        OBVIOUS
      <3>6. got' = [value |-> v, row |-> c, wide |-> wide] /\ in_sync' = in_sync
        BY <2>3, <3>2, <3>3, <3>4, <3>5 DEF Get
      <3>7. c \in Values
        BY <2>1, <3>3
      <3>8. /\ v \in Values /\ (wide => v = c)
            /\ ~wide => v.low = c.low /\ (c.low \in 0 .. 127 /\ c.high = 0 => v = c)
        <4>1. CASE wide
          BY <3>5, <3>7, <4>1 DEF Wide
        <4>2. CASE ~wide
          <5>1. PICK n \in Int : n = IF c.low < 128 THEN 0 ELSE SignBytes
            BY <3>7 DEF SignBytes, Values
          <5>2. v = [c EXCEPT !.high = n]
            BY <3>5, <4>2, <5>1 DEF Narrow
          <5>3. v \in Values /\ v.low = c.low /\ v.high = n
            BY <3>7, <5>1, <5>2 DEF Values
          <5>4. c.low \in 0 .. 127 /\ c.high = 0 => n = c.high
            BY <5>1
          <5>5. n = c.high => v = c
            BY <3>7, <5>2 DEF Values
          <5> QED BY <4>2, <5>3, <5>4, <5>5
        <4> QED BY <4>1, <4>2
      <3>9. got'.value = v /\ got'.row = c /\ got'.wide = wide
        BY <3>6
      <3>10. c \in [low : 0 .. 127, high : {0}] => c.low \in 0 .. 127 /\ c.high = 0
        OBVIOUS
      <3>11. RowAsStored'
        BY <3>8, <3>9, <3>10 DEF RowAsStored
      <3>12. got' \in [value : Values, row : Values, wide : BOOLEAN]
        BY <3>6, <3>7, <3>8
      <3> QED BY <2>1, <3>6, <3>11, <3>12
    <2> QED BY <2>2, <2>3
  <1>11. BuffersSound' /\ UNCHANGED <<cursor, columns, buffers>>
    BY <1>1, <1>2, BuffersKept
  <1>12. TypeOK'
    BY <1>2, <1>8, <1>10, <1>11 DEF IInv, TypeOK
  <1> QED BY <1>5, <1>6, <1>9, <1>10, <1>11, <1>12 DEF IInv

\* Steps that throw from a constructor: a handle may have been opened and closed.
LEMMA ThrowingSteps ==
    ASSUME IInv, NEW op, Step(op), PrepareFails \/ QueryFails
    PROVE  IInv'
  <1>1. /\ pc = "route" /\ script # <<>> /\ Head(script).op = op
        /\ Owned(handles, StmtHandle, RsHandle) /\ handles \in Seq(Nat)
        /\ in_sync /\ (wire # <<>> => stmt # 0 /\ op = "fetch_proc" /\ Len(wire) = 1)
        /\ (stmt = rs => rs = 0)
        /\ op \in {"param", "execute", "query"} => stmt # 0
        /\ op = "query" => Queryable(script, 1, Kind)
    BY StepFacts
  <1>2. /\ UNCHANGED <<pc, requests, objects, statements, results, stmt, rs, rowvars, got>> /\ script' = <<>>
        /\ in_sync' = (in_sync /\ wire = <<>>)
    BY DEF PrepareFails, QueryFails, Leave
  <1>3. StmtHandle' = StmtHandle /\ RsHandle' = RsHandle /\ Kind' = Kind
    BY <1>2 DEF StmtHandle, RsHandle, Kind
  <1>4. op \in {"prepare", "query"} /\ wire = <<>>
    BY <1>1 DEF PrepareFails, QueryFails, Step
  <1>5. handles' = handles \/ handles' = Append(handles, 1)
    BY DEF PrepareFails, QueryFails
  <1>6. Owned(handles', StmtHandle, RsHandle) /\ handles' \in Seq(Nat)
    BY <1>1, <1>5, OwnedThrown
  <1>7. HandlesSound'
    <2>1. PICK hs : hs = handles'
      OBVIOUS
    <2> QED BY <1>1, <1>2, <1>3, <1>6, <2>1, HandlesNext
  <1>8. wire' \in Seq(Sets) /\ (wire' # <<>> => stmt # 0)
    <2>1. CASE PrepareFails
      BY <1>4, <2>1 DEF PrepareFails
    <2>2. CASE QueryFails
      <3>1. op = "query" /\ stmt # 0
        BY <1>1, <2>2 DEF QueryFails, Step
      <3>2. objects[stmt].kind \in QueryKinds
        BY <1>1, <3>1 DEF Queryable, Kind
      <3>3. PICK sets \in Answers(objects[stmt].kind) : wire' = sets \/ wire' = Tail(sets)
        BY <2>2 DEF QueryFails
      <3> QED BY <3>1, <3>2, <3>3, AnswersFacts
    <2> QED BY <2>1, <2>2
  <1>9. WireSound'
    BY <1>1, <1>2, <1>4, <1>8 DEF WireSound
  <1>10. ScriptSound'
    <2>1. PICK q : q = (rs # 0)
      OBVIOUS
    <2> QED BY <1>1, <1>2, <1>3, <2>1, NothingLeft, ScriptNext
  <1>11. BuffersSound' /\ UNCHANGED <<cursor, columns, buffers>> /\ RowAsStored'
    BY <1>1, <1>2, BuffersKept, ReadKept
  <1>12. TypeOK'
    <2>1. <<>> \in Seq(Steps) /\ in_sync' \in BOOLEAN
      BY <1>2 DEF IInv, TypeOK
    <2> QED BY <1>2, <1>6, <1>8, <1>11, <2>1 DEF IInv, TypeOK, Sets
  <1> QED BY <1>7, <1>9, <1>10, <1>11, <1>12 DEF IInv

\* Steps that change an object, but not its handle or its kind, or the row that was
\* fetched.
LEMMA ObjectSteps ==
    ASSUME IInv, NEW op, Step(op), Param \/ Fetch
    PROVE  IInv'
  <1>1. /\ pc = "route" /\ script \in Seq(Steps) /\ script # <<>> /\ Head(script) = script[1] /\ Head(script).op = op
        /\ Tail(script) \in Seq(Steps)
        /\ Fits(script, Kind, rs # 0) /\ Owned(handles, StmtHandle, RsHandle)
        /\ in_sync /\ (wire # <<>> => stmt # 0 /\ op = "fetch_proc" /\ Len(wire) = 1)
        /\ (stmt = rs => rs = 0)
        /\ op \in {"param", "execute", "query"} => stmt # 0
        /\ op \in {"num_rows", "fetch", "each", "fetch_proc", "get64", "get32"} => rs # 0
        /\ op \notin {"prepare", "query"} => Fits(Tail(script), Kind, rs # 0)
    BY StepFacts
  <1>2. UNCHANGED <<pc, requests, statements, results, stmt, rs, handles, wire, got, in_sync>>
    BY DEF Param, Fetch, Continue, Leave
  <1>3. op \in {"param", "fetch", "each"} /\ wire = <<>>
    BY <1>1 DEF Param, Fetch, Step
  <1>4. objects \in Seq(Objects) /\ stmt \in 0 .. Len(objects) /\ rs \in 0 .. Len(objects) /\ Len(objects) \in Nat
    BY DEF IInv, TypeOK
  <1>5. /\ objects' \in Seq(Objects) /\ Len(objects') = Len(objects)
        /\ \A i \in 1 .. Len(objects) : objects'[i].handle = objects[i].handle /\ objects'[i].kind = objects[i].kind
    <2>1. CASE objects' = objects
      BY <1>4, <2>1
    <2>2. CASE objects' = [objects EXCEPT ![stmt].bound = @ + 1] /\ op = "param"
      <3>1. stmt \in 1 .. Len(objects)
        BY <1>1, <1>4, <2>2
      <3>2. objects[stmt] \in Objects
        BY <1>4, <3>1
      <3>3. PICK o : o = [objects[stmt] EXCEPT !.bound = @ + 1]
        OBVIOUS
      <3>4. o \in Objects /\ o.handle = objects[stmt].handle /\ o.kind = objects[stmt].kind
        BY <3>2, <3>3 DEF Objects
      <3>5. objects' = [objects EXCEPT ![stmt] = o]
        BY <2>2, <3>3
      <3>6. /\ objects' \in Seq(Objects) /\ Len(objects') = Len(objects) /\ objects'[stmt] = o
            /\ \A i \in 1 .. Len(objects) : i # stmt => objects'[i] = objects[i]
        BY <1>4, <3>1, <3>4, <3>5, ExceptFacts
      <3> QED BY <3>4, <3>6
    <2>3. \/ objects' = objects
          \/ objects' = [objects EXCEPT ![stmt].bound = @ + 1] /\ op = "param"
      BY <1>1 DEF Param, Fetch, Step
    <2> QED BY <2>1, <2>2, <2>3
  <1>6. StmtHandle' = StmtHandle /\ RsHandle' = RsHandle /\ Kind' = Kind
    BY <1>2, <1>4, <1>5, PointersKept
  <1>7. HandlesSound'
    BY <1>1, <1>2, <1>6, HandlesNext
  <1>8. WireSound'
    BY <1>1, <1>2, <1>3 DEF WireSound
  <1>9. \/ script' = <<>> \/ script' = Tail(script)
        \/ script' = SubSeq(script, 3, Len(script)) /\ op \in {"fetch", "each"}
    BY <1>1 DEF Param, Fetch, Continue, Leave, Step
  <1>10. script' \in Seq(Steps) /\ Fits(script', Kind, rs # 0)
    <2>1. CASE script' = <<>>
      BY <2>1, NothingLeft
    <2>2. CASE script' = Tail(script)
      BY <1>1, <1>3, <2>2
    <2>3. CASE script' = SubSeq(script, 3, Len(script)) /\ op \in {"fetch", "each"}
      <3>1. PICK q \in BOOLEAN : q = (rs # 0)
        OBVIOUS
      <3>2. Fits(script, Kind, q) /\ script[1].op \in {"fetch", "each"}
        BY <1>1, <2>3, <3>1
      <3>3. Fits(SubSeq(script, 3, Len(script)), Kind, q) /\ SubSeq(script, 3, Len(script)) \in Seq(Steps)
        BY <1>1, <3>2, FitsNext
      <3> QED BY <2>3, <3>1, <3>3
    <2> QED BY <1>9, <2>1, <2>2, <2>3
  <1>11. ScriptSound'
    <2>1. PICK s : s = script'
      OBVIOUS
    <2>2. PICK q : q = (rs # 0)
      OBVIOUS
    <2>3. Fits(s, Kind, q)
      BY <1>10, <2>1, <2>2
    <2> QED BY <1>1, <1>2, <1>6, <2>1, <2>2, <2>3, ScriptNext
  <1>12. /\ BuffersSound' /\ buffers' \in Seq(Values) /\ columns' \in Nat
         /\ cursor' \in [rows : Seq(Values), current : Values, bind : Nat]
    <2>1. /\ buffers \in Seq(Values) /\ columns \in Nat /\ cursor \in [rows : Seq(Values), current : Values, bind : Nat]
      BY DEF IInv, TypeOK
    <2>2. CASE UNCHANGED rowvars
      BY <1>1, <1>2, <2>1, <2>2, BuffersKept
    <2>3. CASE FetchRow(1) /\ cursor.rows # <<>> /\ op \in {"fetch", "each"}
      <3>1. columns \in 1 .. Len(buffers) /\ cursor.bind = columns
        BY <1>1, <2>3 DEF IInv, BuffersSound
      <3>2. PICK v : v = cursor.rows[1]
        OBVIOUS
      <3>3. PICK r : r = SubSeq(cursor.rows, 1 + 1, Len(cursor.rows))
        OBVIOUS
      <3>4. v \in Values /\ r \in Seq(Values)
        BY <2>1, <2>3, <3>2, <3>3
      <3>5. cursor' = [[cursor EXCEPT !.rows = r] EXCEPT !.current = v] /\ buffers' = [buffers EXCEPT ![columns] = v] /\ columns' = columns
        BY <2>3, <3>1, <3>2, <3>3 DEF FetchRow
      <3>6. cursor' \in [rows : Seq(Values), current : Values, bind : Nat] /\ cursor'.current = v /\ cursor'.bind = columns
        BY <2>1, <3>1, <3>4, <3>5
      <3>7. buffers' \in Seq(Values) /\ Len(buffers') = Len(buffers) /\ buffers'[columns] = v
        BY <2>1, <3>1, <3>4, <3>5, ExceptFacts
      <3> QED BY <2>1, <3>1, <3>5, <3>6, <3>7 DEF BuffersSound
    <2>4. UNCHANGED rowvars \/ (FetchRow(1) /\ cursor.rows # <<>> /\ op \in {"fetch", "each"})
      BY <1>1 DEF Param, Fetch, Step
    <2> QED BY <2>2, <2>3, <2>4
  <1>13. TypeOK'
    BY <1>2, <1>4, <1>5, <1>10, <1>12 DEF IInv, TypeOK
  <1>14. RowAsStored'
    BY <1>2, ReadKept
  <1> QED BY <1>7, <1>8, <1>11, <1>12, <1>13, <1>14 DEF IInv

\* prepare() replaces the statement of the route.
LEMMA PrepareStep ==
    ASSUME IInv, Prepare
    PROVE  IInv'
  <1>1. /\ pc = "route" /\ script # <<>> /\ Head(script).op = "prepare" /\ Head(script) \in Steps /\ Tail(script) \in Seq(Steps)
        /\ Owned(handles, StmtHandle, RsHandle) /\ handles \in Seq(Nat)
        /\ in_sync
        /\ Fits(Tail(script), Head(script).kind, rs # 0)
    BY StepFacts DEF Prepare
  <1>2. objects \in Seq(Objects) /\ stmt \in 0 .. Len(objects) /\ rs \in 0 .. Len(objects) /\ Len(objects) \in Nat
        /\ Len(handles) \in Nat
    BY DEF IInv, TypeOK
  <1>3. PICK o : o = NewStatement(Head(script), Len(handles) + 1)
    OBVIOUS
  <1>4. o \in Objects /\ o.handle = Len(handles) + 1 /\ o.kind = Head(script).kind
    <2>1. Head(script).kind # "missing"
      BY DEF Prepare
    <2>2. Len(handles) + 1 \in Nat
      BY <1>2
    <2> QED BY <1>1, <1>3, <2>1, <2>2, StatementFacts
  <1>5. /\ objects' \in Seq(Objects) /\ Len(objects') = Len(objects) + 1 /\ objects'[Len(objects) + 1] = o
        /\ \A i \in 1 .. Len(objects) : objects'[i] = objects[i]
    BY <1>2, <1>3, <1>4, AppendFacts DEF Prepare
  <1>6. /\ stmt' = Len(objects) + 1 /\ rs' = rs /\ pc' = pc /\ wire' = wire /\ wire = <<>> /\ in_sync' = in_sync
        /\ script' = Tail(script) /\ handles' = Append(Deleted(handles, stmt), 0)
        /\ statements' = Append(statements, Len(objects) + 1)
        /\ UNCHANGED <<requests, results, rowvars, got>>
    BY DEF Prepare, Continue
  <1>7. StmtHandle' = Len(handles) + 1 /\ RsHandle' = RsHandle /\ Kind' = Head(script).kind
    <2>1. stmt' # 0 /\ objects'[stmt'] = o
      BY <1>2, <1>5, <1>6
    <2>2. rs # 0 => objects'[rs] = objects[rs]
      BY <1>2, <1>5
    <2> QED BY <1>4, <1>6, <2>1, <2>2 DEF StmtHandle, RsHandle, Kind
  <1>8. Owned(handles', Len(handles) + 1, RsHandle) /\ handles' \in Seq(Nat)
    BY <1>1, <1>6, DeletedIsClose, OwnedReset
  <1>9. HandlesSound'
    <2>1. PICK hs : hs = handles'
      OBVIOUS
    <2>2. PICK a : a = Len(handles) + 1
      OBVIOUS
    <2>3. Owned(hs, a, RsHandle)
      BY <1>8, <2>1, <2>2
    <2> QED BY <1>1, <1>6, <1>7, <2>1, <2>2, <2>3, HandlesNext
  <1>10. WireSound'
    BY <1>1, <1>6 DEF WireSound
  <1>11. ScriptSound'
    <2>1. PICK s : s = script'
      OBVIOUS
    <2>2. PICK q : q = (rs # 0)
      OBVIOUS
    <2>3. PICK k : k = Head(script).kind
      OBVIOUS
    <2>4. Fits(s, k, q)
      BY <1>1, <1>6, <2>1, <2>2, <2>3
    <2>5. stmt' # rs'
      BY <1>2, <1>6
    <2> QED BY <1>6, <1>7, <2>1, <2>2, <2>3, <2>4, <2>5, ScriptNext
  <1>12. TypeOK'
    <2>1. statements \in Seq(Nat) /\ Len(objects) + 1 \in Nat
      BY <1>2 DEF IInv, TypeOK
    <2>2. statements' \in Seq(Nat)
      BY <1>6, <2>1
    <2>3. stmt' \in 0 .. Len(objects') /\ rs' \in 0 .. Len(objects')
      BY <1>2, <1>5, <1>6
    <2>4. UNCHANGED <<cursor, columns, buffers>>
      BY <1>6 DEF rowvars
    <2> QED BY <1>1, <1>5, <1>6, <1>8, <2>2, <2>3, <2>4 DEF IInv, TypeOK
  <1>13. BuffersSound' /\ RowAsStored'
    BY <1>1, <1>6, BuffersKept, ReadKept
  <1> QED BY <1>9, <1>10, <1>11, <1>12, <1>13 DEF IInv

\* bind() with rows to read: a new buffer, which the statement knows and the result reads.
LEMMA BoundFacts ==
    ASSUME NEW rows \in Seq(Values), NEW v \in Values, buffers \in Seq(Values),
           columns' = Len(buffers) + 1, buffers' = Append(buffers, v),
           cursor' = [rows |-> rows, current |-> v, bind |-> Len(buffers) + 1]
    PROVE  /\ BuffersSound' /\ buffers' \in Seq(Values) /\ columns' \in Nat
           /\ cursor' \in [rows : Seq(Values), current : Values, bind : Nat]
  <1>1. PICK b : b = Append(buffers, v)
    OBVIOUS
  <1>2. b \in Seq(Values) /\ Len(b) = Len(buffers) + 1 /\ b[Len(buffers) + 1] = v /\ Len(buffers) \in Nat
    BY <1>1, AppendFacts
  <1>3. buffers' = b
    BY <1>1
  <1>4. cursor' \in [rows : Seq(Values), current : Values, bind : Nat] /\ cursor'.bind = Len(buffers) + 1 /\ cursor'.current = v
    BY <1>2
  <1>5. columns' \in 1 .. Len(buffers') /\ columns' \in Nat
    BY <1>2, <1>3
  <1> QED BY <1>2, <1>3, <1>4, <1>5 DEF BuffersSound

\* query() replaces the result; what a procedure sends after its rows stays on
\* the wire for the fetch(true) that follows.
LEMMA QueryStep ==
    ASSUME IInv, Query
    PROVE  IInv'
  <1>1. /\ pc = "route" /\ script \in Seq(Steps) /\ script # <<>> /\ Tail(script) \in Seq(Steps)
        /\ Owned(handles, StmtHandle, RsHandle) /\ handles \in Seq(Nat)
        /\ in_sync /\ wire = <<>> /\ stmt # 0
        /\ Queryable(script, 1, Kind) /\ Fits(Tail(script), Kind, TRUE)
    <2>1. Step("query")
      BY DEF Query
    <2>2. /\ in_sync /\ (wire # <<>> => "query" = "fetch_proc")
          /\ pc = "route" /\ script \in Seq(Steps) /\ script # <<>> /\ Tail(script) \in Seq(Steps)
      BY <2>1, StepFacts
    <2>3. Owned(handles, StmtHandle, RsHandle) /\ handles \in Seq(Nat)
      BY <2>1, StepFacts
    <2>4. stmt # 0 /\ Queryable(script, 1, Kind) /\ Fits(Tail(script), Kind, TRUE)
      BY <2>1, StepFacts
    <2> QED BY <2>2, <2>3, <2>4
  <1>2. objects \in Seq(Objects) /\ stmt \in 1 .. Len(objects) /\ rs \in 0 .. Len(objects) /\ Len(objects) \in Nat
        /\ Len(handles) \in Nat
    BY <1>1 DEF IInv, TypeOK
  <1>3. Kind = objects[stmt].kind /\ objects[stmt].kind \in QueryKinds /\ objects[stmt] \in Objects
    BY <1>1, <1>2 DEF Kind, Queryable
  <1>4. PICK sets \in Answers(objects[stmt].kind) :
           Head(sets).kind = "rows" /\ wire' = Tail(sets) /\ Bind(Head(sets).rows)
    BY DEF Query
  <1>5. /\ Head(sets) \in Sets /\ wire' \in Seq(Sets)
        /\ wire' = <<>> \/ (Kind # "select" /\ Len(wire') = 1)
    BY <1>3, <1>4, AnswersFacts
  <1>6. PICK o : o = NewResult(objects[stmt], Len(handles) + 1)
    OBVIOUS
  <1>7. o \in Objects /\ o.handle = Len(handles) + 1
    <2>1. Len(handles) + 1 \in Nat
      BY <1>2
    <2> QED BY <1>3, <1>6, <2>1, HandleFacts DEF NewResult
  <1>8. /\ objects' \in Seq(Objects) /\ Len(objects') = Len(objects) + 1 /\ objects'[Len(objects) + 1] = o
        /\ \A i \in 1 .. Len(objects) : objects'[i] = objects[i]
    BY <1>2, <1>6, <1>7, AppendFacts DEF Query
  <1>9. /\ rs' = Len(objects) + 1 /\ stmt' = stmt /\ pc' = pc /\ in_sync' = (in_sync /\ wire = <<>>)
        /\ script' = Tail(script) /\ handles' = Append(Deleted(handles, rs), 0)
        /\ results' = Append(results, Len(objects) + 1)
        /\ UNCHANGED <<requests, statements, got>>
    BY DEF Query, Continue
  <1>10. RsHandle' = Len(handles) + 1 /\ StmtHandle' = StmtHandle /\ Kind' = Kind
    <2>1. rs' # 0 /\ objects'[rs'] = o
      BY <1>2, <1>8, <1>9
    <2>2. objects'[stmt] = objects[stmt]
      BY <1>2, <1>8
    <2> QED BY <1>7, <1>9, <2>1, <2>2 DEF StmtHandle, RsHandle, Kind
  <1>11. Owned(handles', StmtHandle, Len(handles) + 1) /\ handles' \in Seq(Nat)
    BY <1>1, <1>9, DeletedIsClose, OwnedReset
  <1>12. HandlesSound'
    <2>1. PICK hs : hs = handles'
      OBVIOUS
    <2>2. PICK b : b = Len(handles) + 1
      OBVIOUS
    <2>3. Owned(hs, StmtHandle, b)
      BY <1>11, <2>1, <2>2
    <2> QED BY <1>1, <1>9, <1>10, <2>1, <2>2, <2>3, HandlesNext
  <1>13. WireSound'
    <2>1. Kind # "select" => Tail(script) # <<>> /\ Head(Tail(script)).op = "fetch_proc"
      <3>1. SUFFICES ASSUME Kind # "select"
                     PROVE  Tail(script) # <<>> /\ Head(Tail(script)).op = "fetch_proc"
        OBVIOUS
      <3>2. 1 < Len(script) /\ script[1 + 1].op = "fetch_proc"
        BY <1>1, <3>1 DEF Queryable
      <3>3. PICK t : t = Tail(script)
        OBVIOUS
      <3>4. t \in Seq(Steps) /\ Len(t) = Len(script) - 1 /\ Len(script) \in Nat
            /\ \A i \in 1 .. Len(script) - 1 : t[i] = script[i + 1]
        BY <1>1, <3>3, TailFacts
      <3>5. t # <<>> /\ t[1] = script[1 + 1]
        BY <3>2, <3>4
      <3>6. Head(t) = t[1]
        BY <3>4, <3>5, TailFacts
      <3> QED BY <3>2, <3>3, <3>5, <3>6
    <2> QED BY <1>1, <1>5, <1>9, <2>1 DEF WireSound
  <1>14. ScriptSound'
    <2>1. PICK s : s = script'
      OBVIOUS
    <2>2. PICK q : q = TRUE
      OBVIOUS
    <2>3. Fits(s, Kind, q)
      BY <1>1, <1>9, <2>1, <2>2
    <2>4. stmt' # rs' /\ q = (rs' # 0)
      <3>1. stmt' # rs' /\ rs' # 0
        BY <1>2, <1>9
      <3> QED BY <2>2, <3>1
    <2> QED BY <1>9, <1>10, <2>1, <2>3, <2>4, ScriptNext
  <1>15. /\ BuffersSound' /\ buffers' \in Seq(Values) /\ columns' \in Nat
         /\ cursor' \in [rows : Seq(Values), current : Values, bind : Nat]
    <2>1. Head(sets).rows \in Seq(Values) /\ buffers \in Seq(Values)
      BY <1>5 DEF IInv, TypeOK, Sets
    <2>2. /\ columns' = Len(buffers) + 1 /\ buffers' = Append(buffers, NoValue)
          /\ cursor' = [rows |-> Head(sets).rows, current |-> NoValue, bind |-> Len(buffers) + 1]
      BY <1>4 DEF Bind
    <2>3. NoValue \in Values
      BY DEF NoValue, Values
    <2> QED BY <2>1, <2>2, <2>3, BoundFacts
  <1>16. TypeOK'
    <2>1. results \in Seq(Nat) /\ Len(objects) + 1 \in Nat
      BY <1>2 DEF IInv, TypeOK
    <2>2. results' \in Seq(Nat)
      BY <1>9, <2>1
    <2>3. stmt' \in 0 .. Len(objects') /\ rs' \in 0 .. Len(objects')
      BY <1>2, <1>8, <1>9
    <2>4. in_sync' \in BOOLEAN
      BY <1>9
    <2> QED BY <1>1, <1>5, <1>8, <1>9, <1>11, <1>15, <2>2, <2>3, <2>4 DEF IInv, TypeOK, Sets
  <1>17. RowAsStored'
    BY <1>9, ReadKept
  <1> QED BY <1>12, <1>13, <1>14, <1>15, <1>16, <1>17 DEF IInv

\* fetch(true) exchanges the metadata of the result, or loses it.
LEMMA FetchProcSteps ==
    ASSUME IInv, FetchProc \/ FetchProcFails
    PROVE  IInv'
  <1>1. /\ pc = "route" /\ Tail(script) \in Seq(Steps)
        /\ Owned(handles, StmtHandle, RsHandle) /\ handles \in Seq(Nat)
        /\ in_sync /\ (wire # <<>> => stmt # 0 /\ Len(wire) = 1)
        /\ (stmt = rs => rs = 0) /\ rs # 0 /\ Fits(Tail(script), Kind, rs # 0)
    <2>1. Step("fetch_proc")
      BY DEF FetchProc, FetchProcFails
    <2>2. pc = "route" /\ Tail(script) \in Seq(Steps) /\ Owned(handles, StmtHandle, RsHandle) /\ handles \in Seq(Nat)
      BY <2>1, StepFacts
    <2>3. in_sync /\ (wire # <<>> => stmt # 0 /\ Len(wire) = 1) /\ (stmt = rs => rs = 0)
      BY <2>1, StepFacts
    <2>4. rs # 0
      BY <2>1, StepFacts
    <2>5. "fetch_proc" \notin {"prepare", "query"} => Fits(Tail(script), Kind, rs # 0)
      <3>1. PICK q : q = (rs # 0)
        OBVIOUS
      <3>2. "fetch_proc" \notin {"prepare", "query"} => Fits(Tail(script), Kind, q)
        BY <2>1, <3>1, StepFacts
      <3> QED BY <3>1, <3>2
    <2> QED BY <2>2, <2>3, <2>4, <2>5
  <1>2. objects \in Seq(Objects) /\ stmt \in 0 .. Len(objects) /\ rs \in 1 .. Len(objects) /\ Len(objects) \in Nat
        /\ Len(handles) \in Nat
    BY <1>1 DEF IInv, TypeOK
  <1>3. objects[rs] \in Objects
    BY <1>2
  <1>4. PICK h \in Nat, o \in Objects :
           /\ o.handle = h /\ o.kind = objects[rs].kind
           /\ objects' = [objects EXCEPT ![rs] = o]
           /\ \/ h = 0 /\ handles' = Deleted(handles, rs)
              \/ h = Len(handles) + 1 /\ handles' = Append(Deleted(handles, rs), 0)
    <2>1. PICK h \in Nat :
            /\ objects' = [objects EXCEPT ![rs].handle = h]
            /\ \/ h = 0 /\ handles' = Deleted(handles, rs)
               \/ h = Len(handles) + 1 /\ handles' = Append(Deleted(handles, rs), 0)
      <3>1. Len(handles) + 1 \in Nat /\ 0 \in Nat
        BY <1>2
      <3> QED BY <3>1 DEF FetchProc, FetchProcFails
    <2>2. PICK o : o = [objects[rs] EXCEPT !.handle = h]
      OBVIOUS
    <2>3. o \in Objects /\ o.handle = h /\ o.kind = objects[rs].kind
      BY <1>3, <2>2, HandleFacts
    <2>4. objects' = [objects EXCEPT ![rs] = o]
      BY <2>1, <2>2
    <2> QED BY <2>1, <2>3, <2>4
  <1>5. /\ objects' \in Seq(Objects) /\ Len(objects') = Len(objects) /\ objects'[rs] = o
        /\ \A i \in 1 .. Len(objects) : i # rs => objects'[i] = objects[i]
    BY <1>2, <1>4, ExceptFacts
  <1>6. /\ UNCHANGED <<pc, requests, statements, results, stmt, rs, got, in_sync>>
        /\ \/ script' = Tail(script) /\ wire' = IF wire = <<>> THEN wire ELSE Tail(wire)
           \/ script' = <<>> /\ wire' = wire
    BY DEF FetchProc, FetchProcFails, Continue, Leave
  <1>7. RsHandle' = h /\ StmtHandle' = StmtHandle /\ Kind' = Kind
    <2>1. stmt # 0 => stmt # rs /\ stmt \in 1 .. Len(objects)
      BY <1>1, <1>2
    <2>2. stmt # 0 => objects'[stmt] = objects[stmt]
      BY <1>5, <2>1
    <2> QED BY <1>1, <1>4, <1>5, <1>6, <2>2 DEF StmtHandle, RsHandle, Kind
  <1>8. Owned(handles', StmtHandle, h) /\ handles' \in Seq(Nat)
    BY <1>1, <1>4, DeletedIsClose, OwnedReset
  <1>9. HandlesSound'
    <2>1. PICK hs : hs = handles'
      OBVIOUS
    <2> QED BY <1>1, <1>6, <1>7, <1>8, <2>1, HandlesNext
  <1>10. WireSound' /\ wire' \in Seq(Sets)
    <2>1. wire \in Seq(Sets)
      BY DEF IInv, TypeOK, Sets
    <2>2. wire # <<>> => Tail(wire) = <<>>
      <3>1. wire # <<>> => Tail(wire) \in Seq(Sets) /\ Len(Tail(wire)) = Len(wire) - 1
        BY <2>1, TailFacts
      <3>2. wire # <<>> => Tail(wire) \in Seq(Sets) /\ Len(Tail(wire)) = 0
        BY <1>1, <3>1
      <3>3. \A x \in Seq(Sets) : Len(x) = 0 => x = <<>>
        OBVIOUS
      <3> QED BY <3>2, <3>3
    <2>3. wire' = <<>> \/ (wire' = wire /\ script' = <<>>)
      BY <1>6, <2>2
    <2>4. wire' \in Seq(Sets)
      <3>1. <<>> \in Seq(Sets)
        OBVIOUS
      <3> QED BY <2>1, <2>3, <3>1
    <2> QED BY <1>1, <1>6, <2>3, <2>4 DEF WireSound
  <1>11. script' \in Seq(Steps) /\ Fits(script', Kind, rs # 0)
    <2>1. CASE script' = <<>>
      BY <2>1, NothingLeft
    <2>2. CASE script' = Tail(script)
      BY <1>1, <2>2
    <2> QED BY <1>6, <2>1, <2>2
  <1>12. ScriptSound'
    <2>1. PICK s : s = script'
      OBVIOUS
    <2>2. PICK q : q = (rs # 0)
      OBVIOUS
    <2>3. Fits(s, Kind, q)
      BY <1>11, <2>1, <2>2
    <2> QED BY <1>1, <1>6, <1>7, <2>1, <2>2, <2>3, ScriptNext
  <1>13. /\ BuffersSound' /\ buffers' \in Seq(Values) /\ columns' \in Nat
         /\ cursor' \in [rows : Seq(Values), current : Values, bind : Nat]
    <2>1. /\ buffers \in Seq(Values) /\ columns \in Nat /\ cursor \in [rows : Seq(Values), current : Values, bind : Nat]
      BY DEF IInv, TypeOK
    <2>2. ASSUME NEW n \in 0 .. Len(cursor.rows), Drain(n)
          PROVE  /\ BuffersSound' /\ buffers' \in Seq(Values) /\ columns' \in Nat
                 /\ cursor' \in [rows : Seq(Values), current : Values, bind : Nat]
      <3>1. PICK v : v = LastOf(n)
        OBVIOUS
      <3>2. v \in Values
        <4>1. NoValue \in Values
          BY DEF NoValue, Values
        <4>2. cursor.rows \in Seq(Values) /\ (n # 0 => n \in 1 .. Len(cursor.rows))
          BY <2>1, <2>2
        <4> QED BY <3>1, <4>1, <4>2 DEF LastOf
      <3>3. <<>> \in Seq(Values)
        OBVIOUS
      <3>4. /\ columns' = Len(buffers) + 1 /\ buffers' = Append(buffers, v)
            /\ cursor' = [rows |-> <<>>, current |-> v, bind |-> Len(buffers) + 1]
        BY <2>2, <3>1 DEF Drain
      <3> QED BY <2>1, <3>2, <3>3, <3>4, BoundFacts
    <2>3. CASE UNCHANGED rowvars /\ script' = <<>>
      BY <2>1, <2>3 DEF BuffersSound, rowvars
    <2>4. CASE columns' = Len(buffers) + 1 /\ buffers' = Append(buffers, NoValue) /\ UNCHANGED cursor /\ script' = <<>>
      <3>1. NoValue \in Values /\ Len(buffers) + 1 \in Nat
        BY <2>1 DEF NoValue, Values
      <3>2. buffers' \in Seq(Values)
        BY <2>1, <2>4, <3>1, AppendFacts
      <3> QED BY <2>1, <2>4, <3>1, <3>2 DEF BuffersSound
    <2>5. \/ \E n \in 0 .. Len(cursor.rows) : Drain(n)
          \/ UNCHANGED rowvars /\ script' = <<>>
          \/ columns' = Len(buffers) + 1 /\ buffers' = Append(buffers, NoValue) /\ UNCHANGED cursor /\ script' = <<>>
      BY DEF FetchProc, FetchProcFails, Leave
    <2> QED BY <2>2, <2>3, <2>4, <2>5
  <1>14. TypeOK'
    BY <1>2, <1>5, <1>6, <1>8, <1>10, <1>11, <1>13 DEF IInv, TypeOK, Sets
  <1>15. RowAsStored'
    BY <1>6, ReadKept
  <1> QED BY <1>9, <1>10, <1>12, <1>13, <1>14, <1>15 DEF IInv

-----------------------------------------------------------------------------
(* The beginning and the end of a route                                    *)

\* Nothing read, and nothing to read.
LEMMA NoneTyped ==
    /\ NoRead \in [value : Values, row : Values, wide : BOOLEAN]
    /\ NoCursor \in [rows : Seq(Values), current : Values, bind : Nat]
  <1>1. NoValue \in Values
    BY DEF NoValue, Values
  <1> QED BY <1>1 DEF NoRead, NoCursor

\* A route starts without objects.
LEMMA BeginStep ==
    ASSUME IInv, Begin
    PROVE  IInv'
  <1>1. /\ pc = "idle" /\ pc' = "route" /\ script' \in Scripts /\ objects' = <<>> /\ handles' = <<>> /\ got' = NoRead
        /\ requests' = requests + 1 /\ requests < MaxRequests
        /\ cursor' = NoCursor /\ columns' = 0 /\ buffers' = <<>>
        /\ UNCHANGED <<statements, results, stmt, rs, wire, in_sync>>
    BY DEF Begin
  <1>2. stmt = 0 /\ rs = 0 /\ wire = <<>> /\ in_sync
    BY <1>1 DEF IInv, HandlesSound, WireSound
  <1>3. StmtHandle' = 0 /\ RsHandle' = 0 /\ Kind' = "none"
    BY <1>1, <1>2 DEF StmtHandle, RsHandle, Kind
  <1>4. HandlesSound'
    <2>1. PICK hs : hs = <<>>
      OBVIOUS
    <2>2. Owned(hs, 0, 0)
      BY <2>1 DEF Owned
    <2> QED BY <1>1, <1>3, <2>1, <2>2, HandlesNext
  <1>5. WireSound'
    BY <1>1, <1>2 DEF WireSound
  <1>6. ScriptSound'
    <2>1. PICK s : s = script'
      OBVIOUS
    <2>2. Fits(s, "none", FALSE)
      BY <1>1, <2>1, ScriptsAssumption DEF Fits
    <2>3. FALSE = (rs' # 0) /\ rs' = 0
      BY <1>1, <1>2
    <2>4. PICK q : q = FALSE
      OBVIOUS
    <2>5. Fits(s, "none", q) /\ q = (rs' # 0)
      BY <2>2, <2>3, <2>4
    <2> QED BY <1>3, <2>1, <2>3, <2>5, ScriptNext
  <1>7. TypeOK'
    <2>1. script' \in Seq(Steps)
      BY <1>1, ScriptsAssumption
    <2>2. /\ NoRead \in [value : Values, row : Values, wide : BOOLEAN]
          /\ NoCursor \in [rows : Seq(Values), current : Values, bind : Nat]
      BY NoneTyped
    <2>3. requests' \in 0 .. MaxRequests
      BY <1>1, RequestsAssumption DEF IInv, TypeOK
    <2>4. <<>> \in Seq(Objects) /\ <<>> \in Seq(Nat) /\ <<>> \in Seq(Values) /\ Len(<<>>) = 0
      OBVIOUS
    <2>5. stmt' \in 0 .. Len(objects') /\ rs' \in 0 .. Len(objects')
      BY <1>1, <1>2, <2>4
    <2> QED BY <1>1, <2>1, <2>2, <2>3, <2>4, <2>5 DEF IInv, TypeOK
  <1>8. BuffersSound' /\ RowAsStored'
    BY <1>1, <1>2 DEF BuffersSound, RowAsStored, NoRead
  <1> QED BY <1>4, <1>5, <1>6, <1>7, <1>8 DEF IInv

\* The destructors of the pointers close the last two handles, and with the
\* statement go the sets nobody has read.
LEMMA PointersStep ==
    ASSUME IInv, Pointers
    PROVE  IInv'
  <1>1. /\ pc = "route" /\ pc' = "clear" /\ stmt' = 0 /\ rs' = 0 /\ wire' = Flushed(stmt)
        /\ handles' = Deleted(Deleted(handles, rs), stmt)
        /\ UNCHANGED <<script, objects, statements, results, cursor, columns, buffers, got, in_sync, requests>>
    BY DEF Pointers, rowvars
  <1>2. Owned(handles, StmtHandle, RsHandle) /\ handles \in Seq(Nat)
    BY <1>1 DEF IInv, HandlesSound, TypeOK
  <1>3. handles' \in Seq(Nat) /\ \A h \in 1 .. Len(handles') : handles'[h] = 1
    <2>1. handles' = Close(Close(handles, RsHandle), StmtHandle)
      BY <1>1, DeletedIsClose
    <2> QED BY <1>2, <2>1, OwnedClosed
  <1>4. wire' = <<>> /\ in_sync'
    BY <1>1 DEF IInv, WireSound, Flushed
  <1>5. HandlesSound'
    BY <1>1, <1>3 DEF HandlesSound
  <1>6. WireSound' /\ ScriptSound'
    BY <1>1, <1>4 DEF WireSound, ScriptSound
  <1>7. TypeOK'
    <2>1. wire' \in Seq([kind : {"rows", "status"}, rows : Seq(Values)])
      BY <1>4
    <2>2. Len(objects) \in Nat
      BY DEF IInv, TypeOK
    <2>3. stmt' \in 0 .. Len(objects') /\ rs' \in 0 .. Len(objects')
      BY <1>1, <2>2
    <2> QED BY <1>1, <1>3, <2>1, <2>3 DEF IInv, TypeOK
  <1>8. BuffersSound' /\ RowAsStored'
    BY <1>1, ReadKept DEF BuffersSound
  <1> QED BY <1>5, <1>6, <1>7, <1>8 DEF IInv

\* connection::clear() empties the lists.
LEMMA ClearStep ==
    ASSUME IInv, Clear
    PROVE  IInv'
  <1>1. /\ pc = "clear" /\ pc' \in {"idle", "undefined"} /\ statements' = <<>> /\ results' = <<>>
        /\ UNCHANGED <<script, objects, stmt, rs, handles, wire, cursor, columns, buffers, got, in_sync, requests>>
    BY DEF Clear, rowvars
  <1>2. HandlesSound' /\ WireSound' /\ ScriptSound' /\ BuffersSound' /\ RowAsStored'
    BY <1>1, ReadKept DEF IInv, HandlesSound, WireSound, ScriptSound, BuffersSound
  <1>3. <<>> \in Seq(Nat)
    OBVIOUS
  <1>4. TypeOK'
    BY <1>1, <1>3 DEF IInv, TypeOK
  <1> QED BY <1>2, <1>4 DEF IInv

\* A step that changes nothing.
LEMMA StutterStep ==
    ASSUME IInv, UNCHANGED vars
    PROVE  IInv'
  <1>1. UNCHANGED <<script, pc, objects, statements, results, stmt, rs, handles, wire, cursor, columns, buffers, got, in_sync, requests>>
    BY DEF vars, rowvars
  <1>2. StmtHandle' = StmtHandle /\ RsHandle' = RsHandle /\ Kind' = Kind
    BY <1>1 DEF StmtHandle, RsHandle, Kind
  <1>3. HandlesSound'
    BY <1>1, <1>2 DEF IInv, HandlesSound, Owned
  <1>4. ScriptSound'
    <2>1. CASE pc = "route"
      <3>1. PICK q : q = (rs # 0)
        OBVIOUS
      <3>2. Fits(script, Kind, q) /\ (stmt = rs => rs = 0)
        BY <2>1, <3>1 DEF IInv, ScriptSound
      <3> QED BY <1>1, <1>2, <3>1, <3>2, ScriptNext
    <2>2. CASE pc # "route"
      BY <1>1, <2>2 DEF ScriptSound
    <2> QED BY <2>1, <2>2
  <1>5. BuffersSound' /\ RowAsStored'
    BY <1>1, ReadKept DEF IInv, BuffersSound
  <1> QED BY <1>1, <1>3, <1>4, <1>5 DEF IInv, TypeOK, WireSound

\* Nothing is open before the first request.
LEMMA InitSound == Init => IInv
  <1> SUFFICES ASSUME Init PROVE IInv
    OBVIOUS
  <1>1. /\ NoRead \in [value : Values, row : Values, wide : BOOLEAN]
        /\ NoCursor \in [rows : Seq(Values), current : Values, bind : Nat]
    BY NoneTyped
  <1>2. requests \in 0 .. MaxRequests
    BY RequestsAssumption DEF Init
  <1>3. TypeOK
    BY <1>1, <1>2 DEF Init, TypeOK
  <1>4. RowAsStored
    BY DEF Init, RowAsStored, NoRead
  <1> QED BY <1>3, <1>4 DEF Init, IInv, HandlesSound, WireSound, ScriptSound, BuffersSound

-----------------------------------------------------------------------------
(* Theorems                                                                *)

\* Every step of a route, and of the connection between routes, keeps the invariant.
LEMMA NextSound == IInv /\ [Next]_vars => IInv'
  <1> SUFFICES ASSUME IInv, [Next]_vars PROVE IInv'
    OBVIOUS
  <1>1. CASE Execute \/ ExecuteFails \/ NumRows \/ Get \/ GetFails
    <2>1. PICK op : Step(op)
      BY <1>1 DEF Execute, ExecuteFails, NumRows, Get, GetFails
    <2> QED BY <1>1, <2>1, QuietSteps
  <1>2. CASE PrepareFails \/ QueryFails
    <2>1. PICK op : Step(op)
      BY <1>2 DEF PrepareFails, QueryFails
    <2> QED BY <1>2, <2>1, ThrowingSteps
  <1>3. CASE Param \/ Fetch
    <2>1. PICK op : Step(op)
      BY <1>3 DEF Param, Fetch
    <2> QED BY <1>3, <2>1, ObjectSteps
  <1>4. CASE Prepare
    BY <1>4, PrepareStep
  <1>5. CASE Query
    BY <1>5, QueryStep
  <1>6. CASE FetchProc \/ FetchProcFails
    BY <1>6, FetchProcSteps
  <1>7. CASE Begin
    BY <1>7, BeginStep
  <1>8. CASE Pointers
    BY <1>8, PointersStep
  <1>9. CASE Clear
    BY <1>9, ClearStep
  <1>10. CASE Done \/ UNCHANGED vars
    BY <1>10, StutterStep DEF Done
  <1> QED BY <1>1, <1>2, <1>3, <1>4, <1>5, <1>6, <1>7, <1>8, <1>9, <1>10 DEF Next

\* The invariant holds for every set of routes that use the API in its order.
THEOREM Invariance == Spec => []IInv
  BY InitSound, NextSound, PTL DEF Spec

\* The pointers of a route always name objects of the request, and the sets on the
\* wire, the buffers and the handles have their types.
THEOREM StatementsTyped == Spec => []TypeOK
  <1>1. IInv => TypeOK
    BY DEF IInv
  <1> QED BY <1>1, Invariance, PTL

\* When ~rs_ptr and ~stmt_ptr have run, each handle of the request has been closed
\* exactly once, whichever calls failed on the way.
THEOREM HandlesAreClosed == Spec => []HandlesClosed
  <1>1. IInv => HandlesClosed
    BY DEF IInv, HandlesSound, HandlesClosed
  <1> QED BY <1>1, Invariance, PTL

\* No command is sent on the connection while a set of the last one is unread, in the
\* same request or in one that uses the connection after it.
THEOREM ConnectionInSync == Spec => []InSync
  <1>1. IInv => InSync
    BY DEF IInv, WireSound, InSync
  <1> QED BY <1>1, Invariance, PTL

\* What get() gives a route is in the row its statement fetched last, also after bind()
\* has moved the buffers: all of it for 64 bits, its first byte otherwise.
THEOREM RowsAsStored == Spec => []RowAsStored
  <1>1. IInv => RowAsStored
    BY DEF IInv
  <1> QED BY <1>1, Invariance, PTL
=============================================================================
