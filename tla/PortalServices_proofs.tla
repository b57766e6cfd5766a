----------------------- MODULE PortalServices_proofs -----------------------
(***************************************************************************)
(* Proofs about PortalServices for any number of requests, users, points   *)
(* and changes of the directory.  The four components share only the       *)
(* program counter of a request, so the invariant is a conjunction of one  *)
(* part for each, with a lemma that says which steps leave it alone.       *)
(***************************************************************************)
EXTENDS PortalServices, FiniteSetTheorems, SequenceTheorems, TLAPS

USE RequestAssumption

TasksTypeOK == pc \in [Request -> Place] /\ dropped \subseteq Request

\* Where a request can be tells which component it asked something of.
SqlPlaces ==
    \A r \in Request :
        /\ statement[r] # "none" => pc[r] \in {"context", "collect", "latency"} \cup Answers
        /\ pc[r] \in {"context", "collect", "latency"} => statement[r] # "none"

AppsPlaces ==
    \A r \in DOMAIN apps : pc[r] \in {"executors", "announce", "answered"}

\* While a login is under way, what the directory says now is among what it has said,
\* and the groups that the search returned are those of an entry that it had.
LoginPlaces ==
    \A r \in Request :
        /\ shown[r] # {} => pc[r] \in {"search", "bind", "mock"} \cup Answers
        /\ pc[r] \in {"search", "bind", "mock"} => live[credentials[r].user] \in shown[r]
        /\ pc[r] = "bind" => \E e \in shown[r] \ {NoEntry} : found[r] = e.groups

SqlInv   == SqlTypeOK /\ LineOK /\ SqlPlaces /\ QueriesExplained
AppsInv  == AppsTypeOK /\ AppsPlaces /\ AppsExplained
LoginInv == LoginTypeOK /\ LoginPlaces /\ GrantExplained

\* No point is later than the clock.
Past(points) == \A i \in 1..Len(points) : points[i].ts <= now
TsdbInv ==
    /\ TsdbTypeOK /\ SeriesRecent
    /\ \A k \in Key : Past(series[k])
    /\ Past(annotations)

Inv == TasksTypeOK /\ SqlInv /\ AppsInv /\ LoginInv /\ TsdbInv

-----------------------------------------------------------------------------
(* Sets and sequences *)

\* One request more is counted once.
LEMMA CountOneMore ==
  ASSUME NEW S \in SUBSET Request, NEW r \in Request, r \notin S
  PROVE  Cardinality(S) \in Nat /\ Cardinality(S \cup {r}) = Cardinality(S) + 1
  BY FS_Subset, FS_AddElement, FS_CardinalityType

\* What is left of a line when the one at place i leaves it.
LEMMA RemoveAtProperties ==
  ASSUME NEW S, NEW q \in Seq(S), NEW i \in 1..Len(q)
  PROVE  /\ RemoveAt(q, i) \in Seq(S)
         /\ Len(RemoveAt(q, i)) = Len(q) - 1
         /\ \A j \in 1..Len(q) - 1 : RemoveAt(q, i)[j] = IF j < i THEN q[j] ELSE q[j + 1]
<1> DEFINE a == SubSeq(q, 1, i - 1)
           b == SubSeq(q, i + 1, Len(q))
<1>1. /\ a \in Seq(S) /\ Len(a) = i - 1
      /\ \A j \in 1..i - 1 : a[j] = q[j]
  <2>1. \A j \in 1..i - 1 : q[j] \in S
    OBVIOUS
  <2> QED
    BY <2>1, SubSeqProperties
<1>2. /\ b \in Seq(S) /\ Len(b) = Len(q) - i
      /\ \A j \in 1..Len(q) - i : b[j] = q[i + j]
  <2>1. \A j \in i + 1..Len(q) : q[j] \in S
    OBVIOUS
  <2>2. /\ b \in Seq(S) /\ Len(b) = IF i + 1 <= Len(q) THEN Len(q) - (i + 1) + 1 ELSE 0
        /\ \A j \in 1..Len(q) - (i + 1) + 1 : b[j] = q[i + 1 + j - 1]
    BY <2>1, SubSeqProperties
  <2> QED
    BY <2>2
<1> HIDE DEF a, b
<1>3. /\ a \o b \in Seq(S)
      /\ Len(a \o b) = Len(a) + Len(b)
      /\ \A j \in 1..Len(a) + Len(b) : (a \o b)[j] = IF j <= Len(a) THEN a[j] ELSE b[j - Len(a)]
  BY <1>1, <1>2, ConcatProperties
<1>4. RemoveAt(q, i) = a \o b
  BY DEF RemoveAt, a, b
<1>5. ASSUME NEW j \in 1..Len(q) - 1 PROVE (a \o b)[j] = IF j < i THEN q[j] ELSE q[j + 1]
  <2>1. CASE j < i
    BY <2>1, <1>1, <1>2, <1>3
  <2>2. CASE ~(j < i)
    <3>1. j - (i - 1) \in 1..Len(q) - i /\ (a \o b)[j] = b[j - (i - 1)]
      BY <2>2, <1>1, <1>2, <1>3
    <3>2. b[j - (i - 1)] = q[i + (j - (i - 1))]
      BY <3>1, <1>2
    <3> QED
      BY <3>1, <3>2, <2>2
  <2> QED
    BY <2>1, <2>2
<1>6. Len(a \o b) = Len(q) - 1
  BY <1>1, <1>2, <1>3
<1> QED
  BY <1>3, <1>4, <1>5, <1>6, Zenon

-----------------------------------------------------------------------------
(* Steps that leave a component alone *)

\* The query engine sees nothing of a request that asked it nothing.
LEMMA SqlKept ==
  ASSUME Inv, NEW r \in Request, statement[r] = "none",
         NEW to \in Place \ {"context", "collect", "latency"},
         pc' = [pc EXCEPT ![r] = to], UNCHANGED <<dropped, sqlVars>>
  PROVE  SqlInv'
<1> USE DEF Inv, TasksTypeOK, SqlInv, SqlPlaces, sqlVars
<1>1. pc[r] \notin {"context", "collect", "latency"}
  OBVIOUS
<1>2. SqlTypeOK'
  BY DEF SqlTypeOK
<1>3. LineOK'
  BY <1>1 DEF LineOK, At, Holds, Places
<1>4. SqlPlaces'
  BY <1>1 DEF SqlTypeOK
<1>5. QueriesExplained'
  <2>1. Query' = Query /\ r \notin Query
    BY DEF Query
  <2>2. \A q \in Query : pc'[q] = pc[q]
    BY <2>1 DEF Query
  <2>3. /\ {q \in Query : pc[q] \in {"latency", "answered"}}'
              = {q \in Query : pc[q] \in {"latency", "answered"}}
        /\ {q \in Query : pc[q] = "refused"}' = {q \in Query : pc[q] = "refused"}
    BY <2>1, <2>2
  <2> QED
    BY <2>1, <2>2, <2>3 DEF QueriesExplained
<1> QED
  BY <1>2, <1>3, <1>4, <1>5

\* The application table sees nothing of a request that is not about it.
LEMMA AppsKept ==
  ASSUME Inv, NEW r \in Request, r \notin DOMAIN apps,
         NEW to \in Place \ {"executors", "announce"},
         pc[r] \notin {"executors", "announce"},
         pc' = [pc EXCEPT ![r] = to],
         UNCHANGED <<appVars, annotations, log["active_spark_executors"]>>
  PROVE  AppsInv'
<1> USE DEF Inv, TasksTypeOK, AppsInv, appVars
<1>1. AppsTypeOK' /\ AppsPlaces'
  BY DEF AppsTypeOK, AppsPlaces
<1>2. Announced' = Announced /\ Charted' = Charted
  BY DEF Announced, Charted
<1>3. /\ {q \in Request : pc[q] = "executors"}' = {q \in Request : pc[q] = "executors"}
      /\ {q \in Request : pc[q] = "announce"}' = {q \in Request : pc[q] = "announce"}
  OBVIOUS
<1>4. AppsExplained'
  BY <1>2, <1>3 DEF AppsExplained
<1> QED
  BY <1>1, <1>4

\* Logins see nothing of a request that is none.
LEMMA LoginKept ==
  ASSUME Inv, NEW r \in Request, shown[r] = {},
         NEW to \in Place \ {"search", "bind", "mock"},
         pc' = [pc EXCEPT ![r] = to], UNCHANGED loginVars
  PROVE  LoginInv'
<1> USE DEF Inv, TasksTypeOK, LoginInv, LoginPlaces, loginVars
<1>1. pc[r] \notin {"search", "bind", "mock"}
  OBVIOUS
<1>2. LoginTypeOK'
  BY DEF LoginTypeOK
<1>3. LoginPlaces'
  BY <1>1
<1>4. GrantExplained'
  <2>1. Login' = Login /\ r \notin Login
    BY DEF Login
  <2>2. \A q \in Login : pc'[q] = pc[q]
    BY <2>1 DEF Login
  <2>3. /\ {q \in Login : pc[q] = "answered"}' = {q \in Login : pc[q] = "answered"}
        /\ {q \in Login : pc[q] = "refused"}' = {q \in Login : pc[q] = "refused"}
    BY <2>1, <2>2
  <2>4. \A q \in Login : pc'[q] = "answered" => pc[q] = "answered"
    BY <2>2
  <2> QED
    BY <2>1, <2>3, <2>4 DEF GrantExplained
<1> QED
  BY <1>2, <1>3, <1>4

\* A step that moves no request and touches nothing else leaves all as it is.
LEMMA TsdbKept ==
  ASSUME Inv, UNCHANGED <<tsdbVars, samples>>
  PROVE  TsdbInv'
<1>1. TsdbTypeOK' /\ SeriesRecent'
  BY DEF Inv, TsdbInv, tsdbVars, TsdbTypeOK, SeriesRecent, InOrder
<1> QED
  BY <1>1 DEF Inv, TsdbInv, tsdbVars, Past

-----------------------------------------------------------------------------
(* The query engine *)

\* A request joins the line.
LEMMA StartQueryInv ==
  ASSUME Inv, NEW r \in Request, StartQuery(r)
  PROVE  SqlInv'
<1> USE DEF Inv, TasksTypeOK, SqlInv, StartQuery, Goto
<1>0. statement[r] = "none" /\ pc[r] = "idle" /\ r \notin dropped
  BY DEF SqlPlaces, At, Answers
<1>1. SqlTypeOK'
  BY DEF SqlTypeOK
<1>2. SqlPlaces'
  <2>1. PICK st \in Statement : statement' = [statement EXCEPT ![r] = st]
    OBVIOUS
  <2> QED
    BY <2>1 DEF SqlPlaces, SqlTypeOK, Statement
<1>3. LineOK'
  <2> DEFINE n == Len(ctxQueue)
  <2>1. /\ ctxQueue' \in Seq(Request) /\ Len(ctxQueue') = n + 1 /\ n \in Nat
        /\ \A i \in 1..n : ctxQueue'[i] = ctxQueue[i]
        /\ ctxQueue'[n + 1] = r
    BY AppendProperties DEF LineOK
  <2>2. \A i \in 1..n : ctxQueue[i] # r
    BY <1>0 DEF LineOK, Places, At
  <2>3. \A i, j \in 1..n + 1 : ctxQueue'[i] = ctxQueue'[j] => i = j
    BY <2>1, <2>2 DEF LineOK
  <2>4. ASSUME NEW q \in Request PROVE Places(q)' # {} <=> q = r \/ Places(q) # {}
    BY <2>1, <2>2 DEF Places
  <2>5. \A q \in Request : At(q, "context")' \/ At(q, "collect")' <=>
                             q = r \/ At(q, "context") \/ At(q, "collect")
    BY <1>0 DEF At
  <2>6. ASSUME NEW q \in Request, At(q, "collect")' PROVE Holds(q)'
    <3>1. At(q, "collect")
      BY <2>6, <1>0 DEF At
    <3>2. n >= 1 /\ ctxQueue[1] = q
      BY <3>1 DEF LineOK, Holds
    <3> QED
      BY <3>2, <2>1 DEF Holds
  <2> HIDE DEF StartQuery
  <2> QED
    BY <2>1, <2>3, <2>4, <2>5, <2>6 DEF LineOK
<1>4. QueriesExplained'
  <2>1. Query' = Query \cup {r} /\ r \notin Query
    BY <1>0 DEF Query, SqlTypeOK, Statement
  <2>2. \A q \in Query : pc'[q] = pc[q] /\ statement'[q] = statement[q]
    BY <2>1 DEF Query
  <2>3. /\ {q \in Query : pc[q] \in {"latency", "answered"}}'
              = {q \in Query : pc[q] \in {"latency", "answered"}}
        /\ {q \in Query : pc[q] = "refused"}' = {q \in Query : pc[q] = "refused"}
    BY <2>1, <2>2
  <2> QED
    BY <2>1, <2>2, <2>3 DEF QueriesExplained
<1> QED
  BY <1>1, <1>2, <1>3, <1>4

\* The holder goes on.
LEMMA PlanInv ==
  ASSUME Inv, NEW r \in Request, Plan(r)
  PROVE  SqlInv'
<1> USE DEF Inv, TasksTypeOK, SqlInv, Plan, Goto
<1>0. statement[r] # "none" /\ pc[r] = "context" /\ r \notin dropped
  BY DEF SqlPlaces, At
<1>1. SqlTypeOK' /\ SqlPlaces'
  BY <1>0 DEF SqlTypeOK, SqlPlaces
<1>2. LineOK'
  BY <1>0 DEF LineOK, Places, Holds, At
<1>3. QueriesExplained'
  <2>1. Query' = Query /\ r \in Query
    BY <1>0 DEF Query
  <2>2. /\ {q \in Query : pc[q] \in {"latency", "answered"}}'
              = {q \in Query : pc[q] \in {"latency", "answered"}}
        /\ {q \in Query : pc[q] = "refused"}' = {q \in Query : pc[q] = "refused"}
    BY <1>0, <2>1 DEF Query
  <2>3. ~registered' => \E q \in Query' : statement'[q] = "drop" /\ pc'[q] # "context"
    BY <1>0, <2>1 DEF Query
  <2> QED
    BY <2>2, <2>3 DEF QueriesExplained
<1> QED
  BY <1>1, <1>2, <1>3

\* The holder gives the context to the next in line.
LEMMA HandOver ==
  ASSUME Inv, NEW r \in Request, Holds(r), NEW from \in {"context", "collect"}, pc[r] = from,
         NEW to \in Place \ {"context", "collect"}, r \notin dropped,
         pc' = [pc EXCEPT ![r] = to], ctxQueue' = Tail(ctxQueue), UNCHANGED dropped
  PROVE  LineOK'
<1> USE DEF Inv, TasksTypeOK, SqlInv
<1> DEFINE n == Len(ctxQueue)
<1>1. ctxQueue \in Seq(Request) /\ ctxQueue # <<>> /\ n \in Nat /\ n >= 1 /\ ctxQueue[1] = r
  BY DEF Holds, LineOK
<1>2. /\ ctxQueue' \in Seq(Request) /\ Len(ctxQueue') = n - 1
      /\ \A i \in 1..n - 1 : ctxQueue'[i] = ctxQueue[i + 1]
  BY <1>1, HeadTailProperties
<1>3. \A i, j \in 1..n - 1 : ctxQueue'[i] = ctxQueue'[j] => i = j
  BY <1>1, <1>2 DEF LineOK
<1>4. ASSUME NEW q \in Request PROVE Places(q)' # {} <=> q # r /\ Places(q) # {}
  <2>1. CASE q = r
    <3>1. \A i \in 2..n : ctxQueue[i] # r
      BY <1>1 DEF LineOK
    <3> QED
      BY <2>1, <3>1, <1>1, <1>2 DEF Places
  <2>2. CASE q # r
    <3>1. ASSUME NEW i \in Places(q) PROVE i - 1 \in Places(q)'
      BY <2>2, <1>1, <1>2 DEF Places
    <3>2. ASSUME NEW i \in Places(q)' PROVE i + 1 \in Places(q)
      BY <1>1, <1>2 DEF Places
    <3> QED
      BY <2>2, <3>1, <3>2
  <2> QED
    BY <2>1, <2>2
<1>5. \A q \in Request : At(q, "context")' \/ At(q, "collect")' <=>
                           q # r /\ (At(q, "context") \/ At(q, "collect"))
  BY DEF At
<1>6. \A q \in Request : ~At(q, "collect")'
  BY <1>1 DEF At, LineOK, Holds
<1> QED
  BY <1>2, <1>3, <1>4, <1>5, <1>6 DEF LineOK

\* A query comes to its end and is counted under the label of that end.
LEMMA FinishInv ==
  ASSUME Inv, NEW r \in Request, Holds(r), NEW from \in {"context", "collect"}, At(r, from),
         NEW to \in {"latency", "refused"},
         NEW label \in {"success", "error"}, label = "success" <=> to = "latency",
         Goto(r, from, to), Count(label), ctxQueue' = Tail(ctxQueue),
         from = "context" => registered \/ \E q \in Query \ {r} : statement[q] = "drop" /\ pc[q] # "context",
         UNCHANGED <<statement, registered>>
  PROVE  SqlInv'
<1> USE DEF Inv, TasksTypeOK, SqlInv, Goto
<1>0. statement[r] # "none" /\ pc[r] = from /\ r \notin dropped
  BY DEF SqlPlaces, At
<1>1. SqlTypeOK'
  BY DEF SqlTypeOK, Count
<1>2. SqlPlaces'
  BY <1>0 DEF SqlPlaces, Answers
<1>3. LineOK'
  BY <1>0, HandOver DEF Place, Answers
<1>4. QueriesExplained'
  <2> DEFINE S == {q \in Query : pc[q] \in {"latency", "answered"}}
             F == {q \in Query : pc[q] = "refused"}
  <2>1. Query' = Query /\ r \in Query /\ S \subseteq Request /\ F \subseteq Request
        /\ r \notin S /\ r \notin F
    BY <1>0 DEF Query
  <2>2. S' = (IF label = "success" THEN S \cup {r} ELSE S)
    BY <1>0, <2>1 DEF Query
  <2>3. F' = (IF label = "success" THEN F ELSE F \cup {r})
    BY <1>0, <2>1 DEF Query
  <2>4. queries_total.success = Cardinality(S) /\ queries_total.error = Cardinality(F)
    BY DEF QueriesExplained
  <2>5. /\ Cardinality(S \cup {r}) = Cardinality(S) + 1
        /\ Cardinality(F \cup {r}) = Cardinality(F) + 1
    BY <2>1, CountOneMore
  <2>6. /\ queries_total'.success = Cardinality(S')
        /\ queries_total'.error = Cardinality(F')
    BY <2>2, <2>3, <2>4, <2>5 DEF Count, SqlTypeOK
  <2>7. ~registered' => \E q \in Query' : statement'[q] = "drop" /\ pc'[q] # "context"
    BY <1>0, <2>1 DEF QueriesExplained, Query
  <2> QED
    BY <2>6, <2>7 DEF QueriesExplained
<1> QED
  BY <1>1, <1>2, <1>3, <1>4

\* A client that goes takes its query out of the line.
LEMMA LeaveInv ==
  ASSUME Inv, NEW r \in Request, dropped' = dropped \cup {r}, Leave(r),
         UNCHANGED <<pc, statement, registered, queries_total>>
  PROVE  SqlInv'
<1> USE DEF Inv, TasksTypeOK, SqlInv
<1>1. SqlTypeOK' /\ SqlPlaces' /\ QueriesExplained'
  BY DEF SqlTypeOK, SqlPlaces, QueriesExplained, Query
<1>2. CASE Places(r) = {} /\ UNCHANGED ctxQueue
  <2>1. LineOK'
    BY <1>2 DEF LineOK, Places, Holds, At
  <2> QED
    BY <1>1, <2>1
<1>3. ASSUME NEW i \in Places(r), ctxQueue' = RemoveAt(ctxQueue, i) PROVE LineOK'
  <2> DEFINE n == Len(ctxQueue)
  <2>1. ctxQueue \in Seq(Request) /\ n \in Nat /\ i \in 1..n /\ ctxQueue[i] = r
    BY DEF Places, LineOK
  <2>2. /\ ctxQueue' \in Seq(Request) /\ Len(ctxQueue') = n - 1
        /\ \A j \in 1..n - 1 : ctxQueue'[j] = IF j < i THEN ctxQueue[j] ELSE ctxQueue[j + 1]
    BY <1>3, <2>1, RemoveAtProperties
  <2>3. \A j \in 1..n : ctxQueue[j] = r => j = i
    BY <2>1 DEF LineOK
  <2>4. \A j, k \in 1..n - 1 : ctxQueue'[j] = ctxQueue'[k] => j = k
    <3> SUFFICES ASSUME NEW j \in 1..n - 1, NEW k \in 1..n - 1, ctxQueue'[j] = ctxQueue'[k]
                 PROVE  j = k
      OBVIOUS
    <3> DEFINE P(x) == IF x < i THEN x ELSE x + 1
    <3>1. P(j) \in 1..n /\ P(k) \in 1..n /\ (P(j) = P(k) => j = k)
      BY <2>1
    <3>2. ctxQueue'[j] = ctxQueue[P(j)] /\ ctxQueue'[k] = ctxQueue[P(k)]
      BY <2>2
    <3> HIDE DEF P
    <3>3. P(j) = P(k)
      BY <3>1, <3>2 DEF LineOK
    <3> QED
      BY <3>1, <3>3
  <2>5. ASSUME NEW q \in Request PROVE Places(q)' # {} <=> q # r /\ Places(q) # {}
    <3>1. ASSUME NEW j \in Places(q), q # r PROVE Places(q)' # {}
      <4>1. j \in 1..n /\ j # i /\ ctxQueue[j] = q
        BY <3>1, <2>1 DEF Places
      <4>2. CASE j < i
        <5>1. j \in 1..n - 1 /\ ctxQueue'[j] = q
          BY <4>1, <4>2, <2>1, <2>2
        <5> QED
          BY <5>1, <2>2 DEF Places
      <4>3. CASE j > i
        <5>1. j - 1 \in 1..n - 1 /\ ctxQueue'[j - 1] = ctxQueue[j - 1 + 1]
          BY <4>1, <4>3, <2>1, <2>2
        <5>2. ctxQueue[j - 1 + 1] = q
          BY <4>1
        <5> QED
          BY <5>1, <5>2, <2>2 DEF Places
      <4> QED
        BY <4>1, <4>2, <4>3, <2>1
    <3>2. ASSUME NEW j \in Places(q)' PROVE q # r /\ Places(q) # {}
      <4>1. j \in 1..n - 1 /\ ctxQueue'[j] = q
        BY <2>2 DEF Places
      <4>2. (IF j < i THEN j ELSE j + 1) \in 1..n /\ (IF j < i THEN j ELSE j + 1) # i
        BY <4>1, <2>1
      <4>3. ctxQueue[IF j < i THEN j ELSE j + 1] = q
        BY <4>1, <2>2
      <4> QED
        BY <4>2, <4>3, <2>3 DEF Places
    <3> QED
      BY <3>1, <3>2
  <2>6. \A q \in Request : At(q, "context")' \/ At(q, "collect")' <=>
                             q # r /\ (At(q, "context") \/ At(q, "collect"))
    BY DEF At
  <2>7. ASSUME NEW q \in Request, At(q, "collect")' PROVE Holds(q)'
    <3>1. q # r /\ At(q, "collect")
      BY <2>7 DEF At
    <3>2. ctxQueue # <<>> /\ ctxQueue[1] = q
      BY <3>1 DEF LineOK, Holds
    <3>3. i # 1 /\ n >= 2
      BY <3>1, <3>2, <2>1
    <3> QED
      BY <3>2, <3>3, <2>1, <2>2 DEF Holds
  <2> QED
    BY <2>2, <2>4, <2>5, <2>6, <2>7 DEF LineOK
<1> QED
  BY <1>1, <1>2, <1>3 DEF Leave

\* Every step of a query.
LEMMA SqlStepInv ==
  ASSUME Inv, NEW r \in Request,
         StartQuery(r) \/ Plan(r) \/ PlanFails(r) \/ Collect(r) \/ CollectFails(r)
  PROVE  SqlInv'
<1>1. CASE PlanFails(r)
  <2>1. registered \/ \E q \in Query \ {r} : statement[q] = "drop" /\ pc[q] # "context"
    BY <1>1 DEF PlanFails, Goto, At, Inv, SqlInv, QueriesExplained
  <2> QED
    BY <1>1, <2>1, FinishInv DEF PlanFails, Goto
<1>2. CASE Collect(r)
  BY <1>2, FinishInv DEF Collect, Collected, Goto
<1>3. CASE CollectFails(r)
  BY <1>3, FinishInv DEF CollectFails, Collected, Goto
<1> QED
  BY <1>1, <1>2, <1>3, StartQueryInv, PlanInv

-----------------------------------------------------------------------------
(* The time series *)

\* Series s shows the end of log l, in order, and nothing later than t.
ShowsEnd(s, l) ==
    /\ Len(s) = (IF Len(l) < MaxPoints THEN Len(l) ELSE MaxPoints)
    /\ \A i \in 1..Len(s) : s[i] = l[Len(l) - Len(s) + i]
NotAfter(s, t) == \A i \in 1..Len(s) : s[i].ts <= t

\* What is appended to a sequence in order, and is not earlier, is in order.
LEMMA AppendInOrder ==
  ASSUME NEW s \in Seq(Point), NEW p \in Point, InOrder(s), NotAfter(s, p.ts)
  PROVE  /\ Append(s, p) \in Seq(Point) /\ Len(Append(s, p)) = Len(s) + 1
         /\ \A i \in 1..Len(s) : Append(s, p)[i] = s[i]
         /\ Append(s, p)[Len(s) + 1] = p
         /\ InOrder(Append(s, p)) /\ NotAfter(Append(s, p), p.ts)
<1> DEFINE n == Len(s)
           u == Append(s, p)
<1>1. /\ u \in Seq(Point) /\ Len(u) = n + 1 /\ n \in Nat
      /\ \A i \in 1..n : u[i] = s[i]
      /\ u[n + 1] = p
  BY AppendProperties
<1>2. p.ts \in Int
  BY DEF Point
<1> HIDE DEF u
<1>3. \A i \in 1..n : u[i].ts <= p.ts
  BY <1>1 DEF NotAfter
<1>4. NotAfter(u, p.ts)
  <2>1. \A i \in 1..n + 1 : i \in 1..n \/ i = n + 1
    BY <1>1
  <2> QED
    BY <1>1, <1>2, <1>3, <2>1 DEF NotAfter
<1>5. ASSUME NEW i \in 1..n + 1, NEW j \in 1..n + 1, i < j PROVE u[i].ts <= u[j].ts
  <2>1. i \in 1..n
    BY <1>1, <1>5
  <2>2. CASE j = n + 1
    BY <2>1, <2>2, <1>1, <1>3
  <2>3. CASE j \in 1..n
    BY <2>1, <2>3, <1>1, <1>5 DEF InOrder
  <2> QED
    BY <1>1, <2>2, <2>3
<1> QED
  BY <1>1, <1>4, <1>5 DEF InOrder, u

\* A push appends, and drops the oldest point of a series that is full.
LEMMA PushShowsEnd ==
  ASSUME NEW s \in Seq(Point), NEW l \in Seq(Point), NEW p \in Point,
         InOrder(s), NotAfter(s, p.ts), ShowsEnd(s, l)
  PROVE  /\ Push(s, p) \in Seq(Point)
         /\ InOrder(Push(s, p)) /\ NotAfter(Push(s, p), p.ts)
         /\ ShowsEnd(Push(s, p), Append(l, p))
<1> DEFINE m == Len(l)
           k == Append(l, p)
<1>0. /\ k \in Seq(Point) /\ Len(k) = m + 1 /\ m \in Nat
      /\ \A i \in 1..m : k[i] = l[i]
      /\ k[m + 1] = p
  BY AppendProperties
<1>1. MaxPoints \in Nat /\ MaxPoints > 0
  BY TsdbAssumption
<1> HIDE DEF k
<1>2. CASE Len(s) >= MaxPoints
  <2> DEFINE r == Tail(s)
             n == Len(r)
             u == Append(r, p)
  <2>1. Len(s) = MaxPoints /\ m >= MaxPoints /\ s # <<>>
    BY <1>0, <1>1, <1>2 DEF ShowsEnd
  <2>2. /\ r \in Seq(Point) /\ n = MaxPoints - 1 /\ n \in Nat
        /\ \A i \in 1..n : r[i] = s[i + 1]
    BY <1>1, <2>1, HeadTailProperties
  <2> HIDE DEF r
  <2>3. NotAfter(r, p.ts)
    <3>1. \A i \in 1..n : i + 1 \in 1..Len(s)
      BY <2>1, <2>2
    <3> QED
      BY <2>2, <3>1 DEF NotAfter
  <2>4. InOrder(r)
    <3>1. \A i, j \in 1..n : i + 1 \in 1..Len(s) /\ (i < j => i + 1 < j + 1)
      BY <2>1, <2>2
    <3> QED
      BY <2>2, <3>1 DEF InOrder
  <2>5. /\ u \in Seq(Point) /\ Len(u) = n + 1 /\ InOrder(u) /\ NotAfter(u, p.ts)
        /\ \A i \in 1..n : u[i] = r[i]
        /\ u[n + 1] = p
    BY <2>2, <2>3, <2>4, AppendInOrder
  <2> HIDE DEF u
  <2>6. ASSUME NEW i \in 1..n PROVE u[i] = k[Len(k) - Len(u) + i]
    <3>1. i + 1 \in 1..Len(s) /\ m - Len(s) + (i + 1) \in 1..m
      BY <1>0, <2>1, <2>2
    <3>2. u[i] = l[m - Len(s) + (i + 1)]
      BY <2>2, <2>5, <3>1 DEF ShowsEnd
    <3>3. Len(k) - Len(u) + i = m - Len(s) + (i + 1)
      BY <1>0, <1>1, <2>1, <2>2, <2>5
    <3> QED
      BY <1>0, <3>1, <3>2, <3>3
  <2>7. u[n + 1] = k[Len(k) - Len(u) + (n + 1)]
    <3>1. Len(k) - Len(u) + (n + 1) = m + 1
      BY <1>0, <2>2, <2>5
    <3> QED
      BY <1>0, <2>5, <3>1
  <2>8. \A i \in 1..Len(u) : i \in 1..n \/ i = n + 1
    BY <2>2, <2>5
  <2>9. ShowsEnd(u, k)
    <3>1. Len(u) = (IF Len(k) < MaxPoints THEN Len(k) ELSE MaxPoints)
      BY <1>0, <1>1, <2>1, <2>2, <2>5
    <3> QED
      BY <2>6, <2>7, <2>8, <3>1 DEF ShowsEnd
  <2>10. Push(s, p) = u
    BY <1>2 DEF Push, u, r
  <2> QED
    BY <2>5, <2>9, <2>10 DEF k
<1>3. CASE ~(Len(s) >= MaxPoints)
  <2> DEFINE n == Len(s)
             u == Append(s, p)
  <2>1. n = m /\ m < MaxPoints
    BY <1>0, <1>1, <1>3 DEF ShowsEnd
  <2>2. /\ u \in Seq(Point) /\ Len(u) = n + 1 /\ InOrder(u) /\ NotAfter(u, p.ts)
        /\ \A i \in 1..n : u[i] = s[i]
        /\ u[n + 1] = p
    BY AppendInOrder
  <2> HIDE DEF u
  <2>3. ASSUME NEW i \in 1..n + 1 PROVE u[i] = k[Len(k) - Len(u) + i]
    <3>1. Len(k) - Len(u) + i = i
      BY <1>0, <2>1, <2>2
    <3>2. i \in 1..n => m - n + i = i
      BY <1>0, <2>1
    <3>3. u[i] = k[i]
      BY <1>0, <2>1, <2>2, <3>2 DEF ShowsEnd
    <3> QED
      BY <3>1, <3>3
  <2>4. Len(u) = (IF Len(k) < MaxPoints THEN Len(k) ELSE MaxPoints)
    BY <1>0, <1>1, <2>1, <2>2
  <2>5. ShowsEnd(u, k)
    BY <2>2, <2>3, <2>4 DEF ShowsEnd
  <2>6. Push(s, p) = u
    BY <1>3 DEF Push, u
  <2> QED
    BY <2>2, <2>5, <2>6 DEF k
<1> QED
  BY <1>2, <1>3

\* A new point is the newest of its series, which still shows the end of the log.
LEMMA RecordInv ==
  ASSUME Inv, NEW key \in Key, NEW by \in Recorder, Record(key, by), samples' \in Nat
  PROVE  TsdbInv'
<1> DEFINE p == [by |-> by, ts |-> now]
           s == Push(series[key], p)
           l == Append(log[key], p)
<1>0. /\ p \in Point /\ p.ts = now
      /\ now \in Nat
      /\ series \in [Key -> Seq(Point)] /\ log \in [Key -> Seq(Point)] /\ annotations \in Seq(Point)
  <2>1. /\ now \in Nat
        /\ series \in [Key -> Seq(Point)] /\ log \in [Key -> Seq(Point)] /\ annotations \in Seq(Point)
    BY DEF Inv, TsdbInv, TsdbTypeOK
  <2>2. p \in Point /\ p.ts = now
    BY <2>1 DEF Point
  <2> QED
    BY <2>1, <2>2
<1>1. /\ series' = [series EXCEPT ![key] = s] /\ log' = [log EXCEPT ![key] = l]
      /\ UNCHANGED <<annotations, now>>
  BY DEF Record
<1> HIDE DEF p
<1>2. \A k \in Key : ShowsEnd(series[k], log[k]) /\ InOrder(series[k]) /\ NotAfter(series[k], now)
  BY DEF Inv, TsdbInv, SeriesRecent, ShowsEnd, Past, NotAfter
<1>3. /\ s \in Seq(Point) /\ l \in Seq(Point)
      /\ InOrder(s) /\ NotAfter(s, now) /\ ShowsEnd(s, l)
  <2>1. series[key] \in Seq(Point) /\ log[key] \in Seq(Point)
    BY <1>0
  <2>2. l \in Seq(Point)
    BY <1>0, <2>1, AppendProperties
  <2> QED
    BY <1>0, <1>2, <2>1, <2>2, PushShowsEnd
<1> HIDE DEF s, l
<1>4. TsdbTypeOK'
  BY <1>0, <1>1, <1>3 DEF TsdbTypeOK
<1>5. \A k \in Key : ShowsEnd(series'[k], log'[k]) /\ InOrder(series'[k]) /\ NotAfter(series'[k], now)
  BY <1>0, <1>1, <1>2, <1>3
<1>6. InOrder(annotations) /\ NotAfter(annotations, now)
  BY DEF Inv, TsdbInv, SeriesRecent, Past, NotAfter
<1>7. SeriesRecent'
  BY <1>1, <1>5, <1>6 DEF SeriesRecent, ShowsEnd, InOrder
<1>8. (\A k \in Key : Past(series[k]))' /\ Past(annotations)'
  BY <1>1, <1>5, <1>6 DEF Past, NotAfter
<1> QED
  BY <1>4, <1>7, <1>8 DEF TsdbInv

\* An annotation is the latest.
LEMMA AnnotateInv ==
  ASSUME Inv, NEW by \in Recorder, AddAnnotation(by), UNCHANGED samples
  PROVE  TsdbInv'
<1> DEFINE p == [by |-> by, ts |-> now]
<1>1. p \in Point /\ p.ts = now /\ annotations \in Seq(Point)
  BY DEF Point, Inv, TsdbInv, TsdbTypeOK
<1>2. annotations' = Append(annotations, p) /\ UNCHANGED <<series, log, now>>
  BY DEF AddAnnotation
<1> HIDE DEF p
<1>3. InOrder(annotations) /\ NotAfter(annotations, now)
  BY DEF Inv, TsdbInv, SeriesRecent, Past, NotAfter
<1>4. annotations' \in Seq(Point) /\ InOrder(annotations') /\ NotAfter(annotations', now)
  BY <1>1, <1>2, <1>3, AppendInOrder
<1>5. TsdbTypeOK'
  BY <1>2, <1>4 DEF Inv, TsdbInv, TsdbTypeOK
<1>6. SeriesRecent'
  BY <1>2, <1>4 DEF Inv, TsdbInv, SeriesRecent, InOrder
<1>7. (\A k \in Key : Past(series[k]))' /\ Past(annotations)'
  BY <1>2, <1>4 DEF Inv, TsdbInv, Past, NotAfter
<1> QED
  BY <1>5, <1>6, <1>7 DEF TsdbInv

-----------------------------------------------------------------------------
(* The applications *)

\* What the application table, the chart and the annotations say of one another is
\* about requests that have not been answered yet.
LEMMA NewApp ==
  ASSUME Inv, NEW r \in Request, pc[r] = "idle"
  PROVE  r \notin DOMAIN apps /\ r \notin Charted /\ r \notin Announced
<1>1. r \notin DOMAIN apps
  BY DEF Inv, AppsInv, AppsPlaces
<1>2. r \notin {"seed", "sampler"}
  BY ServicesAssumption
<1> QED
  BY <1>1, <1>2 DEF Inv, AppsInv, AppsExplained

\* A session enters the table of those that are RUNNING.
LEMMA BootstrapInv ==
  ASSUME Inv, NEW r \in Request, Bootstrap(r), UNCHANGED <<annotations, log>>
  PROVE  AppsInv'
<1> USE DEF Inv, TasksTypeOK, AppsInv, Bootstrap, Goto, At
<1>1. r \notin DOMAIN apps /\ r \notin Charted /\ r \notin Announced
  BY NewApp
<1>2. PICK n \in Executors :
        /\ Violations(Job(n)) = {}
        /\ apps' = [a \in DOMAIN apps \cup {r} |->
                      IF a = r THEN [status |-> "RUNNING", executors |-> n] ELSE apps[a]]
  OBVIOUS
<1>3. n \in 0..CoreLimit
  <2>1. ~(n > CoreLimit)
    <3>1. "cores" \notin Violations(Job(n))
      BY <1>2
    <3> QED
      BY <3>1 DEF Violations, Job
  <2> QED
    BY <2>1, AppsAssumption DEF CoreLimit
<1>4. DOMAIN apps' = DOMAIN apps \cup {r}
  BY <1>2
<1>5. AppsTypeOK'
  BY <1>2, <1>3 DEF AppsTypeOK
<1>6. AppsPlaces'
  BY <1>4 DEF AppsPlaces, AppsTypeOK
<1>7. Announced' = Announced /\ Charted' = Charted
  BY DEF Announced, Charted
<1>8. /\ {q \in Request : pc[q] = "executors"}' = {q \in Request : pc[q] = "executors"} \cup {r}
      /\ {q \in Request : pc[q] = "announce"}' = {q \in Request : pc[q] = "announce"}
  OBVIOUS
<1>9. AppsExplained'
  BY <1>1, <1>4, <1>7, <1>8 DEF AppsExplained
<1> QED
  BY <1>5, <1>6, <1>9

\* A session is ended, or a policy is applied, or the request is turned away.
LEMMA AppStepInv ==
  ASSUME Inv, NEW r \in Request, UNCHANGED <<annotations, log>>,
         Bootstrap(r) \/ RejectJob(r) \/ Terminate(r) \/ AppNotFound(r) \/ ApplyPolicy(r)
  PROVE  AppsInv'
<1> USE DEF Inv, TasksTypeOK, Goto, At
<1>1. CASE RejectJob(r) \/ AppNotFound(r)
  BY <1>1, NewApp, AppsKept DEF RejectJob, AppNotFound, Place, Answers, appVars
<1>2. ASSUME pc[r] = "idle", pc' = [pc EXCEPT ![r] = "answered"], DOMAIN apps' = DOMAIN apps, AppsTypeOK'
      PROVE  AppsInv'
  <2>1. r \notin DOMAIN apps
    BY <1>2, NewApp
  <2>2. AppsPlaces'
    BY <1>2, <2>1 DEF AppsInv, AppsPlaces, AppsTypeOK
  <2>3. Announced' = Announced /\ Charted' = Charted
    BY DEF Announced, Charted
  <2>4. /\ {q \in Request : pc[q] = "executors"}' = {q \in Request : pc[q] = "executors"}
        /\ {q \in Request : pc[q] = "announce"}' = {q \in Request : pc[q] = "announce"}
    BY <1>2
  <2>5. AppsExplained'
    BY <1>2, <2>3, <2>4 DEF AppsInv, AppsExplained
  <2> QED
    BY <1>2, <2>2, <2>5 DEF AppsInv
<1>3. CASE Terminate(r)
  <2>1. DOMAIN apps' = DOMAIN apps /\ AppsTypeOK'
    BY <1>3 DEF Terminate, AppsInv, AppsTypeOK
  <2> QED
    BY <1>2, <1>3, <2>1 DEF Terminate
<1>4. CASE ApplyPolicy(r)
  <2>1. policies' \in Seq(Request \cup {"default"})
    BY <1>4, AppendProperties DEF ApplyPolicy, AppsInv, AppsTypeOK
  <2>2. DOMAIN apps' = DOMAIN apps /\ AppsTypeOK'
    BY <1>4, <2>1 DEF ApplyPolicy, AppsInv, AppsTypeOK
  <2> QED
    BY <1>2, <1>4, <2>2 DEF ApplyPolicy
<1> QED
  BY <1>1, <1>3, <1>4, BootstrapInv

\* Whose points a series has been given, once r has given it another.
LEMMA RecordCharted ==
  ASSUME Inv, NEW by \in Recorder, NEW key \in Key, Record(key, by)
  PROVE  /\ Announced' = Announced
         /\ key = "active_spark_executors" => Charted' = Charted \cup {by}
         /\ key # "active_spark_executors" => Charted' = Charted
<1> DEFINE k == "active_spark_executors"
           p == [by |-> by, ts |-> now]
<1>1. Announced' = Announced
  BY DEF Record, Announced
<1>2. log \in [Key -> Seq(Point)] /\ now \in Nat
  BY DEF Inv, TsdbInv, TsdbTypeOK
<1>3. p \in Point
  BY <1>2 DEF Point
<1>4. log' = [log EXCEPT ![key] = Append(log[key], p)]
  BY DEF Record
<1>5. CASE key = k
  <2>1. log[k] \in Seq(Point) /\ log'[k] = Append(log[k], p)
    BY <1>2, <1>4, <1>5 DEF Key
  <2>2. /\ Len(log'[k]) = Len(log[k]) + 1 /\ Len(log[k]) \in Nat
        /\ \A i \in 1..Len(log[k]) : log'[k][i] = log[k][i]
        /\ log'[k][Len(log[k]) + 1] = p
    BY <1>3, <2>1, AppendProperties
  <2>3. {log'[k][i] : i \in 1..Len(log'[k])} = {log[k][i] : i \in 1..Len(log[k])} \cup {p}
    <3> DEFINE a == log'[k]
               b == log[k]
    <3>1. 1..Len(a) = 1..Len(b) \cup {Len(b) + 1}
      BY <2>2
    <3>2. a[Len(b) + 1] = p /\ \A i \in 1..Len(b) : a[i] = b[i]
      BY <2>2
    <3> HIDE DEF a, b, p
    <3>3. {a[i] : i \in 1..Len(a)} = {b[i] : i \in 1..Len(b)} \cup {p}
      BY <3>1, <3>2, Zenon
    <3> QED
      BY <3>3 DEF a, b
  <2>4. p.by = by
    OBVIOUS
  <2> QED
    BY <1>1, <1>5, <2>3, <2>4 DEF Charted
<1>6. CASE key # k
  <2>1. log'[k] = log[k]
    BY <1>2, <1>4, <1>6 DEF Key
  <2> QED
    BY <1>1, <1>6, <2>1 DEF Charted
<1> QED
  BY <1>5, <1>6

\* A session is charted after it is in the table.
LEMMA ChartInv ==
  ASSUME Inv, NEW r \in Request, Goto(r, "executors", "announce"),
         Record("active_spark_executors", r), UNCHANGED appVars
  PROVE  AppsInv'
<1> USE DEF Inv, TasksTypeOK, AppsInv, Goto, At, appVars
<1>1. Announced' = Announced /\ Charted' = Charted \cup {r}
  BY RecordCharted DEF Recorder, Key
<1>2. r \in DOMAIN apps /\ r \notin Charted
  BY DEF AppsExplained
<1>3. AppsTypeOK' /\ AppsPlaces'
  BY DEF AppsTypeOK, AppsPlaces
<1>4. /\ {q \in Request : pc[q] = "executors"}' = {q \in Request : pc[q] = "executors"} \ {r}
      /\ {q \in Request : pc[q] = "announce"}' = {q \in Request : pc[q] = "announce"} \cup {r}
  OBVIOUS
<1>5. AppsExplained'
  BY <1>1, <1>2, <1>4 DEF AppsExplained
<1> QED
  BY <1>3, <1>5

\* A session is announced after it is charted.
LEMMA AnnounceInv ==
  ASSUME Inv, NEW r \in Request, Goto(r, "announce", "answered"), AddAnnotation(r), UNCHANGED appVars
  PROVE  AppsInv'
<1> USE DEF Inv, TasksTypeOK, AppsInv, Goto, At, appVars
<1> DEFINE p == [by |-> r, ts |-> now]
<1>1. /\ Len(annotations') = Len(annotations) + 1 /\ Len(annotations) \in Nat
      /\ \A i \in 1..Len(annotations) : annotations'[i] = annotations[i]
      /\ annotations'[Len(annotations) + 1] = p
      /\ UNCHANGED log
  <2>1. annotations \in Seq(Point) /\ p \in Point
    BY DEF TsdbInv, TsdbTypeOK, Point, Recorder
  <2> QED
    BY <2>1, AppendProperties DEF AddAnnotation
<1>2. Announced' = Announced \cup {r} /\ Charted' = Charted
  <2>1. r # "seed" /\ p.by = r
    BY ServicesAssumption
  <2>2. {annotations'[i].by : i \in 1..Len(annotations')}
          = {annotations[i].by : i \in 1..Len(annotations)} \cup {r}
    BY <1>1, <2>1
  <2> QED
    BY <1>1, <2>1, <2>2 DEF Announced, Charted
<1>3. r \in DOMAIN apps \cap Charted /\ r \notin Announced
  BY DEF AppsExplained
<1>4. AppsTypeOK' /\ AppsPlaces'
  BY DEF AppsTypeOK, AppsPlaces
<1>5. /\ {q \in Request : pc[q] = "executors"}' = {q \in Request : pc[q] = "executors"}
      /\ {q \in Request : pc[q] = "announce"}' = {q \in Request : pc[q] = "announce"} \ {r}
  OBVIOUS
<1>6. AppsExplained'
  BY <1>2, <1>3, <1>5 DEF AppsExplained
<1> QED
  BY <1>4, <1>6

-----------------------------------------------------------------------------
(* The logins *)

\* A login begins.
LEMMA StartLoginInv ==
  ASSUME Inv, NEW r \in Request, StartLogin(r)
  PROVE  LoginInv'
<1> USE DEF Inv, TasksTypeOK, LoginInv, StartLogin, Goto, At
<1>0. shown[r] = {} /\ pc[r] = "idle"
  BY DEF LoginPlaces, Answers
<1>1. PICK u \in User, p \in Password :
        /\ credentials' = [credentials EXCEPT ![r] = [user |-> u, password |-> p]]
        /\ shown' = [shown EXCEPT ![r] = {live[u]}]
  OBVIOUS
<1>2. LoginTypeOK'
  BY <1>1 DEF LoginTypeOK
<1>3. LoginPlaces'
  BY <1>0, <1>1 DEF LoginPlaces, LoginTypeOK
<1>4. GrantExplained'
  <2>0. shown'[r] = {live[u]} /\ \A q \in Request \ {r} : shown'[q] = shown[q]
    BY <1>1 DEF LoginTypeOK
  <2>1. Login' = Login \cup {r} /\ r \notin Login
    BY <1>0, <2>0 DEF Login
  <2>2. \A q \in Login : pc'[q] = pc[q] /\ shown'[q] = shown[q] /\ credentials'[q] = credentials[q]
    BY <1>1, <2>1 DEF Login, LoginTypeOK
  <2>3. /\ {q \in Login : pc[q] = "answered"}' = {q \in Login : pc[q] = "answered"}
        /\ {q \in Login : pc[q] = "refused"}' = {q \in Login : pc[q] = "refused"}
    BY <2>1, <2>2
  <2>4. \A q \in Login' : pc'[q] = "answered" => q \in Login
    BY <2>1
  <2> QED
    BY <2>2, <2>3, <2>4 DEF GrantExplained
<1> QED
  BY <1>2, <1>3, <1>4

\* An exchange with the live directory that is no verdict.
LEMMA ExchangeInv ==
  ASSUME Inv, NEW r \in Request, Search(r) \/ LiveFails(r)
  PROVE  LoginInv'
<1> USE DEF Inv, TasksTypeOK, LoginInv, Goto, At
<1>1. PICK to \in {"bind", "mock"} :
        /\ pc[r] \in {"search", "bind"} /\ pc' = [pc EXCEPT ![r] = to]
        /\ UNCHANGED <<live, changes, credentials, shown, attempts>>
        /\ found' = found \/ Search(r)
        /\ to = "bind" => Search(r)
  BY DEF Search, LiveFails, loginVars
<1>2. LoginTypeOK'
  <2>1. CASE Search(r)
    <3>1. live[credentials[r].user] \in Entry
      BY <2>1, LoginAssumption DEF Search, LoginTypeOK
    <3> QED
      BY <1>1, <2>1, <3>1 DEF Search, LoginTypeOK, Entry
  <2>2. CASE found' = found
    BY <1>1, <2>2 DEF LoginTypeOK
  <2> QED
    BY <1>1, <2>1, <2>2
<1>3. LoginPlaces'
  <2>1. ASSUME NEW q \in Request, q # r PROVE pc'[q] = pc[q] /\ found'[q] = found[q]
    BY <1>1, <2>1 DEF Search, LoginTypeOK
  <2>2. to = "bind" =>
          LET e == live[credentials[r].user]
          IN  e \in shown[r] \ {NoEntry} /\ found'[r] = e.groups
    BY <1>1 DEF Search, LoginPlaces, LoginTypeOK
  <2>3. pc'[r] = to
    BY <1>1
  <2>4. live[credentials[r].user] \in shown[r]
    BY <1>1 DEF LoginPlaces
  <2>5. ASSUME NEW q \in Request
        PROVE  /\ shown'[q] # {} => pc'[q] \in {"search", "bind", "mock"} \cup Answers
               /\ pc'[q] \in {"search", "bind", "mock"} => live'[credentials'[q].user] \in shown'[q]
               /\ pc'[q] = "bind" => \E e \in shown'[q] \ {NoEntry} : found'[q] = e.groups
    <3>1. CASE q = r
      BY <1>1, <2>2, <2>3, <2>4, <3>1
    <3>2. CASE q # r
      BY <1>1, <2>1, <3>2 DEF LoginPlaces
    <3> QED
      BY <3>1, <3>2
  <2> QED
    BY <2>5 DEF LoginPlaces
<1>4. GrantExplained'
  <2>1. Login' = Login
    BY <1>1 DEF Login
  <2>2. /\ {q \in Login : pc[q] = "answered"}' = {q \in Login : pc[q] = "answered"}
        /\ {q \in Login : pc[q] = "refused"}' = {q \in Login : pc[q] = "refused"}
    BY <1>1, <2>1 DEF Login
  <2>3. \A q \in Login' : pc'[q] = "answered" => pc[q] = "answered"
    BY <1>1, <2>1 DEF Login
  <2> QED
    BY <1>1, <2>1, <2>2, <2>3 DEF GrantExplained
<1> QED
  BY <1>2, <1>3, <1>4

\* Who may be logged in.
Granted(r) ==
    LET c == credentials[r]
        entries == shown[r] \ {NoEntry}
    IN  \/ /\ \E e \in entries : e.groups \cap Allowed # {}
           /\ \E e \in entries : Accepts(e, c)
        \/ Accepts(MockEntry(c.user), c) /\ MockEntry(c.user).groups \cap Allowed # {}

\* A verdict is counted once, and is a grant only of who may be logged in.
LEMMA DecideInv ==
  ASSUME Inv, NEW r \in Request, NEW from \in {"bind", "mock"}, NEW groups,
         Decide(r, from, groups), groups \cap Allowed # {} => Granted(r)
  PROVE  LoginInv'
<1> USE DEF Inv, TasksTypeOK, LoginInv, Goto, At
<1> DEFINE ok == groups \cap Allowed # {}
<1>1. /\ pc[r] = from /\ pc' = [pc EXCEPT ![r] = IF ok THEN "answered" ELSE "refused"]
      /\ attempts' = IF ok THEN [attempts EXCEPT !.success = @ + 1]
                           ELSE [attempts EXCEPT !.failure = @ + 1]
      /\ UNCHANGED <<live, changes, credentials, found, shown>>
  BY DEF Decide
<1>2. LoginTypeOK'
  BY <1>1 DEF LoginTypeOK
<1>3. LoginPlaces'
  BY <1>1 DEF LoginPlaces, Answers
<1>4. GrantExplained'
  <2> DEFINE S == {q \in Login : pc[q] = "answered"}
             F == {q \in Login : pc[q] = "refused"}
  <2>1. /\ Login' = Login /\ r \in Login /\ S \subseteq Request /\ F \subseteq Request
        /\ r \notin S /\ r \notin F
    BY <1>1 DEF Login, LoginPlaces
  <2>2. S' = (IF ok THEN S \cup {r} ELSE S)
    BY <1>1, <2>1 DEF Login
  <2>3. F' = (IF ok THEN F ELSE F \cup {r})
    BY <1>1, <2>1 DEF Login
  <2>4. attempts.success = Cardinality(S) /\ attempts.failure = Cardinality(F)
    BY DEF GrantExplained
  <2>5. /\ Cardinality(S \cup {r}) = Cardinality(S) + 1
        /\ Cardinality(F \cup {r}) = Cardinality(F) + 1
    BY <2>1, CountOneMore
  <2>6. attempts'.success = Cardinality(S') /\ attempts'.failure = Cardinality(F')
    BY <1>1, <2>2, <2>3, <2>4, <2>5 DEF LoginTypeOK
  <2>7. \A q \in Login : pc[q] = "answered" => Granted(q)
    BY DEF GrantExplained, Granted
  <2>8. \A q \in Login' : pc'[q] = "answered" => Granted(q)'
    <3>1. \A q \in Login : Granted(q)' <=> Granted(q)
      BY <1>1 DEF Granted, MockEntry, Accepts
    <3> QED
      BY <1>1, <2>1, <2>7, <3>1 DEF Login
  <2> QED
    BY <2>6, <2>8 DEF GrantExplained, Granted
<1> QED
  BY <1>2, <1>3, <1>4

\* Every step of a login.
LEMMA LoginStepInv ==
  ASSUME Inv, NEW r \in Request,
         StartLogin(r) \/ Search(r) \/ LiveFails(r) \/ BindUser(r) \/ MockAuthenticate(r)
  PROVE  LoginInv'
<1>1. CASE BindUser(r)
  <2> DEFINE l == live[credentials[r].user]
  <2>1. pc[r] = "bind" /\ Accepts(l, credentials[r]) /\ Decide(r, "bind", found[r])
    BY <1>1 DEF BindUser, Decide, Goto, At
  <2>2. l \in shown[r] \ {NoEntry} /\ \E e \in shown[r] \ {NoEntry} : found[r] = e.groups
    BY <2>1 DEF Accepts, Inv, LoginInv, LoginPlaces
  <2>3. found[r] \cap Allowed # {} => Granted(r)
    BY <2>1, <2>2 DEF Granted
  <2> QED
    BY <2>1, <2>3, DecideInv
<1>2. CASE MockAuthenticate(r)
  <2> DEFINE e == MockEntry(credentials[r].user)
             groups == IF Accepts(e, credentials[r]) THEN e.groups ELSE {}
  <2>1. groups \cap Allowed # {} => Granted(r)
    BY DEF Granted
  <2>2. Decide(r, "mock", groups)
    BY <1>2 DEF MockAuthenticate
  <2> QED
    BY <2>1, <2>2, DecideInv
<1> QED
  BY <1>1, <1>2, StartLoginInv, ExchangeInv

\* The directory changes under the logins that are under way.
LEMMA DirectoryInv ==
  ASSUME Inv, ChangeDirectory, UNCHANGED taskVars
  PROVE  LoginInv'
<1> USE DEF Inv, TasksTypeOK, LoginInv, taskVars
<1>1. PICK u \in User, e \in LiveEntry \cup {NoEntry} :
        /\ live' = [live EXCEPT ![u] = e]
        /\ shown' = [r \in Request |->
                       IF pc[r] \in {"search", "bind", "mock"} /\ credentials[r].user = u
                       THEN shown[r] \cup {e} ELSE shown[r]]
  BY DEF ChangeDirectory
<1>2. /\ UNCHANGED <<credentials, found, attempts>>
      /\ changes' = changes + 1 /\ changes < MaxChanges
  BY DEF ChangeDirectory
<1>3. LoginTypeOK'
  BY <1>1, <1>2, LoginAssumption DEF LoginTypeOK
<1>4. \A r \in Request : shown[r] \subseteq shown'[r] /\ (shown[r] = {} <=> shown'[r] = {})
  BY <1>1 DEF LoginPlaces
<1>5. LoginPlaces'
  BY <1>1, <1>2, <1>4 DEF LoginPlaces, LoginTypeOK
<1>6. GrantExplained'
  <2>1. Login' = Login
    BY <1>4 DEF Login
  <2>2. \A r \in Login : pc[r] = "answered" => shown'[r] = shown[r]
    BY <1>1 DEF Login
  <2>3. \A r \in Request : credentials'[r] = credentials[r]
    BY <1>2
  <2> QED
    BY <1>2, <2>1, <2>2, <2>3 DEF GrantExplained
<1> QED
  BY <1>3, <1>5, <1>6

-----------------------------------------------------------------------------
(* The composition *)

\* The seeds of the services agree with one another.
LEMMA InitInv == Init => Inv
<1> SUFFICES ASSUME Init PROVE Inv
  OBVIOUS
<1> USE DEF Init
<1>1. TasksTypeOK
  BY DEF TasksInit, TasksTypeOK, Place
<1>2. /\ pc = [r \in Request |-> "idle"] /\ dropped = {}
  BY DEF TasksInit
<1>3. SqlInv
  <2>1. statement = [r \in Request |-> "none"]
    BY DEF SqlInit
  <2>2. {r \in Query : pc[r] \in {"latency", "answered"}} = {} /\ {r \in Query : pc[r] = "refused"} = {}
    BY <1>2 DEF Query
  <2>3. QueriesExplained
    BY <2>2, FS_EmptySet DEF SqlInit, QueriesExplained
  <2>4. SqlTypeOK /\ SqlPlaces
    BY <1>2, <2>1 DEF SqlInit, SqlTypeOK, SqlPlaces
  <2>5. LineOK
    <3>1. ctxQueue \in Seq(Request) /\ Len(ctxQueue) = 0
      BY DEF SqlInit
    <3>2. 1..Len(ctxQueue) = {}
      BY <3>1
    <3> QED
      BY <1>2, <3>1, <3>2 DEF LineOK, Places, At
  <2> QED
    BY <2>3, <2>4, <2>5 DEF SqlInv
<1>4. TsdbTypeOK /\ \A k \in Key : series[k] = Seeded /\ log[k] = Seeded
  <2>1. Seeded \in Seq(Point)
    <3>1. SeedPoints \in Nat
      BY TsdbAssumption
    <3>2. \A i \in 1..SeedPoints : [by |-> "seed", ts |-> i - SeedPoints] \in Point
      BY <3>1 DEF Point, Recorder
    <3> QED
      BY <3>1, <3>2 DEF Seeded
  <2>2. annotations \in Seq(Point)
    BY DEF TsdbInit, Point, Recorder
  <2> QED
    BY <2>1, <2>2 DEF TsdbInit, TsdbTypeOK
<1>5. AppsInv
  <2>1. DOMAIN apps = {} /\ apps \in [{} -> [status : {"RUNNING", "COMPLETED"}, executors : 0..CoreLimit]]
    BY DEF AppsInit
  <2>2. AppsTypeOK /\ AppsPlaces
    BY <2>1 DEF AppsInit, AppsTypeOK, AppsPlaces
  <2>3. Announced = {}
    BY DEF TsdbInit, Announced
  <2>4. Charted \subseteq {"seed"}
    <3>1. log["active_spark_executors"] = Seeded
      BY <1>4 DEF Key
    <3>2. SeedPoints \in Nat
      BY TsdbAssumption
    <3> QED
      BY <3>1, <3>2 DEF Charted, Seeded
  <2> QED
    BY <1>2, <2>1, <2>2, <2>3, <2>4 DEF AppsInv, AppsExplained
<1>6. LoginInv
  <2>1. LoginTypeOK
    BY LoginAssumption DEF LoginInit, LoginTypeOK
  <2>2. shown = [r \in Request |-> {}]
    BY DEF LoginInit
  <2>3. LoginPlaces /\ Login = {}
    BY <1>2, <2>2 DEF LoginPlaces, Login
  <2>4. {r \in Login : pc[r] = "answered"} = {} /\ {r \in Login : pc[r] = "refused"} = {}
    BY <2>3
  <2>5. GrantExplained
    BY <2>3, <2>4, FS_EmptySet DEF LoginInit, GrantExplained
  <2> QED
    BY <2>1, <2>3, <2>5 DEF LoginInv
<1>7. TsdbInv
  <2>1. now = 0 /\ SeedPoints \in Nat /\ MaxPoints \in Nat /\ SeedPoints <= MaxPoints
    BY TsdbAssumption DEF TsdbInit
  <2>2. /\ Len(Seeded) = SeedPoints
        /\ \A i \in 1..SeedPoints : Seeded[i].ts = i - SeedPoints
    BY <2>1 DEF Seeded
  <2>3. InOrder(Seeded) /\ Past(Seeded)
    BY <2>1, <2>2 DEF InOrder, Past
  <2>4. InOrder(annotations) /\ Past(annotations)
    BY <2>1 DEF TsdbInit, InOrder, Past
  <2>5. \A i \in 1..SeedPoints : SeedPoints - SeedPoints + i = i
    BY <2>1
  <2>6. ASSUME NEW k \in Key
        PROVE  LET n == Len(series[k])  m == Len(log[k])
               IN  /\ n = (IF m < MaxPoints THEN m ELSE MaxPoints)
                   /\ \A i \in 1..n : series[k][i] = log[k][m - n + i]
                   /\ InOrder(series[k])
    <3>1. series[k] = Seeded /\ log[k] = Seeded
      BY <1>4
    <3>2. SeedPoints = (IF SeedPoints < MaxPoints THEN SeedPoints ELSE MaxPoints)
      BY <2>1
    <3> QED
      BY <2>2, <2>3, <2>5, <3>1, <3>2
  <2>7. SeriesRecent
    BY <2>4, <2>6 DEF SeriesRecent
  <2> QED
    BY <1>4, <2>3, <2>4, <2>7 DEF TsdbInv
<1> QED
  BY <1>1, <1>3, <1>5, <1>6, <1>7 DEF Inv

\* A component that does not change while no request moves keeps its part.
LEMMA AllKept ==
  ASSUME Inv, UNCHANGED pc
  PROVE  /\ UNCHANGED <<dropped, sqlVars>> => SqlInv'
         /\ UNCHANGED <<appVars, annotations, log["active_spark_executors"]>> => AppsInv'
         /\ UNCHANGED loginVars => LoginInv'
<1>1. ASSUME UNCHANGED <<dropped, sqlVars>> PROVE SqlInv'
  BY <1>1 DEF Inv, SqlInv, sqlVars, SqlTypeOK, LineOK, SqlPlaces, QueriesExplained, Query, Places, Holds, At
<1>2. ASSUME UNCHANGED <<appVars, annotations, log["active_spark_executors"]>> PROVE AppsInv'
  <2>1. Announced' = Announced /\ Charted' = Charted
    BY <1>2 DEF Announced, Charted
  <2> QED
    BY <1>2, <2>1 DEF Inv, AppsInv, appVars, AppsTypeOK, AppsPlaces, AppsExplained
<1>3. ASSUME UNCHANGED loginVars PROVE LoginInv'
  BY <1>3 DEF Inv, LoginInv, loginVars, LoginTypeOK, LoginPlaces, GrantExplained, Login, MockEntry, Accepts
<1> QED
  BY <1>1, <1>2, <1>3

\* A step touches one component, or the two it records in.
LEMMA NextInv == Inv /\ [Next]_vars => Inv'
<1> SUFFICES ASSUME Inv, [Next]_vars PROVE Inv'
  OBVIOUS
<1>1. ASSUME NEW r \in Request, SqlStep(r) PROVE Inv'
  <2> DEFINE Step == StartQuery(r) \/ Plan(r) \/ PlanFails(r) \/ Collect(r) \/ CollectFails(r)
  <2>1. Step /\ UNCHANGED <<appVars, loginVars, tsdbVars, samples>>
    BY <1>1 DEF SqlStep
  <2>2. PICK from \in {"idle", "context", "collect"}, to \in {"context", "collect", "latency", "refused"} :
          Goto(r, from, to)
    BY <2>1 DEF StartQuery, Plan, PlanFails, Collect, CollectFails, Collected
  <2>3. /\ pc[r] = from /\ pc' = [pc EXCEPT ![r] = to] /\ UNCHANGED dropped
        /\ r \notin DOMAIN apps /\ shown[r] = {}
    BY <2>2 DEF Goto, At, Inv, AppsInv, AppsPlaces, LoginInv, LoginPlaces, Answers
  <2>4. TasksTypeOK'
    BY <2>3 DEF Inv, TasksTypeOK, Place, Answers
  <2>5. SqlInv'
    BY <2>1, SqlStepInv
  <2>6. AppsInv'
    BY <2>1, <2>3, AppsKept DEF Place, Answers, tsdbVars
  <2>7. LoginInv'
    BY <2>1, <2>3, LoginKept DEF Place, Answers
  <2> QED
    BY <2>1, <2>4, <2>5, <2>6, <2>7, TsdbKept DEF Inv
<1>2. ASSUME NEW r \in Request, RecordLatency(r) PROVE Inv'
  <2>1. /\ Goto(r, "latency", "answered") /\ Record("query_latency_ms", r)
        /\ UNCHANGED <<sqlVars, appVars, loginVars, samples>>
    BY <1>2 DEF RecordLatency
  <2>2. /\ pc[r] = "latency" /\ pc' = [pc EXCEPT ![r] = "answered"] /\ UNCHANGED dropped
        /\ r \notin DOMAIN apps /\ shown[r] = {} /\ statement[r] # "none" /\ r \notin dropped
    BY <2>1 DEF Goto, At, Inv, SqlInv, SqlPlaces, AppsInv, AppsPlaces, LoginInv, LoginPlaces, Answers
  <2>3. TasksTypeOK'
    BY <2>2 DEF Inv, TasksTypeOK, Place, Answers
  <2>4. SqlInv'
    <3> USE <2>1, <2>2 DEF Inv, TasksTypeOK, SqlInv, sqlVars
    <3>1. SqlTypeOK' /\ SqlPlaces'
      BY DEF SqlTypeOK, SqlPlaces, Answers
    <3>2. LineOK'
      BY DEF LineOK, At, Holds, Places
    <3>3. Query' = Query
      BY DEF Query
    <3>4. /\ {q \in Query : pc[q] \in {"latency", "answered"}}'
                = {q \in Query : pc[q] \in {"latency", "answered"}}
          /\ {q \in Query : pc[q] = "refused"}' = {q \in Query : pc[q] = "refused"}
      BY <3>3 DEF Query
    <3>5. \A q \in Query : pc[q] # "context" => pc'[q] # "context"
      BY DEF Query
    <3>6. QueriesExplained'
      BY <3>3, <3>4, <3>5 DEF QueriesExplained
    <3> QED
      BY <3>1, <3>2, <3>6
  <2>5. log'["active_spark_executors"] = log["active_spark_executors"] /\ annotations' = annotations
    BY <2>1 DEF Record, Inv, TsdbInv, TsdbTypeOK, Key
  <2>6. AppsInv'
    BY <2>1, <2>2, <2>5, AppsKept DEF Place, Answers
  <2>7. LoginInv'
    BY <2>1, <2>2, LoginKept DEF Place, Answers
  <2>8. TsdbInv'
    BY <2>1, RecordInv DEF Key, Recorder, Inv, TsdbInv, TsdbTypeOK
  <2> QED
    BY <2>3, <2>4, <2>6, <2>7, <2>8 DEF Inv
<1>3. ASSUME NEW r \in Request, AppStep(r) \/ RecordExecutors(r) \/ Announce(r) PROVE Inv'
  <2>1. PICK from \in {"idle", "executors", "announce"}, to \in {"executors", "announce", "answered", "refused"} :
          Goto(r, from, to)
    BY <1>3 DEF AppStep, RecordExecutors, Announce, Bootstrap, RejectJob, Terminate, AppNotFound, ApplyPolicy
  <2>2. /\ pc[r] = from /\ pc' = [pc EXCEPT ![r] = to] /\ UNCHANGED <<dropped, sqlVars, loginVars>>
        /\ shown[r] = {} /\ statement[r] = "none"
    BY <1>3, <2>1 DEF Goto, At, Inv, SqlInv, SqlPlaces, LoginInv, LoginPlaces, Answers,
       AppStep, RecordExecutors, Announce
  <2>3. TasksTypeOK' /\ SqlInv' /\ LoginInv'
    BY <2>2, SqlKept, LoginKept DEF Inv, TasksTypeOK, Place, Answers
  <2>4. AppsInv' /\ TsdbInv'
    <3>1. CASE AppStep(r)
      BY <3>1, AppStepInv, TsdbKept DEF AppStep, tsdbVars
    <3>2. CASE RecordExecutors(r)
      BY <3>2, ChartInv, RecordInv DEF RecordExecutors, Key, Recorder, Inv, TsdbInv, TsdbTypeOK
    <3>3. CASE Announce(r)
      BY <3>3, AnnounceInv, AnnotateInv DEF Announce, Recorder
    <3> QED
      BY <1>3, <3>1, <3>2, <3>3
  <2> QED
    BY <2>3, <2>4 DEF Inv
<1>4. ASSUME NEW r \in Request, LoginStep(r) PROVE Inv'
  <2>1. /\ StartLogin(r) \/ Search(r) \/ LiveFails(r) \/ BindUser(r) \/ MockAuthenticate(r)
        /\ UNCHANGED <<sqlVars, appVars, tsdbVars, samples>>
    BY <1>4 DEF LoginStep
  <2>2. PICK from \in {"idle", "search", "bind", "mock"}, to \in {"search", "bind", "mock", "answered", "refused"} :
          Goto(r, from, to)
    BY <2>1 DEF StartLogin, Search, LiveFails, BindUser, MockAuthenticate, Decide
  <2>3. /\ pc[r] = from /\ pc' = [pc EXCEPT ![r] = to] /\ UNCHANGED dropped
        /\ r \notin DOMAIN apps /\ statement[r] = "none"
    BY <2>2 DEF Goto, At, Inv, SqlInv, SqlPlaces, AppsInv, AppsPlaces, Answers
  <2>4. TasksTypeOK' /\ SqlInv'
    BY <2>1, <2>3, SqlKept DEF Inv, TasksTypeOK, Place, Answers
  <2>5. AppsInv'
    BY <2>1, <2>3, AppsKept DEF Place, Answers, tsdbVars
  <2>6. LoginInv'
    BY <2>1, LoginStepInv
  <2> QED
    BY <2>1, <2>4, <2>5, <2>6, TsdbKept DEF Inv
<1>5. ASSUME NEW r \in Request, Drop(r) PROVE Inv'
  <2>1. /\ dropped' = dropped \cup {r} /\ Leave(r)
        /\ UNCHANGED <<pc, statement, registered, queries_total, appVars, loginVars, tsdbVars, samples>>
    BY <1>5 DEF Drop
  <2>2. TasksTypeOK'
    BY <2>1 DEF Inv, TasksTypeOK
  <2> QED
    BY <2>1, <2>2, LeaveInv, AllKept, TsdbKept DEF Inv, tsdbVars
<1>6. CASE Sample
  <2>1. PICK key \in Key :
          /\ Record(key, "sampler")
          /\ samples' = samples + 1 /\ UNCHANGED <<taskVars, sqlVars, appVars, loginVars>>
    BY <1>6 DEF Sample, Key
  <2>2. TasksTypeOK' /\ SqlInv' /\ LoginInv'
    BY <2>1, AllKept DEF Inv, TasksTypeOK, taskVars
  <2>3. TsdbInv'
    BY <2>1, RecordInv DEF Recorder, Inv, TsdbInv, TsdbTypeOK
  <2>4. AppsInv'
    <3>1. Announced' = Announced /\ (Charted' = Charted \/ Charted' = Charted \cup {"sampler"})
      BY <2>1, RecordCharted DEF Recorder
    <3>2. "sampler" \notin Request
      BY ServicesAssumption
    <3> QED
      BY <2>1, <3>1, <3>2 DEF Inv, AppsInv, appVars, taskVars, AppsTypeOK, AppsPlaces, AppsExplained
  <2> QED
    BY <2>2, <2>3, <2>4 DEF Inv
<1>7. CASE DirectoryStep
  <2>1. ChangeDirectory /\ UNCHANGED <<taskVars, sqlVars, appVars, tsdbVars, samples>>
    BY <1>7 DEF DirectoryStep
  <2> QED
    BY <2>1, DirectoryInv, AllKept, TsdbKept DEF Inv, TasksTypeOK, taskVars, tsdbVars
<1>8. CASE Tick
  <2>1. /\ now' = now + 1
        /\ UNCHANGED <<taskVars, sqlVars, appVars, loginVars, series, annotations, log, samples>>
    BY <1>8 DEF Tick
  <2>2. TasksTypeOK' /\ SqlInv' /\ AppsInv' /\ LoginInv'
    BY <2>1, AllKept DEF Inv, TasksTypeOK, taskVars
  <2>3. TsdbTypeOK' /\ SeriesRecent'
    BY <2>1 DEF Inv, TsdbInv, TsdbTypeOK, SeriesRecent, InOrder
  <2>4. (\A k \in Key : Past(series[k]))' /\ Past(annotations)'
    <3>1. ASSUME NEW points \in Seq(Point), Past(points)
          PROVE  \A i \in 1..Len(points) : points[i].ts <= now + 1
      <4>0. \A i \in 1..Len(points) : points[i] \in Point
        OBVIOUS
      <4>1. \A i \in 1..Len(points) : points[i].ts \in Int
        BY <4>0 DEF Point
      <4> QED
        BY <3>1, <4>1 DEF Past, Inv, TsdbInv, TsdbTypeOK
    <3> QED
      BY <2>1, <3>1 DEF Inv, TsdbInv, TsdbTypeOK, Past
  <2> QED
    BY <2>2, <2>3, <2>4 DEF Inv, TsdbInv
<1>9. CASE UNCHANGED vars
  BY <1>9, AllKept, TsdbKept DEF vars, taskVars, tsdbVars, Inv, TasksTypeOK
<1> QED
  BY <1>1, <1>2, <1>3, <1>4, <1>5, <1>6, <1>7, <1>8, <1>9 DEF Next, Serve

\* The invariant holds throughout.
LEMMA AlwaysInv == Spec => []Inv
<1>1. Init /\ [][Next]_vars => []Inv
  BY InitInv, NextInv, PTL
<1> QED
  BY <1>1, PTL DEF Spec

-----------------------------------------------------------------------------
(* Theorems *)

\* Every component keeps to its types, and the mutex of the query context has in its
\* line just the queries that still need it, each once, the one that executes first:
\* no end of a query, and no client that goes, leaves a place or a guard behind.
THEOREM TypeCorrect == Spec => []TypeOK
<1>1. Inv => TypeOK
  BY DEF Inv, TasksTypeOK, SqlInv, AppsInv, LoginInv, TsdbInv, TypeOK
<1> QED
  BY <1>1, AlwaysInv, PTL

\* The counters of execute_query count each finished query once, and a missing
\* table was dropped by some client's statement.
THEOREM QueriesExplainedHolds == Spec => []QueriesExplained
<1>1. Inv => QueriesExplained
  BY DEF Inv, SqlInv
<1> QED
  BY <1>1, AlwaysInv, PTL

\* bootstrap_spark_handler never charts or announces what is not in the table.
THEOREM AppsExplainedHolds == Spec => []AppsExplained
<1>1. Inv => AppsExplained
  BY DEF Inv, AppsInv
<1> QED
  BY <1>1, AlwaysInv, PTL

\* ldap_login_handler lets in nobody without the password and an allowed group, and
\* counts each verdict once, for any behaviour of the live directory.
THEOREM GrantExplainedHolds == Spec => []GrantExplained
<1>1. Inv => GrantExplained
  BY DEF Inv, LoginInv
<1> QED
  BY <1>1, AlwaysInv, PTL

\* record_metric keeps the newest points of each series in order, at its limit too.
THEOREM SeriesRecentHolds == Spec => []SeriesRecent
<1>1. Inv => SeriesRecent
  BY DEF Inv, TsdbInv
<1> QED
  BY <1>1, AlwaysInv, PTL
=============================================================================
